---------------------------- MODULE DeviceSlots -----------------------------
(***************************************************************************)
(* The devices of a subscription: a feed request registers the hardware    *)
(* id of the app that fetches it, as long as a place is free.  The request *)
(* finds the row by its token without a lock and locks it to register.     *)
(* The VLESS repository reads the locked row anew (populate_existing); the *)
(* repository of White Internet gets the object the session has already    *)
(* loaded, so it decides from that copy and writes back what it changed.   *)
(* Fresh says which of the two is modelled.                                *)
(***************************************************************************)
EXTENDS Integers, FiniteSets

CONSTANTS
    Hwids,    \* the devices
    Sessions, \* requests under way at a time
    Fresh,    \* TRUE: VLESS, FALSE: White Internet
    TTL,      \* for how long a silent device keeps its place
    Throttle, \* for how long a device is not stamped again
    Limits,   \* the device limits that are sold or set
    MaxNow,   \* bound on the clock
    MaxToken, \* bound on tokens
    Idle      \* no request

ASSUME SlotConstants ==
    /\ IsFiniteSet(Hwids) /\ Fresh \in BOOLEAN /\ TTL \in Nat /\ Throttle \in Nat
    /\ Limits \subseteq Nat \ {0} /\ MaxNow \in Nat \ {0} /\ MaxToken \in Nat \ {0}

VARIABLES
    row,     \* active_hwids with the time each was last seen (0: none), limit, token
    request, \* per session: kind, device and the copy it read
    now,     \* the clock
    since,   \* history: devices served since the last reset
    seats    \* history: when each device was last served since a reset or a new limit

vars == <<row, request, now, since, seats>>

NoSeats == [h \in Hwids |-> 0]
Live(hwids) == {h \in Hwids : hwids[h] > 0 /\ now - hwids[h] <= TTL}

-----------------------------------------------------------------------------
\* The n most recently seen; which of two seen at the same time is open.
MostRecent(hwids, among, n) ==
    {s \in SUBSET among :
        /\ Cardinality(s) = n
        /\ \A in \in s, out \in among \ s : hwids[in] >= hwids[out]}

\* Variant: when all places are taken the device seen longest ago loses its.
EvictOldest(hwids, limit, h) ==
    IF h \in Live(hwids) \/ Cardinality(Live(hwids)) < limit THEN {Live(hwids)}
    ELSE MostRecent(hwids, Live(hwids), limit - 1)

\* Silent devices lose their place, and the ones seen longest ago when the
\* limit has fallen below their number.
Places(hwids, limit, h) ==
    IF Cardinality(Live(hwids)) > limit THEN MostRecent(hwids, Live(hwids), limit)
    ELSE {Live(hwids)}

\* The registry with the device seen now.
Stamped(hwids, places, h) ==
    [d \in Hwids |-> IF d = h THEN now ELSE IF d \in places THEN hwids[d] ELSE 0]

\* A device stamped a short while ago is served without a write, unless others
\* lose their place.
Throttled(hwids, places, h) ==
    /\ h \in places /\ now - hwids[h] < Throttle
    /\ places = {d \in Hwids : hwids[d] > 0}

\* The registry after a service; new data of the device (open) is stored in any case.
Registries(hwids, places, h) ==
    {Stamped(hwids, places, h)} \cup (IF Throttled(hwids, places, h) THEN {hwids} ELSE {})

Left(hwids, places) == [d \in Hwids |-> IF d \in places THEN hwids[d] ELSE 0]

\* Variant: the row that was read by token is used after the lock.
SeenInCopy(s) == request[s].copy

\* What the session sees of the row after it has locked it.
Seen(s) == IF Fresh THEN row ELSE request[s].copy

\* The column after the flush: an unchanged value is not written.
Written(s, hwids) == IF hwids = Seen(s).hwids THEN row.hwids ELSE hwids

-----------------------------------------------------------------------------
Opens(s, kind, h, n) ==
    /\ request[s] = Idle
    /\ request' = [request EXCEPT ![s] = [kind |-> kind, hwid |-> h, limit |-> n, copy |-> row]]
    /\ UNCHANGED <<row, now, since, seats>>

Is(s, kind) == request[s] # Idle /\ request[s].kind = kind
Closes(s) == request' = [request EXCEPT ![s] = Idle] /\ UNCHANGED now

\* A feed request finds the row of its link and checks access.
FeedReads(s, h) == Opens(s, "feed", h, 0)

\* register_hwid_atomic with a place for the device: it is served.
FeedServes(s) ==
    /\ Is(s, "feed")
    /\ LET h == request[s].hwid
           hwids == Seen(s).hwids
       IN  \E places \in Places(hwids, Seen(s).limit, h) :
             /\ h \in places \/ Cardinality(places) < Seen(s).limit
             /\ \E new \in Registries(hwids, places, h) :
                  row' = [row EXCEPT !.hwids = Written(s, new)]
             /\ since' = since \cup {h}
             /\ seats' = [seats EXCEPT ![h] = now]
    /\ Closes(s)

\* Without a place the device is refused; White Internet stores what is left.
FeedRefuses(s) ==
    /\ Is(s, "feed")
    /\ LET h == request[s].hwid
           hwids == Seen(s).hwids
       IN  \E places \in Places(hwids, Seen(s).limit, h) :
             /\ h \notin places /\ Cardinality(places) >= Seen(s).limit
             /\ row' = IF Fresh THEN row
                       ELSE [row EXCEPT !.hwids = Written(s, Left(hwids, places))]
    /\ Closes(s) /\ UNCHANGED <<since, seats>>

Forgotten == since' = {} /\ seats' = NoSeats

\* reset_active_hwids_atomic and reset_hwids.
ResetReads(s) == Opens(s, "reset", Idle, 0)

ResetHwids(s) ==
    /\ Is(s, "reset")
    /\ row' = [row EXCEPT !.hwids = Written(s, NoSeats)]
    /\ Forgotten /\ Closes(s)

\* reset_subscription_token_atomic and rotate_token: a new link.
TokenReads(s) == row.token < MaxToken /\ Opens(s, "token", Idle, 0)

ResetToken(s) ==
    /\ Is(s, "token") /\ row.token < MaxToken
    /\ row' = [row EXCEPT !.hwids = Written(s, NoSeats), !.token = @ + 1]
    /\ Forgotten /\ Closes(s)

\* set_device_limit_atomic truncates the registry; the VLESS limit is the
\* customer's and the next registration truncates.
LimitReads(s, n) == Opens(s, "limit", Idle, n)

SetDeviceLimit(s) ==
    /\ Is(s, "limit")
    /\ LET n == request[s].limit
           hwids == Seen(s).hwids
           all == {h \in Hwids : hwids[h] > 0}
       IN  IF Fresh \/ Cardinality(all) <= n THEN row' = [row EXCEPT !.limit = n]
           ELSE \E places \in MostRecent(hwids, all, n) :
                  row' = [row EXCEPT !.limit = n, !.hwids = Written(s, Left(hwids, places))]
    /\ seats' = NoSeats
    /\ Closes(s) /\ UNCHANGED since

\* A request is short: the clock stands still while one is under way.
Tick ==
    /\ now < MaxNow /\ \A s \in Sessions : request[s] = Idle
    /\ now' = now + 1
    /\ UNCHANGED <<row, request, since, seats>>

Init ==
    /\ \E n \in Limits : row = [hwids |-> NoSeats, limit |-> n, token |-> 1]
    /\ request = [s \in Sessions |-> Idle]
    /\ now = 1 /\ since = {} /\ seats = NoSeats

Next ==
    \/ \E s \in Sessions :
         \/ \E h \in Hwids : FeedReads(s, h)
         \/ \E n \in Limits : LimitReads(s, n)
         \/ FeedServes(s) \/ FeedRefuses(s)
         \/ ResetReads(s) \/ ResetHwids(s)
         \/ TokenReads(s) \/ ResetToken(s)
         \/ SetDeviceLimit(s)
    \/ Tick

Spec == Init /\ [][Next]_vars

-----------------------------------------------------------------------------
Rows == [hwids : [Hwids -> 0..MaxNow], limit : Limits, token : 1..MaxToken]
Requests ==
    [kind : {"feed"}, hwid : Hwids, limit : {0}, copy : Rows]
        \cup [kind : {"reset", "token"}, hwid : {Idle}, limit : {0}, copy : Rows]
        \cup [kind : {"limit"}, hwid : {Idle}, limit : Limits, copy : Rows]

\* Registered devices were seen in the past; limit and token are possible.
TypeOK ==
    /\ row \in Rows /\ \A h \in Hwids : row.hwids[h] <= now
    /\ request \in [Sessions -> Requests \cup {Idle}]
    /\ now \in 1..MaxNow /\ since \in SUBSET Hwids /\ seats \in [Hwids -> 0..MaxNow]

\* Devices whose last service is so short ago that their place is kept even when
\* that service did not stamp them.
InUse == {h \in Hwids : seats[h] > 0 /\ now - seats[h] + Throttle <= TTL}

\* register_hwid_atomic: no more devices are in use than the limit allows, however
\* many ask at once.  The window is the time a place is kept less the time a
\* device is not stamped again: past it the place of a device may be given away.
LimitHolds == Cardinality(InUse) <= row.limit

\* reset_active_hwids_atomic, reset_subscription_token_atomic: after a reset a
\* device is registered again only by a request that was answered later.
ResetSticks == \A h \in Hwids : row.hwids[h] > 0 => h \in since

\* register_hwid_atomic: a device stamped within TTL keeps its place until a reset
\* or a lower limit; another device that asks, or is refused, does not push it out.
SeatKept ==
    [][\A h \in Live(row.hwids) :
          row'.hwids[h] > 0 \/ since' = {} \/ Cardinality(Live(row.hwids)) > row'.limit]_vars
=============================================================================
