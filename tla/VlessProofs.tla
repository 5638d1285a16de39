------------------------- MODULE VlessProofs -------------------------
(* A VLESS subscription.  Its devices (DeviceSlots): no subscription serves  *)
(* more than it has places, who is reset out stays out, and nobody is pushed *)
(* out by another device: for any devices and any requests at once, and for  *)
(* White Internet, whose requests do not read the row anew, as long as they  *)
(* come one by one.  Its credentials (VlessSync): what a device was given    *)
(* and a node serves is in use or listed for revocation, and what is in use  *)
(* is never listed: for any nodes.  And its bytes (VlessTraffic): each is    *)
(* counted once, and the quota is reported once: for any nodes and bytes.    *)
EXTENDS VlessSubscription, FiniteSetTheorems, TLAPS

-----------------------------------------------------------------------------
\* The devices.

\* What the handlers decide from is the row that they have locked.
OneByOne == Fresh \/ \A r, s \in Sessions : r = s

Copies == ~Fresh => \A s \in Sessions : request[s] # Idle => request[s].copy = row

\* A device in use is registered, and was stamped at its last service or less than
\* Throttle before it.
SeatsListed == \A h \in InUse : row.hwids[h] > 0 /\ row.hwids[h] + Throttle >= seats[h]

\* Once somebody was served under the limit, the registry fits it.
SeatsFit == seats # NoSeats => Cardinality(Live(row.hwids)) <= row.limit

SlotsInv == TypeOK /\ Copies /\ SeatsListed /\ SeatsFit /\ ResetSticks

-----------------------------------------------------------------------------
\* Devices in use are devices, so that there is a number of them.
LEMMA LiveFinite ==
    ASSUME NEW f
    PROVE  /\ Live(f) \subseteq Hwids /\ IsFiniteSet(Live(f)) /\ Cardinality(Live(f)) \in Nat
           /\ \A S \in SUBSET Live(f) : IsFiniteSet(S) /\ Cardinality(S) \in Nat
                                         /\ Cardinality(S) <= Cardinality(Live(f))
<1>1. Live(f) \subseteq Hwids  BY DEF Live
<1>2. IsFiniteSet(Live(f))  BY <1>1, SlotConstants, FS_Subset
<1> QED  BY <1>1, <1>2, FS_Subset, FS_CardinalityType

LEMMA NobodyInUse == seats = NoSeats => InUse = {}
BY DEF InUse, NoSeats

\* A device in use keeps its place, stamped or not at its last service.
LEMMA InUseLive ==
    ASSUME TypeOK, SeatsListed, NEW h \in InUse
    PROVE  h \in Live(row.hwids) /\ seats # NoSeats
<1>1. /\ h \in Hwids /\ seats[h] > 0 /\ now - seats[h] + Throttle <= TTL
      /\ row.hwids[h] > 0 /\ row.hwids[h] + Throttle >= seats[h]
    BY DEF InUse, SeatsListed
<1>2. /\ row.hwids[h] \in Nat /\ seats[h] \in Nat /\ now \in Nat
      /\ Throttle \in Nat /\ TTL \in Nat
    BY <1>1, SlotConstants DEF TypeOK, Rows
<1>3. now - row.hwids[h] <= TTL  BY <1>1, <1>2
<1> QED  BY <1>1, <1>3 DEF Live, NoSeats

\* Places keeps the devices in use, or as many of them as the limit allows.
LEMMA PlacesKept ==
    ASSUME NEW f, NEW limit \in Nat \ {0}, NEW h, NEW places \in Places(f, limit, h)
    PROVE  /\ places \subseteq Live(f) /\ IsFiniteSet(places) /\ Cardinality(places) \in Nat
           /\ Cardinality(places) <= limit
           /\ Cardinality(Live(f)) <= limit => places = Live(f)
<1>1. Cardinality(Live(f)) \in Nat  BY LiveFinite
<1>2. CASE Cardinality(Live(f)) > limit
    <2>1. places \subseteq Live(f) /\ Cardinality(places) = limit
        BY <1>2 DEF Places, MostRecent
    <2>2. IsFiniteSet(places)  BY <2>1, LiveFinite
    <2> QED  BY <1>1, <1>2, <2>1, <2>2
<1>3. CASE ~(Cardinality(Live(f)) > limit)
    <2>1. places = Live(f)  BY <1>3 DEF Places
    <2> QED  BY <1>1, <1>3, <2>1, LiveFinite
<1> QED  BY <1>2, <1>3

\* After a registration the places and the device are in use.
LEMMA StampedLive ==
    ASSUME TypeOK, NEW f \in [Hwids -> 0..MaxNow], NEW h \in Hwids, NEW places \in SUBSET Live(f)
    PROVE  /\ Stamped(f, places, h) \in [Hwids -> 0..MaxNow]
           /\ Live(Stamped(f, places, h)) = places \cup {h}
           /\ \A d \in places \ {h} : Stamped(f, places, h)[d] = f[d]
           /\ Stamped(f, places, h)[h] = now
           /\ \A d \in Hwids : Stamped(f, places, h)[d] > 0 => d = h \/ f[d] > 0
BY SlotConstants DEF TypeOK, Stamped, Live

LEMMA LeftLive ==
    ASSUME NEW f \in [Hwids -> 0..MaxNow], NEW places \in SUBSET Live(f)
    PROVE  /\ Left(f, places) \in [Hwids -> 0..MaxNow] /\ Live(Left(f, places)) = places
           /\ \A d \in places : Left(f, places)[d] = f[d]
           /\ \A d \in Hwids : Left(f, places)[d] > 0 => f[d] > 0
BY SlotConstants DEF Left, Live

\* One more device fits where there was a place for it.
LEMMA OneMoreFits ==
    ASSUME NEW places, IsFiniteSet(places), NEW h, NEW limit \in Nat,
           Cardinality(places) <= limit, h \in places \/ Cardinality(places) < limit
    PROVE  Cardinality(places \cup {h}) <= limit
<1>1. Cardinality(places) \in Nat  BY FS_CardinalityType
<1>2. Cardinality(places \cup {h}) = IF h \in places THEN Cardinality(places)
                                     ELSE Cardinality(places) + 1
    BY FS_AddElement
<1> QED  BY <1>1, <1>2

-----------------------------------------------------------------------------
\* The row that a handler decides from is the one it locks.
LEMMA SeenIsRow ==
    ASSUME Copies, NEW s \in Sessions, request[s] # Idle
    PROVE  /\ Seen(s) = row
           /\ \A f : Written(s, f) = f
BY DEF Copies, Seen, Written

LEMMA RowType ==
    ASSUME TypeOK
    PROVE  /\ row.hwids \in [Hwids -> 0..MaxNow] /\ row.limit \in Nat \ {0} /\ row.limit \in Limits
           /\ \A f \in [Hwids -> 0..MaxNow] :
                 /\ [row EXCEPT !.hwids = f] \in Rows
                 /\ [row EXCEPT !.hwids = f].hwids = f
                 /\ [row EXCEPT !.hwids = f].limit = row.limit
BY SlotConstants DEF TypeOK, Rows

\* A request that is answered gives its session up; while copies are used
\* there is no other.
LEMMA ClosesRequest ==
    ASSUME TypeOK, OneByOne, NEW s \in Sessions, Closes(s)
    PROVE  /\ request' \in [Sessions -> Requests \cup {Idle}] /\ Copies'
<1>1. request' \in [Sessions -> Requests \cup {Idle}]  BY DEF TypeOK, Closes
<1>2. request'[s] = Idle  BY DEF TypeOK, Closes
<1>3. ~Fresh => \A r \in Sessions : r = s  BY DEF OneByOne
<1> QED  BY <1>1, <1>2, <1>3 DEF Copies

LEMMA SlotsInit == ASSUME Init PROVE SlotsInv
<1>1. PICK n \in Limits : row = [hwids |-> NoSeats, limit |-> n, token |-> 1]  BY DEF Init
<1>2. NoSeats \in [Hwids -> 0..MaxNow] /\ \A h \in Hwids : NoSeats[h] = 0
    BY SlotConstants DEF NoSeats
<1>3. row \in Rows /\ row.hwids = NoSeats  BY <1>1, <1>2, SlotConstants DEF Rows
<1>4. TypeOK  BY <1>2, <1>3, SlotConstants DEF Init, TypeOK
<1>5. Copies /\ SeatsFit /\ ResetSticks
    BY <1>2, <1>3 DEF Init, Copies, SeatsFit, ResetSticks
<1>6. SeatsListed  BY NobodyInUse DEF Init, SeatsListed
<1> QED  BY <1>4, <1>5, <1>6 DEF SlotsInv

\* A request begins with the row as it is.
LEMMA OpensStep ==
    ASSUME SlotsInv, NEW s \in Sessions, NEW kind, NEW h, NEW n, Opens(s, kind, h, n),
           [kind |-> kind, hwid |-> h, limit |-> n, copy |-> row] \in Requests
    PROVE  SlotsInv'
<1> DEFINE new == [kind |-> kind, hwid |-> h, limit |-> n, copy |-> row]
<1> USE DEF SlotsInv, Opens
<1>1. new.copy = row  OBVIOUS
<1> HIDE DEF new
<1>2. request' = [request EXCEPT ![s] = new] /\ new \in Requests  BY DEF new
<1>3. TypeOK'  BY <1>2 DEF TypeOK
<1>4. Copies'  BY <1>1, <1>2 DEF Copies, TypeOK
<1>5. SeatsListed' /\ SeatsFit' /\ ResetSticks'
    BY DEF SeatsListed, SeatsFit, ResetSticks, Live, InUse, NoSeats
<1> QED  BY <1>3, <1>4, <1>5

LEMMA ReadsStep ==
    ASSUME SlotsInv, NEW s \in Sessions,
           \/ \E h \in Hwids : FeedReads(s, h)
           \/ \E n \in Limits : LimitReads(s, n)
           \/ ResetReads(s) \/ TokenReads(s)
    PROVE  SlotsInv'
<1>1. row \in Rows  BY DEF SlotsInv, TypeOK
<1>2. ASSUME NEW h \in Hwids, FeedReads(s, h) PROVE SlotsInv'
    <2>1. [kind |-> "feed", hwid |-> h, limit |-> 0, copy |-> row] \in Requests
        BY <1>1 DEF Requests
    <2> QED  BY <1>2, <2>1, OpensStep DEF FeedReads
<1>3. ASSUME NEW n \in Limits, LimitReads(s, n) PROVE SlotsInv'
    <2>1. [kind |-> "limit", hwid |-> Idle, limit |-> n, copy |-> row] \in Requests
        BY <1>1 DEF Requests
    <2> QED  BY <1>3, <2>1, OpensStep DEF LimitReads
<1>4. CASE ResetReads(s) \/ TokenReads(s)
    <2>1. /\ [kind |-> "reset", hwid |-> Idle, limit |-> 0, copy |-> row] \in Requests
          /\ [kind |-> "token", hwid |-> Idle, limit |-> 0, copy |-> row] \in Requests
        BY <1>1 DEF Requests
    <2> QED  BY <1>4, <2>1, OpensStep DEF ResetReads, TokenReads
<1> QED  BY <1>2, <1>3, <1>4

-----------------------------------------------------------------------------
\* A registry f takes the place of the one in the row.
LEMMA RowWritten ==
    ASSUME TypeOK, NEW f \in [Hwids -> 0..MaxNow], row' = [row EXCEPT !.hwids = f]
    PROVE  row' \in Rows /\ row'.hwids = f /\ row'.limit = row.limit
BY RowType

\* register_hwid_atomic, for a device that has or gets a place.
LEMMA ServesStep ==
    ASSUME SlotsInv, OneByOne, NEW s \in Sessions, FeedServes(s)
    PROVE  SlotsInv'
<1> DEFINE h == request[s].hwid
           f == row.hwids
<1> USE DEF SlotsInv
<1>1. /\ TypeOK /\ request[s] # Idle /\ h \in Hwids /\ f \in [Hwids -> 0..MaxNow]
      /\ row.limit \in Nat \ {0} /\ now \in 1..MaxNow
    BY RowType DEF FeedServes, Is, TypeOK, Requests
<1>2. Seen(s) = row /\ \A g : Written(s, g) = g  BY <1>1, SeenIsRow
<1>3. PICK places \in Places(f, row.limit, h) :
         /\ h \in places \/ Cardinality(places) < row.limit
         /\ \E g \in Registries(f, places, h) : row' = [row EXCEPT !.hwids = g]
    BY <1>2 DEF FeedServes
<1>4. since' = since \cup {h} /\ seats' = [seats EXCEPT ![h] = now] /\ now' = now /\ Closes(s)
    BY DEF FeedServes, Closes
<1> HIDE DEF h, f
<1>5. /\ places \subseteq Live(f) /\ IsFiniteSet(places) /\ Cardinality(places) <= row.limit
      /\ Cardinality(Live(f)) <= row.limit => places = Live(f)
    BY <1>1, PlacesKept
<1>6. PICK g \in Registries(f, places, h) : row' = [row EXCEPT !.hwids = g]  BY <1>3
<1>a. /\ g \in [Hwids -> 0..MaxNow] /\ Live(g) = places \cup {h}
      /\ g[h] > 0 /\ g[h] + Throttle >= now /\ \A d \in Hwids : g[d] <= now
      /\ \A d \in places \ {h} : g[d] = f[d]
      /\ \A d \in Hwids : g[d] > 0 => d = h \/ f[d] > 0
    <2>1. \A d \in Hwids : f[d] <= now  BY <1>1 DEF TypeOK, f
    <2>2. CASE g = Stamped(f, places, h)
        <3>1. \A d \in Hwids : g[d] = now \/ g[d] = f[d] \/ g[d] = 0
            BY <2>2 DEF Stamped
        <3> QED  BY <1>1, <1>5, <2>1, <2>2, <3>1, StampedLive, SlotConstants
    <2>3. CASE g = f /\ Throttled(f, places, h)
        <3>1. /\ h \in places /\ now - f[h] < Throttle
              /\ places = {d \in Hwids : f[d] > 0}
            BY <2>3 DEF Throttled
        <3>2. Live(f) = places  BY <1>5, <3>1 DEF Live
        <3>3. f[h] \in Nat /\ f[h] > 0 /\ f[h] + Throttle >= now
            BY <1>1, <3>1, SlotConstants
        <3> QED  BY <1>1, <2>1, <2>3, <3>1, <3>2, <3>3
    <2> QED  BY <1>6, <2>2, <2>3 DEF Registries
<1>7. row' \in Rows /\ row'.hwids = g /\ row'.limit = row.limit
    BY <1>1, <1>6, <1>a, RowWritten
<1>8. TypeOK' /\ Copies'
    <2>1. request' \in [Sessions -> Requests \cup {Idle}] /\ Copies'
        BY <1>1, <1>4, ClosesRequest
    <2>2. seats' \in [Hwids -> 0..MaxNow] /\ since' \in SUBSET Hwids
        BY <1>1, <1>4 DEF TypeOK
    <2> QED  BY <1>1, <1>4, <1>7, <1>a, <2>1, <2>2 DEF TypeOK
<1>9. SeatsListed'
    <2> SUFFICES ASSUME NEW d \in Hwids, seats'[d] > 0, now - seats'[d] + Throttle <= TTL
                 PROVE  g[d] > 0 /\ g[d] + Throttle >= seats'[d]
        BY <1>4, <1>7 DEF SeatsListed, InUse
    <2>1. seats \in [Hwids -> 0..MaxNow]  BY <1>1 DEF TypeOK
    <2>2. CASE d = h  BY <1>1, <1>4, <1>a, <2>1, <2>2
    <2>3. CASE d # h
        <3>1. seats'[d] = seats[d] /\ d \in InUse
            BY <1>4, <2>1, <2>3 DEF InUse
        <3>2. f[d] > 0 /\ f[d] + Throttle >= seats[d]  BY <3>1 DEF SeatsListed, f
        <3>3. d \in Live(f) /\ seats # NoSeats  BY <1>1, <3>1, InUseLive DEF f
        <3>4. places = Live(f)  BY <1>5, <3>3 DEF SeatsFit, f
        <3> QED  BY <1>a, <2>3, <3>1, <3>2, <3>3, <3>4
    <2> QED  BY <2>2, <2>3
<1>10. SeatsFit'
    <2>1. Cardinality(places \cup {h}) <= row.limit
        BY <1>1, <1>3, <1>5, OneMoreFits
    <2>2. Live(row.hwids)' = places \cup {h}  BY <1>4, <1>7, <1>a DEF Live
    <2> QED  BY <1>7, <2>1, <2>2 DEF SeatsFit
<1>11. ResetSticks'
    BY <1>1, <1>4, <1>7, <1>a DEF ResetSticks, f
<1> QED  BY <1>8, <1>9, <1>10, <1>11

\* A refused device leaves the others where they are.
LEMMA RefusesStep ==
    ASSUME SlotsInv, OneByOne, NEW s \in Sessions, FeedRefuses(s)
    PROVE  SlotsInv'
<1> DEFINE h == request[s].hwid
           f == row.hwids
<1> USE DEF SlotsInv
<1>1. /\ TypeOK /\ request[s] # Idle /\ f \in [Hwids -> 0..MaxNow] /\ row.limit \in Nat \ {0}
      /\ row \in Rows
    BY RowType DEF FeedRefuses, Is, TypeOK
<1>2. Seen(s) = row /\ \A g : Written(s, g) = g  BY <1>1, SeenIsRow
<1>3. PICK places \in Places(f, row.limit, h) :
         row' = row \/ row' = [row EXCEPT !.hwids = Left(f, places)]
    BY <1>2 DEF FeedRefuses
<1>4. since' = since /\ seats' = seats /\ now' = now /\ Closes(s)
    BY DEF FeedRefuses, Closes
<1> HIDE DEF h, f
<1>5. /\ places \subseteq Live(f)
      /\ Cardinality(Live(f)) <= row.limit => places = Live(f)
    BY <1>1, PlacesKept
<1> DEFINE g == Left(f, places)
<1>6. /\ g \in [Hwids -> 0..MaxNow] /\ Live(g) = places
      /\ \A d \in places : g[d] = f[d]
      /\ \A d \in Hwids : g[d] > 0 => f[d] > 0
    BY <1>1, <1>5, LeftLive
<1>7. request' \in [Sessions -> Requests \cup {Idle}] /\ Copies'  BY <1>1, <1>4, ClosesRequest
<1>8. CASE row' = row
    BY <1>1, <1>4, <1>7, <1>8
       DEF TypeOK, SeatsListed, SeatsFit, ResetSticks, Live, InUse, NoSeats
<1>9. CASE row' = [row EXCEPT !.hwids = g]
    <2>1. row' \in Rows /\ row'.hwids = g /\ row'.limit = row.limit
        BY <1>1, <1>6, <1>9, RowWritten
    <2>2. \A d \in Hwids : g[d] <= now
        <3> TAKE d \in Hwids
        <3>1. f[d] <= now /\ now \in 1..MaxNow  BY <1>1 DEF TypeOK, f
        <3>2. g[d] = f[d] \/ g[d] = 0  BY DEF Left
        <3> QED  BY <3>1, <3>2
    <2> HIDE DEF g
    <2>3. TypeOK'  BY <1>1, <1>4, <1>7, <2>1, <2>2 DEF TypeOK
    <2>4. SeatsListed'
        <3> SUFFICES ASSUME NEW d \in Hwids, d \in InUse
                     PROVE  g[d] > 0 /\ g[d] + Throttle >= seats[d]
            BY <1>4, <2>1 DEF SeatsListed, InUse
        <3>1. f[d] > 0 /\ f[d] + Throttle >= seats[d]  BY DEF SeatsListed, f
        <3>2. d \in Live(f) /\ seats # NoSeats  BY <1>1, InUseLive DEF f
        <3>3. places = Live(f)  BY <1>5, <3>2 DEF SeatsFit, f
        <3> QED  BY <1>6, <3>1, <3>2, <3>3
    <2>5. SeatsFit'
        <3> SUFFICES ASSUME seats # NoSeats PROVE Cardinality(Live(g)) <= row.limit
            BY <1>4, <2>1 DEF SeatsFit, Live, NoSeats
        <3>1. Cardinality(Live(f)) <= row.limit  BY DEF SeatsFit, f
        <3> QED  BY <1>5, <1>6, <3>1
    <2>6. ResetSticks'  BY <1>4, <1>6, <2>1 DEF ResetSticks, f
    <2> QED  BY <1>7, <2>3, <2>4, <2>5, <2>6
<1> QED  BY <1>3, <1>8, <1>9

\* A reset, or a new link, empties the registry.
LEMMA ResetStep ==
    ASSUME SlotsInv, OneByOne, NEW s \in Sessions, ResetHwids(s) \/ ResetToken(s)
    PROVE  SlotsInv'
<1> USE DEF SlotsInv
<1>1. /\ TypeOK /\ request[s] # Idle /\ Closes(s) /\ since' = {} /\ seats' = NoSeats /\ now' = now
      /\ row \in Rows
    BY DEF ResetHwids, ResetToken, Is, TypeOK, Forgotten, Closes
<1>2. \A g : Written(s, g) = g  BY <1>1, SeenIsRow
<1>3. NoSeats \in [Hwids -> 0..MaxNow] /\ \A h \in Hwids : NoSeats[h] = 0
    BY SlotConstants DEF NoSeats
<1>4. row' \in Rows /\ row'.hwids = NoSeats
    <2>1. CASE ResetHwids(s)
        <3>1. row' = [row EXCEPT !.hwids = NoSeats]  BY <1>2, <2>1 DEF ResetHwids
        <3> QED  BY <1>1, <1>3, <3>1, RowWritten
    <2>2. CASE ResetToken(s)
        <3>1. row.token \in 1..MaxToken /\ row.token < MaxToken
            BY <1>1, <2>2 DEF ResetToken, Rows
        <3>2. row.token + 1 \in 1..MaxToken  BY <3>1, SlotConstants
        <3>3. ASSUME NEW n \in 1..MaxToken
              PROVE  LET r == [row EXCEPT !.hwids = NoSeats, !.token = n]
                     IN  r \in Rows /\ r.hwids = NoSeats
            BY <1>1, <1>3 DEF Rows
        <3>4. row' = [row EXCEPT !.hwids = NoSeats, !.token = row.token + 1]
            BY <1>1, <1>2, <2>2 DEF ResetToken, Rows
        <3> QED  BY <3>2, <3>3, <3>4
    <2> QED  BY <1>1, <2>1, <2>2
<1>5. request' \in [Sessions -> Requests \cup {Idle}] /\ Copies'  BY <1>1, ClosesRequest
<1>6. TypeOK'
    BY <1>1, <1>3, <1>4, <1>5 DEF TypeOK
<1>7. SeatsListed' /\ SeatsFit' /\ ResetSticks'
    BY <1>1, <1>3, <1>4 DEF SeatsListed, SeatsFit, ResetSticks, Live, InUse, NoSeats
<1> QED  BY <1>5, <1>6, <1>7

\* set_device_limit_atomic: what does not fit a lower limit may go.
LEMMA LimitStep ==
    ASSUME SlotsInv, OneByOne, NEW s \in Sessions, SetDeviceLimit(s)
    PROVE  SlotsInv'
<1> DEFINE n == request[s].limit
           f == row.hwids
           all == {h \in Hwids : f[h] > 0}
<1> USE DEF SlotsInv
<1>1. /\ TypeOK /\ request[s] # Idle /\ n \in Limits /\ Closes(s) /\ since' = since
      /\ seats' = NoSeats /\ now' = now /\ row \in Rows /\ f \in [Hwids -> 0..MaxNow]
      /\ now \in 1..MaxNow
    BY RowType DEF SetDeviceLimit, Is, TypeOK, Requests, Closes
<1>2. Seen(s) = row /\ \A g : Written(s, g) = g  BY <1>1, SeenIsRow
<1> HIDE DEF n
<1>3. ASSUME NEW g \in [Hwids -> 0..MaxNow]
      PROVE  LET r == [row EXCEPT !.limit = n, !.hwids = g]
             IN  r \in Rows /\ r.hwids = g
    BY <1>1 DEF Rows
<1>4. PICK g \in [Hwids -> 0..MaxNow] :
         /\ row' \in Rows /\ row'.hwids = g
         /\ \A d \in Hwids : g[d] = f[d] \/ g[d] = 0
    <2>1. CASE row' = [row EXCEPT !.limit = n]
        <3>1. row' \in Rows /\ row'.hwids = f  BY <1>1, <2>1 DEF Rows
        <3> QED  BY <1>1, <3>1
    <2>2. ASSUME NEW places \in MostRecent(f, all, n),
                 row' = [row EXCEPT !.limit = n, !.hwids = Left(f, places)]
          PROVE  /\ row' \in Rows /\ row'.hwids = Left(f, places)
                 /\ Left(f, places) \in [Hwids -> 0..MaxNow]
                 /\ \A d \in Hwids : Left(f, places)[d] = f[d] \/ Left(f, places)[d] = 0
        <3>1. /\ Left(f, places) \in [Hwids -> 0..MaxNow]
              /\ \A d \in Hwids : Left(f, places)[d] = f[d] \/ Left(f, places)[d] = 0
            BY <1>1, SlotConstants DEF Left
        <3> QED  BY <1>3, <2>2, <3>1
    <2>3. \/ row' = [row EXCEPT !.limit = n]
          \/ \E places \in MostRecent(f, all, n) :
                row' = [row EXCEPT !.limit = n, !.hwids = Left(f, places)]
        BY <1>2 DEF SetDeviceLimit, n
    <2> QED  BY <2>1, <2>2, <2>3
<1> HIDE DEF f, all
<1>5. request' \in [Sessions -> Requests \cup {Idle}] /\ Copies'  BY <1>1, ClosesRequest
<1>6. NoSeats \in [Hwids -> 0..MaxNow]  BY SlotConstants DEF NoSeats
<1>7. TypeOK'
    <2>1. \A d \in Hwids : g[d] <= now
        <3>1. \A d \in Hwids : f[d] <= now  BY <1>1 DEF TypeOK, f
        <3> QED  BY <1>1, <1>4, <3>1
    <2> QED  BY <1>1, <1>4, <1>5, <1>6, <2>1 DEF TypeOK
<1>8. SeatsListed' /\ SeatsFit'
    BY <1>1, <1>6 DEF SeatsListed, SeatsFit, Live, InUse, NoSeats
<1>9. ResetSticks'  BY <1>1, <1>4 DEF ResetSticks, f
<1> QED  BY <1>5, <1>7, <1>8, <1>9

\* Time takes places away, and gives none.
LEMMA TickStep == ASSUME SlotsInv, Tick PROVE SlotsInv'
<1> USE DEF SlotsInv
<1>1. /\ TypeOK /\ now' = now + 1 /\ now \in 1..MaxNow /\ now' \in 1..MaxNow
      /\ row' = row /\ request' = request /\ since' = since /\ seats' = seats
      /\ row.hwids \in [Hwids -> 0..MaxNow] /\ row.limit \in Nat
    BY RowType, SlotConstants DEF Tick, TypeOK
<1>2. TypeOK'  BY <1>1 DEF TypeOK
<1>3. Copies' /\ ResetSticks'  BY <1>1 DEF Copies, ResetSticks
<1>4. InUse' \subseteq InUse /\ Live(row.hwids)' \subseteq Live(row.hwids)
    BY <1>1, SlotConstants DEF InUse, Live, TypeOK
<1>5. SeatsListed'  BY <1>1, <1>4 DEF SeatsListed
<1>6. SeatsFit'
    <2> SUFFICES ASSUME seats # NoSeats PROVE Cardinality(Live(row.hwids)') <= row.limit
        BY <1>1 DEF SeatsFit, NoSeats
    <2>1. Cardinality(Live(row.hwids)) <= row.limit  BY DEF SeatsFit
    <2>2. /\ Cardinality(Live(row.hwids)') <= Cardinality(Live(row.hwids))
          /\ Cardinality(Live(row.hwids)') \in Nat /\ Cardinality(Live(row.hwids)) \in Nat
        BY <1>4, LiveFinite
    <2> QED  BY <1>1, <2>1, <2>2
<1> QED  BY <1>2, <1>3, <1>5, <1>6

\* SlotsInv is inductive.
LEMMA SlotsStep == ASSUME SlotsInv, OneByOne, [Next]_vars PROVE SlotsInv'
<1>1. CASE UNCHANGED vars
    BY <1>1 DEF vars, SlotsInv, TypeOK, Copies, SeatsListed, SeatsFit, ResetSticks, Live, InUse,
       NoSeats
<1> QED
    BY <1>1, ReadsStep, ServesStep, RefusesStep, ResetStep, LimitStep, TickStep DEF Next

\* Who is in use is in the registry, and the registry fits the limit
\* from the first device on that is served under it.
THEOREM SlotsInvariant == ASSUME OneByOne PROVE Spec => []SlotsInv
<1>1. Init => SlotsInv  BY SlotsInit
<1>2. SlotsInv /\ [Next]_vars => SlotsInv'  BY OneByOne, SlotsStep
<1> QED  BY <1>1, <1>2, PTL DEF Spec

\* register_hwid_atomic counts the places under the lock of the row, so no more
\* devices are in use than there are places, however many ask at once and even
\* if a service did not stamp its device.
THEOREM LimitIsHeld == ASSUME OneByOne PROVE Spec => []LimitHolds
<1>1. SlotsInv => LimitHolds
    <2> SUFFICES ASSUME SlotsInv PROVE LimitHolds  OBVIOUS
    <2>1. TypeOK /\ row.limit \in Nat  BY RowType DEF SlotsInv
    <2>2. CASE seats = NoSeats
        <3>1. Cardinality(InUse) = 0  BY <2>2, NobodyInUse, FS_EmptySet
        <3> QED  BY <2>1, <3>1 DEF LimitHolds
    <2>3. CASE seats # NoSeats
        <3>1. InUse \subseteq Live(row.hwids)  BY <2>1, InUseLive DEF SlotsInv
        <3>2. /\ Cardinality(InUse) <= Cardinality(Live(row.hwids))
              /\ Cardinality(InUse) \in Nat /\ Cardinality(Live(row.hwids)) \in Nat
            BY <3>1, LiveFinite
        <3>3. Cardinality(Live(row.hwids)) <= row.limit  BY <2>3 DEF SlotsInv, SeatsFit
        <3> QED  BY <2>1, <3>2, <3>3 DEF LimitHolds
    <2> QED  BY <2>2, <2>3
<1> QED  BY <1>1, SlotsInvariant, PTL

\* reset_active_hwids_atomic: a request that began before the reset brings
\* nobody back, for it decides from the row that it locks after it.
THEOREM ResetsStick == ASSUME OneByOne PROVE Spec => []ResetSticks
<1>1. SlotsInv => ResetSticks  BY DEF SlotsInv
<1> QED  BY <1>1, SlotsInvariant, PTL

-----------------------------------------------------------------------------
\* What SeatKept says of a step.
Keeps ==
    \A h \in Live(row.hwids) :
        row'.hwids[h] > 0 \/ since' = {} \/ Cardinality(Live(row.hwids)) > row'.limit

LEMMA FeedKeeps ==
    ASSUME SlotsInv, NEW s \in Sessions, FeedServes(s) \/ FeedRefuses(s)
    PROVE  Keeps
<1> DEFINE h == request[s].hwid
           f == row.hwids
<1>1. /\ TypeOK /\ request[s] # Idle /\ f \in [Hwids -> 0..MaxNow] /\ row.limit \in Nat \ {0}
      /\ now \in 1..MaxNow
    BY RowType DEF SlotsInv, FeedServes, FeedRefuses, Is, TypeOK
<1>2. Seen(s) = row /\ \A g : Written(s, g) = g  BY <1>1, SeenIsRow DEF SlotsInv
<1>3. PICK places \in Places(f, row.limit, h) :
         \/ row' = row
         \/ row' = [row EXCEPT !.hwids = Left(f, places)]
         \/ row' = [row EXCEPT !.hwids = Stamped(f, places, h)]
         \/ row' = [row EXCEPT !.hwids = f]
    BY <1>2 DEF FeedServes, FeedRefuses, Registries
<1> HIDE DEF h
<1>4. Cardinality(Live(f)) \in Nat /\ (Cardinality(Live(f)) <= row.limit => places = Live(f))
    BY <1>1, PlacesKept, LiveFinite
<1>5. row'.limit = row.limit /\ (row'.hwids = f \/ row'.hwids = Left(f, places)
                                   \/ row'.hwids = Stamped(f, places, h))
    BY <1>1, <1>3 DEF TypeOK, Rows
<1>6. CASE Cardinality(Live(f)) > row.limit  BY <1>5, <1>6 DEF Keeps
<1>7. CASE places = Live(f)
    <2>1. \A d \in Live(f) : d \in Hwids /\ f[d] > 0  BY DEF Live
    <2>2. \A d \in Live(f) : Left(f, places)[d] > 0 /\ Stamped(f, places, h)[d] > 0
        BY <1>1, <1>7, <2>1 DEF Left, Stamped
    <2> QED  BY <1>5, <2>1, <2>2 DEF Keeps
<1> QED  BY <1>1, <1>4, <1>6, <1>7

\* A lower limit takes the places of the devices that were silent for longer.
LEMMA LimitKeeps ==
    ASSUME SlotsInv, NEW s \in Sessions, SetDeviceLimit(s)
    PROVE  Keeps
<1> DEFINE n == request[s].limit
           f == row.hwids
           all == {h \in Hwids : f[h] > 0}
<1>1. /\ TypeOK /\ request[s] # Idle /\ n \in Limits /\ n \in Nat /\ f \in [Hwids -> 0..MaxNow]
      /\ now \in 1..MaxNow /\ row \in Rows
    BY RowType, SlotConstants DEF SlotsInv, SetDeviceLimit, Is, TypeOK, Requests
<1>2. Seen(s) = row /\ \A g : Written(s, g) = g  BY <1>1, SeenIsRow DEF SlotsInv
<1>3. \A d \in Live(f) : d \in Hwids /\ f[d] > 0 /\ now - f[d] <= TTL  BY DEF Live
<1>4. CASE row' = [row EXCEPT !.limit = n]
    <2>1. row'.hwids = f  BY <1>1, <1>4 DEF Rows
    <2> QED  BY <1>3, <2>1 DEF Keeps
<1>5. ASSUME NEW places \in MostRecent(f, all, n),
             row' = [row EXCEPT !.limit = n, !.hwids = Left(f, places)]
      PROVE  Keeps
    <2>1. row'.limit = n /\ row'.hwids = Left(f, places)  BY <1>1, <1>5 DEF Rows
    <2>2. /\ places \subseteq all /\ Cardinality(places) = n
          /\ \A in \in places, out \in all \ places : f[in] >= f[out]
        BY DEF MostRecent
    <2> SUFFICES ASSUME NEW h \in Live(f), ~(row'.hwids[h] > 0)
                 PROVE  Cardinality(Live(f)) > n
        BY <2>1 DEF Keeps
    <2>3. h \in all /\ h \notin places
        BY <1>1, <1>3, <2>1 DEF Left
    <2>4. places \cup {h} \subseteq Live(f)
        <3> SUFFICES ASSUME NEW d \in places PROVE d \in Live(f)  OBVIOUS
        <3>1. d \in Hwids /\ f[d] > 0 /\ f[d] >= f[h]  BY <2>2, <2>3
        <3> QED  BY <1>1, <1>3, <3>1, SlotConstants DEF Live
    <2>5. IsFiniteSet(places)  BY <2>4, LiveFinite
    <2>6. Cardinality(places \cup {h}) = n + 1  BY <2>2, <2>3, <2>5, FS_AddElement
    <2>7. Cardinality(places \cup {h}) <= Cardinality(Live(f)) /\ Cardinality(Live(f)) \in Nat
        BY <2>4, LiveFinite
    <2> QED  BY <1>1, <2>6, <2>7
<1>6. \/ row' = [row EXCEPT !.limit = n]
      \/ \E places \in MostRecent(f, all, n) :
            row' = [row EXCEPT !.limit = n, !.hwids = Left(f, places)]
    BY <1>2 DEF SetDeviceLimit
<1> QED  BY <1>4, <1>5, <1>6

LEMMA StepKeeps == ASSUME SlotsInv, Next PROVE Keeps
<1>1. row' = row => Keeps  BY DEF Keeps, Live
<1>2. since' = {} => Keeps  BY DEF Keeps
<1>3. CASE Tick  BY <1>1, <1>3 DEF Tick
<1>4. ASSUME NEW s \in Sessions,
             \/ \E h \in Hwids : FeedReads(s, h)
             \/ \E n \in Limits : LimitReads(s, n)
             \/ ResetReads(s) \/ TokenReads(s)
      PROVE  Keeps
    BY <1>1, <1>4 DEF FeedReads, LimitReads, ResetReads, TokenReads, Opens
<1>5. ASSUME NEW s \in Sessions, ResetHwids(s) \/ ResetToken(s) PROVE Keeps
    BY <1>2, <1>5 DEF ResetHwids, ResetToken, Forgotten
<1> QED  BY <1>3, <1>4, <1>5, FeedKeeps, LimitKeeps DEF Next

\* register_hwid_atomic refuses a device without a place, so that no device
\* in use is pushed out but by a reset or by a limit they exceed.
THEOREM SeatsAreKept == ASSUME OneByOne PROVE Spec => SeatKept
<1>1. SlotsInv /\ [Next]_vars =>
          [\A h \in Live(row.hwids) :
              row'.hwids[h] > 0 \/ since' = {} \/ Cardinality(Live(row.hwids)) > row'.limit]_vars
    BY StepKeeps DEF Keeps
<1> QED  BY <1>1, SlotsInvariant, PTL DEF Spec, SeatKept

-----------------------------------------------------------------------------
\* The credentials, on the row, on the nodes and in the calls under way.
SubscriptionRow == [uuid : Sync!Uuids, ver : 1..MaxVersion, active : BOOLEAN, hwids : BOOLEAN,
            pending : SUBSET Sync!Uuids, synced : 0..MaxVersion]
TaskType ==
    [kind : {"sync", "revoke", "boot"}, by : {"commit", "worker", "boot", "sync"},
     stage : {"queued", "calling"}, uuid : 0..MaxUuid, ver : 0..MaxVersion,
     want : BOOLEAN, off : BOOLEAN, todo : SUBSET Nodes, fine : BOOLEAN, bump : BOOLEAN,
     again : BOOLEAN, rest : SUBSET (Sync!Uuids \cup Nodes), popped : SUBSET Sync!Uuids,
     was : 0..MaxVersion]
NodeType == [Nodes -> [gen : Nat, client : [Sync!Uuids -> [ver : 0..MaxVersion, on : BOOLEAN]]]]

Used == {u \in Sync!Uuids : u < fresh}
RowOwn(r) ==
    r \in SubscriptionRow /\ r.uuid \in Used /\ r.pending \subseteq Used /\ r.uuid \notin r.pending
TaskFits(t) ==
    /\ t \in TaskType
    /\ t.stage = "calling" \/ t.kind = "revoke" => t.uuid \in Used
    /\ t.kind = "sync" => t.rest \subseteq Used
    /\ t.again => t.ver # 0

Shapes ==
    /\ user \in [period : {"running", "over", "old"}, banned : BOOLEAN]
    /\ fresh \in 2..(MaxUuid + 1)
    /\ node \in NodeType
    /\ lock = Idle \/ lock = "held"
    /\ known \subseteq Used
EditOwn ==
    edit # Idle =>
       /\ edit \in [kind : {"ban", "unban", "renew", "network", "retain"}, copy : SubscriptionRow]
       /\ RowOwn(edit.copy)
OtherOwn ==
    other # Idle =>
       other \in [kind : {"rotate", "hwids", "feed"}, copy : SubscriptionRow, target : BOOLEAN] /\ RowOwn(other.copy)
RowsOwn == RowOwn(vless) /\ EditOwn /\ OtherOwn
UseInv == Shapes /\ RowsOwn /\ \A t \in tasks : TaskFits(t)

LEMMA FlushedIs ==
    ASSUME vless \in SubscriptionRow, NEW copy \in SubscriptionRow, NEW new \in SubscriptionRow
    PROVE  /\ Sync!Flushed(copy, new) \in SubscriptionRow
           /\ Sync!Flushed(copy, new).uuid = (IF new.uuid # copy.uuid THEN new.uuid ELSE vless.uuid)
           /\ Sync!Flushed(copy, new).ver = (IF new.ver # copy.ver THEN new.ver ELSE vless.ver)
           /\ Sync!Flushed(copy, new).pending =
                (IF new.pending # copy.pending THEN new.pending ELSE vless.pending)
           /\ Sync!Flushed(copy, new).synced =
                (IF new.synced # copy.synced THEN new.synced ELSE vless.synced)
BY DEF Sync!Flushed, SubscriptionRow

LEMMA RotatedIs ==
    ASSUME Sync!SyncConstants, NEW r \in SubscriptionRow, fresh \in Sync!Uuids, r.ver < MaxVersion
    PROVE  /\ Sync!Rotated(r) \in SubscriptionRow
           /\ Sync!Rotated(r).uuid = fresh /\ Sync!Rotated(r).ver = r.ver + 1
           /\ Sync!Rotated(r).pending = r.pending \cup {r.uuid}
           /\ Sync!Rotated(r).synced = r.synced
<1>1. r.ver + 1 \in 1..MaxVersion
  BY DEF SubscriptionRow, Sync!SyncConstants
<1>2. r.pending \cup {r.uuid} \in SUBSET Sync!Uuids
  BY DEF SubscriptionRow
<1> DEFINE a == [r EXCEPT !.uuid = fresh]
           b == [a EXCEPT !.ver = a.ver + 1]
           c == [b EXCEPT !.hwids = FALSE]
<1>3. Sync!Rotated(r) = [c EXCEPT !.pending = c.pending \cup {r.uuid}]
  BY DEF Sync!Rotated
<1>4. /\ a \in SubscriptionRow /\ a.uuid = fresh /\ a.ver = r.ver /\ a.pending = r.pending
      /\ a.synced = r.synced
  BY DEF SubscriptionRow
<1> HIDE DEF a
<1>5. /\ b \in SubscriptionRow /\ b.uuid = fresh /\ b.ver = r.ver + 1 /\ b.pending = r.pending
      /\ b.synced = r.synced
  BY <1>1, <1>4 DEF SubscriptionRow
<1> HIDE DEF b
<1>6. /\ c \in SubscriptionRow /\ c.uuid = fresh /\ c.ver = r.ver + 1 /\ c.pending = r.pending
      /\ c.synced = r.synced
  BY <1>5 DEF SubscriptionRow
<1> HIDE DEF c
<1> QED BY <1>2, <1>3, <1>6 DEF SubscriptionRow

LEMMA SyncedIs ==
    ASSUME Sync!SyncConstants, NEW r \in SubscriptionRow, r.ver < MaxVersion, NEW b \in BOOLEAN
    PROVE  /\ Sync!Synced(r, b) \in SubscriptionRow
           /\ Sync!Synced(r, b).uuid = r.uuid /\ Sync!Synced(r, b).ver \in {r.ver, r.ver + 1}
           /\ Sync!Synced(r, b).pending = r.pending
           /\ Sync!Synced(r, b).synced = r.synced
<1>1. r.ver + 1 \in 1..MaxVersion
  BY DEF SubscriptionRow, Sync!SyncConstants
<1>2. CASE r.active # b
  <2>1. Sync!Synced(r, b) = [r EXCEPT !.active = b, !.ver = @ + 1]
    BY <1>2 DEF Sync!Synced
  <2>2. Sync!Synced(r, b) = [uuid |-> r.uuid, ver |-> r.ver + 1, active |-> b, hwids |-> r.hwids,
                        pending |-> r.pending, synced |-> r.synced]
    BY <2>1 DEF SubscriptionRow
  <2> QED BY <1>1, <2>2 DEF SubscriptionRow
<1>3. CASE r.active = b
  BY <1>3 DEF Sync!Synced
<1> QED BY <1>2, <1>3

\* A queued task.
Calm(s) == ~s.want /\ ~s.again /\ s.stage = "queued"
LEMMA SyncTaskIs ==
    ASSUME Sync!SyncConstants, NEW b \in BOOLEAN
    PROVE  /\ Sync!SyncTask(b) \in TaskType /\ Calm(Sync!SyncTask(b))
           /\ Sync!SyncTask(b).kind = "sync" /\ Sync!SyncTask(b).rest = {} /\ Sync!SyncTask(b).ver = 0
           /\ TaskFits(Sync!SyncTask(b))
<1>1. 0 \in 0..MaxUuid /\ 0 \in 0..MaxVersion
  BY DEF Sync!SyncConstants
<1> DEFINE s == Sync!Task("sync", "commit")
<1>2. /\ s \in TaskType /\ s.kind = "sync" /\ s.rest = {} /\ s.ver = 0 /\ s.stage = "queued"
      /\ ~s.want /\ ~s.again
  BY <1>1 DEF Sync!Task, TaskType
<1>3. Sync!SyncTask(b) = [s EXCEPT !.off = b]
  BY DEF Sync!SyncTask
<1> HIDE DEF s
<1> QED BY <1>2, <1>3 DEF Calm, TaskFits, TaskType
LEMMA RevokeTaskIs ==
    ASSUME Sync!SyncConstants, NEW u \in Used \cap Sync!Uuids, NEW v \in 0..MaxVersion
    PROVE  /\ Sync!RevokeTask(u, v) \in TaskType /\ Calm(Sync!RevokeTask(u, v))
           /\ Sync!RevokeTask(u, v).kind = "revoke" /\ Sync!RevokeTask(u, v).uuid = u
           /\ Sync!RevokeTask(u, v).ver = v
           /\ TaskFits(Sync!RevokeTask(u, v))
<1>1. u \in 0..MaxUuid /\ 0 \in 0..MaxUuid /\ 0 \in 0..MaxVersion
  BY DEF Sync!SyncConstants, Sync!Uuids
<1> DEFINE s == Sync!Task("revoke", "commit")
<1>2. /\ s \in TaskType /\ s.kind = "revoke" /\ s.stage = "queued" /\ ~s.want /\ ~s.again
  BY <1>1 DEF Sync!Task, TaskType
<1>3. Sync!RevokeTask(u, v) = [s EXCEPT !.uuid = u, !.ver = v]
  BY DEF Sync!RevokeTask
<1> HIDE DEF s
<1> DEFINE p == [s EXCEPT !.uuid = u]
<1>4. /\ p \in TaskType /\ p.kind = "revoke" /\ p.stage = "queued" /\ ~p.want /\ ~p.again
      /\ p.uuid = u
  BY <1>1, <1>2 DEF TaskType
<1>5. Sync!RevokeTask(u, v) = [p EXCEPT !.ver = v]
  BY <1>3
<1> HIDE DEF p
<1> QED BY <1>4, <1>5 DEF Calm, TaskFits, TaskType
LEMMA ByIs ==
    ASSUME NEW s \in TaskType, NEW by \in {"commit", "worker", "boot", "sync"}
    PROVE  /\ [s EXCEPT !.by = by] \in TaskType
           /\ Calm(s) => Calm([s EXCEPT !.by = by])
           /\ TaskFits(s) => TaskFits([s EXCEPT !.by = by])
           /\ [s EXCEPT !.by = by].kind = s.kind /\ [s EXCEPT !.by = by].rest = s.rest
           /\ [s EXCEPT !.by = by].uuid = s.uuid /\ [s EXCEPT !.by = by].ver = s.ver
BY DEF TaskType, Calm, TaskFits

LEMMA Grows ==
    ASSUME UseInv, fresh' \in 2..(MaxUuid + 1), fresh' \in {fresh, fresh + 1}, Sync!SyncConstants
    PROVE  /\ Used \subseteq Used' /\ Used' \subseteq Sync!Uuids
           /\ \A r : RowOwn(r) => RowOwn(r)'
           /\ \A t : TaskFits(t) => TaskFits(t)'
<1>a. fresh \in Nat /\ fresh' \in Nat /\ fresh <= fresh' /\ fresh' <= MaxUuid + 1
      /\ MaxUuid \in Nat
  BY DEF UseInv, Shapes, Sync!SyncConstants
<1>1. Used \subseteq Used' /\ Used' \subseteq Sync!Uuids
  BY <1>a DEF Used, Sync!Uuids
<1>2. \A r : RowOwn(r) => RowOwn(r)'
  BY <1>1 DEF RowOwn
<1>3. \A t : TaskFits(t) => TaskFits(t)'
  BY <1>1 DEF TaskFits
<1> QED BY <1>1, <1>2, <1>3

\* Steps of the row and of the tasks, put together.
LEMMA QueuedFit ==
    ASSUME NEW new, Sync!Queue(new), \A t \in tasks : TaskFits(t), \A t \in new : TaskFits(t)',
           \A t : TaskFits(t) => TaskFits(t)'
    PROVE  \A t \in tasks' : TaskFits(t)'
BY DEF Sync!Queue
LEMMA ReplacedFit ==
    ASSUME NEW new, NEW t, Sync!Replace(t, new), \A s \in tasks : TaskFits(s),
           \A s \in new : TaskFits(s)', UNCHANGED fresh
    PROVE  \A s \in tasks' : TaskFits(s)'
BY DEF Sync!Replace, TaskFits, Used
LEMMA UsedFacts ==
    ASSUME Sync!SyncConstants, UseInv
    PROVE  /\ Used \subseteq Sync!Uuids /\ vless.uuid \in Sync!Uuids /\ vless \in SubscriptionRow
           /\ Sync!Uuids \subseteq 0..MaxUuid
           /\ fresh <= MaxUuid =>
                fresh \in Sync!Uuids /\ fresh \notin Used /\ fresh + 1 \in 2..(MaxUuid + 1)
BY DEF UseInv, Shapes, RowsOwn, EditOwn, OtherOwn, RowOwn, Used, Sync!Uuids, Sync!SyncConstants

LEMMA UseInit == ASSUME Sync!SyncConstants, Sync!Init PROVE UseInv
<1>1. 1 \in Sync!Uuids /\ 1 \in 1..MaxVersion /\ 0 \in 0..MaxVersion /\ fresh \in 2..(MaxUuid + 1)
  BY DEF Sync!SyncConstants, Sync!Init, Sync!Uuids
<1>2. vless \in SubscriptionRow /\ vless.uuid = 1 /\ vless.pending = {}
  BY <1>1 DEF Sync!Init, SubscriptionRow
<1>3. RowsOwn
  BY <1>1, <1>2 DEF Sync!Init, RowsOwn, EditOwn, OtherOwn, RowOwn, Used
<1>4. node \in NodeType
  BY <1>1 DEF Sync!Init, NodeType
<1> QED BY <1>1, <1>3, <1>4 DEF Sync!Init, UseInv, Shapes

LEMMA StartSyncUse ==
    ASSUME Sync!SyncConstants, UseInv, NEW t \in tasks, Sync!StartSync(t) PROVE UseInv'
<1> DEFINE s == [t EXCEPT !.stage = "calling", !.uuid = vless.uuid, !.ver = vless.ver,
                             !.want = vless.active /\ Sync!Access(user) /\ ~t.off,
                             !.todo = Nodes, !.was = vless.synced,
                             !.rest = IF t.by = "commit" THEN vless.pending ELSE {}]
<1>1. Sync!Replace(t, {s}) /\ UNCHANGED <<vless, user, fresh, node, lock, edit, other, known>>
  BY DEF Sync!StartSync
<1>2. TaskFits(s)
  <2>1. t \in TaskType /\ vless \in SubscriptionRow /\ vless.uuid \in Used /\ vless.pending \subseteq Used
    BY DEF UseInv, TaskFits, RowsOwn, RowOwn
  <2>2. vless.uuid \in 0..MaxUuid /\ vless.ver \in 0..MaxVersion /\ vless.synced \in 0..MaxVersion
        /\ vless.pending \subseteq Sync!Uuids /\ vless.ver # 0
    BY <2>1 DEF SubscriptionRow, Sync!Uuids
  <2>3. (vless.active /\ Sync!Access(user) /\ ~t.off) \in BOOLEAN
    OBVIOUS
  <2> DEFINE r == IF t.by = "commit" THEN vless.pending ELSE {}
             w == vless.active /\ Sync!Access(user) /\ ~t.off
             a == [t EXCEPT !.stage = "calling"]
             b == [a EXCEPT !.uuid = vless.uuid]
             c == [b EXCEPT !.ver = vless.ver]
             d == [c EXCEPT !.want = w]
             e == [d EXCEPT !.todo = Nodes]
             f == [e EXCEPT !.was = vless.synced]
  <2>4. s = [f EXCEPT !.rest = r]
    OBVIOUS
  <2>5. r \subseteq Used /\ r \subseteq Sync!Uuids \cup Nodes
    BY <2>1, <2>2
  <2> HIDE DEF r
  <2>6. w \in BOOLEAN
    OBVIOUS
  <2> HIDE DEF w
  <2>7. a \in TaskType
    BY <2>1 DEF TaskType
  <2> HIDE DEF a
  <2>8. b \in TaskType /\ b.uuid = vless.uuid
    BY <2>2, <2>7 DEF TaskType
  <2> HIDE DEF b
  <2>9. c \in TaskType /\ c.uuid = vless.uuid /\ c.ver = vless.ver
    BY <2>2, <2>8 DEF TaskType
  <2> HIDE DEF c
  <2>10. d \in TaskType /\ d.uuid = vless.uuid /\ d.ver = vless.ver
    BY <2>6, <2>9 DEF TaskType
  <2> HIDE DEF d
  <2>11. e \in TaskType /\ e.uuid = vless.uuid /\ e.ver = vless.ver
    BY <2>10 DEF TaskType
  <2> HIDE DEF e
  <2>12. f \in TaskType /\ f.uuid = vless.uuid /\ f.ver = vless.ver
    BY <2>2, <2>11 DEF TaskType
  <2> HIDE DEF f
  <2> HIDE DEF s
  <2>13. s \in TaskType /\ s.uuid = vless.uuid /\ s.rest = r /\ s.ver = vless.ver
    BY <2>4, <2>5, <2>12 DEF TaskType
  <2> QED BY <2>13, <2>1, <2>2, <2>5 DEF TaskFits
<1> HIDE DEF s
<1>3. \A x \in {s} : TaskFits(x)'
  BY <1>1, <1>2 DEF TaskFits, Used
<1>4. \A x \in tasks' : TaskFits(x)'
  BY <1>1, <1>3, ReplacedFit DEF UseInv
<1> QED BY <1>1, <1>4 DEF UseInv, Shapes, RowsOwn, EditOwn, OtherOwn, RowOwn, Used

LEMMA StartedRevokeIs ==
    ASSUME NEW t \in TaskType
    PROVE  LET s == [t EXCEPT !.stage = "calling", !.todo = Nodes] IN
           /\ s \in TaskType /\ s.kind = t.kind /\ s.uuid = t.uuid /\ s.ver = t.ver
           /\ s.want = t.want /\ s.again = t.again /\ s.rest = t.rest /\ s.fine = t.fine
           /\ s.stage = "calling" /\ s.todo = Nodes
BY DEF TaskType

LEMMA BumpedIs ==
    ASSUME Sync!SyncConstants, NEW t \in TaskType, vless \in SubscriptionRow, vless.ver < MaxVersion
    PROVE  /\ Sync!Bumped(t) \in TaskType /\ Sync!Bumped(t).kind = t.kind /\ Sync!Bumped(t).uuid = vless.uuid
           /\ Sync!Bumped(t).ver = vless.ver + 1 /\ Sync!Bumped(t).want = t.want /\ Sync!Bumped(t).again
           /\ Sync!Bumped(t).rest = t.rest /\ Sync!Bumped(t).stage = t.stage /\ vless.ver + 1 # 0
<1> DEFINE a == [t EXCEPT !.uuid = vless.uuid]
           b == [a EXCEPT !.ver = vless.ver + 1]
           c == [b EXCEPT !.again = TRUE]
           d == [c EXCEPT !.bump = FALSE]
           e == [d EXCEPT !.fine = TRUE]
           f == [e EXCEPT !.todo = Nodes]
<1>0. vless.uuid \in 0..MaxUuid /\ vless.ver + 1 \in 0..MaxVersion /\ vless.ver + 1 # 0
  BY DEF SubscriptionRow, Sync!Uuids, Sync!SyncConstants
<1>1. Sync!Bumped(t) = f
  BY DEF Sync!Bumped
<1>2. /\ a \in TaskType /\ a.kind = t.kind /\ a.uuid = vless.uuid
      /\ a.want = t.want /\ a.rest = t.rest /\ a.stage = t.stage
  BY <1>0 DEF TaskType
<1> HIDE DEF a
<1>3. /\ b \in TaskType /\ b.kind = t.kind /\ b.uuid = vless.uuid /\ b.ver = vless.ver + 1
      /\ b.want = t.want /\ b.rest = t.rest /\ b.stage = t.stage
  BY <1>0, <1>2 DEF TaskType
<1> HIDE DEF b
<1>4. /\ c \in TaskType /\ c.kind = t.kind /\ c.uuid = vless.uuid /\ c.ver = vless.ver + 1
      /\ c.want = t.want /\ c.rest = t.rest /\ c.stage = t.stage /\ c.again
  BY <1>3 DEF TaskType
<1> HIDE DEF c
<1>5. /\ d \in TaskType /\ d.kind = t.kind /\ d.uuid = vless.uuid /\ d.ver = vless.ver + 1
      /\ d.want = t.want /\ d.rest = t.rest /\ d.stage = t.stage /\ d.again
  BY <1>4 DEF TaskType
<1> HIDE DEF d
<1>6. /\ e \in TaskType /\ e.kind = t.kind /\ e.uuid = vless.uuid /\ e.ver = vless.ver + 1
      /\ e.want = t.want /\ e.rest = t.rest /\ e.stage = t.stage /\ e.again
  BY <1>5 DEF TaskType
<1> HIDE DEF e
<1>7. /\ f \in TaskType /\ f.kind = t.kind /\ f.uuid = vless.uuid /\ f.ver = vless.ver + 1
      /\ f.want = t.want /\ f.rest = t.rest /\ f.stage = t.stage /\ f.again
  BY <1>6 DEF TaskType
<1> HIDE DEF f
<1> QED BY <1>0, <1>1, <1>7

\* The node after a call.
LEMMA NodeIs ==
    ASSUME node \in NodeType, NEW n \in Nodes, NEW u \in Sync!Uuids, NEW v \in 0..MaxVersion,
           NEW b \in BOOLEAN,
           node' = node \/ node' = [node EXCEPT ![n].client[u] = Sync!NodeAfter(n, u, v, b)]
    PROVE  /\ node' \in NodeType
           /\ \A m \in Nodes, w \in Sync!Uuids :
                 \/ node'[m].client[w] = node[m].client[w]
                 \/ m = n /\ w = u /\ node'[m].client[w] = Sync!NodeAfter(n, u, v, b)
           /\ node' = [node EXCEPT ![n].client[u] = Sync!NodeAfter(n, u, v, b)] =>
                node'[n].client[u] = Sync!NodeAfter(n, u, v, b)
<1>1. Sync!NodeAfter(n, u, v, b) \in [ver : 0..MaxVersion, on : BOOLEAN]
  BY DEF Sync!NodeAfter, NodeType
<1> DEFINE a == Sync!NodeAfter(n, u, v, b)
<1>2. node[n].client \in [Sync!Uuids -> [ver : 0..MaxVersion, on : BOOLEAN]] /\ node[n].gen \in Nat
  BY DEF NodeType
<1> HIDE DEF a
<1> DEFINE p == [node[n] EXCEPT !.client = [@ EXCEPT ![u] = a]]
<1>3. [node EXCEPT ![n].client[u] = a] = [node EXCEPT ![n] = p]
  BY DEF NodeType
<1>4. p.client = [node[n].client EXCEPT ![u] = a] /\ p \in [gen : Nat, client : [Sync!Uuids -> [ver : 0..MaxVersion, on : BOOLEAN]]]
  BY <1>1, <1>2 DEF NodeType, a
<1> HIDE DEF p
<1>5. CASE node' = [node EXCEPT ![n].client[u] = a]
  <2>1. node' \in NodeType /\ node'[n] = p /\ \A m \in Nodes : m # n => node'[m] = node[m]
    BY <1>3, <1>4, <1>5 DEF NodeType
  <2>2. node'[n].client[u] = a /\ \A w \in Sync!Uuids : w # u => node'[n].client[w] = node[n].client[w]
    BY <1>2, <1>4, <2>1
  <2> QED BY <2>1, <2>2 DEF a
<1>6. CASE node' = node /\ node' # [node EXCEPT ![n].client[u] = a]
  BY <1>6 DEF a
<1> QED BY <1>5, <1>6 DEF a

LEMMA StartRevokeUse ==
    ASSUME Sync!SyncConstants, UseInv, NEW t \in tasks, Sync!StartRevoke(t) PROVE UseInv'
<1> DEFINE s == [t EXCEPT !.stage = "calling", !.todo = Nodes]
<1>1. Sync!Replace(t, {s}) /\ UNCHANGED <<vless, user, fresh, node, lock, edit, other, known>>
      /\ t.kind = "revoke" /\ TaskFits(t)
  BY DEF Sync!StartRevoke, UseInv
<1>2. /\ s \in TaskType /\ s.kind = t.kind /\ s.uuid = t.uuid /\ s.rest = t.rest
      /\ s.again = t.again /\ s.ver = t.ver
  BY <1>1, StartedRevokeIs DEF TaskFits
<1> HIDE DEF s
<1>3. \A x \in {s} : TaskFits(x)'
  BY <1>1, <1>2 DEF TaskFits, Used
<1>4. \A x \in tasks' : TaskFits(x)'
  BY <1>1, <1>3, ReplacedFit DEF UseInv
<1> QED BY <1>1, <1>4 DEF UseInv, Shapes, RowsOwn, EditOwn, OtherOwn, RowOwn, Used

\* What a call does to the task and to the node.
LEMMA CallIs ==
    ASSUME Sync!SyncConstants, UseInv, NEW t \in tasks, NEW n \in Nodes, Sync!CallNode(t, n)
    PROVE  \E s \in TaskType :
           /\ Sync!Replace(t, {s}) /\ s.kind = t.kind /\ s.uuid = t.uuid /\ s.ver = t.ver
           /\ s.want = t.want /\ s.again = t.again /\ s.rest = t.rest
           /\ s.stage = "calling" /\ s.todo = t.todo \ {n} /\ t.stage = "calling"
           /\ t.uuid \in Used
           /\ node' \in NodeType
           /\ \A m \in Nodes, w \in Sync!Uuids :
                 \/ node'[m].client[w] = node[m].client[w]
                 \/ m = n /\ w = t.uuid /\ node'[m].client[w] = Sync!NodeAfter(n, t.uuid, t.ver, t.want)
           /\ s.fine => /\ t.fine
                        /\ node'[n].client[t.uuid] = Sync!NodeAfter(n, t.uuid, t.ver, t.want)
                        /\ Sync!NodeAfter(n, t.uuid, t.ver, t.want).on = t.want
<1>1. t \in TaskType /\ t.stage = "calling" /\ t.uuid \in Used /\ t.uuid \in Sync!Uuids
      /\ t.ver \in 0..MaxVersion /\ t.want \in BOOLEAN /\ node \in NodeType
      /\ t.fine \in BOOLEAN /\ t.bump \in BOOLEAN
  BY UsedFacts DEF Sync!CallNode, UseInv, Shapes, TaskFits, TaskType
<1>2. PICK lost \in {"nothing", "request", "answer"} :
         LET after == Sync!NodeAfter(n, t.uuid, t.ver, t.want)
             mismatch == lost = "nothing" /\ after.on # t.want
         IN  /\ node' = IF lost = "request" THEN node ELSE [node EXCEPT ![n].client[t.uuid] = after]
             /\ Sync!Replace(t, {[t EXCEPT !.todo = @ \ {n},
                                      !.fine = @ /\ lost = "nothing" /\ ~mismatch,
                                      !.bump = @ \/ (mismatch /\ t.kind = "sync")]})
  BY DEF Sync!CallNode
<1> DEFINE after == Sync!NodeAfter(n, t.uuid, t.ver, t.want)
           mismatch == lost = "nothing" /\ after.on # t.want
           f == t.fine /\ lost = "nothing" /\ ~mismatch
           g == t.bump \/ (mismatch /\ t.kind = "sync")
           s == [t EXCEPT !.todo = @ \ {n}, !.fine = f, !.bump = g]
<1>3. Sync!Replace(t, {s}) /\ node' = IF lost = "request" THEN node ELSE [node EXCEPT ![n].client[t.uuid] = after]
  BY <1>2
<1>4. f \in BOOLEAN /\ g \in BOOLEAN
  BY <1>1
<1>5. f => t.fine /\ lost = "nothing" /\ after.on = t.want
  OBVIOUS
<1> HIDE DEF f, g
<1>6. /\ s \in TaskType /\ s.kind = t.kind /\ s.uuid = t.uuid /\ s.ver = t.ver
      /\ s.want = t.want /\ s.again = t.again /\ s.rest = t.rest /\ s.fine = f
      /\ s.stage = t.stage /\ s.todo = t.todo \ {n}
  <2> DEFINE a == [t EXCEPT !.todo = t.todo \ {n}]
             b == [a EXCEPT !.fine = f]
  <2>1. s = [b EXCEPT !.bump = g]
    OBVIOUS
  <2> HIDE DEF s
  <2>2. /\ a \in TaskType /\ a.kind = t.kind /\ a.uuid = t.uuid /\ a.ver = t.ver
        /\ a.want = t.want /\ a.again = t.again /\ a.rest = t.rest
        /\ a.stage = t.stage /\ a.todo = t.todo \ {n}
    BY <1>1 DEF TaskType
  <2> HIDE DEF a
  <2>3. /\ b \in TaskType /\ b.kind = t.kind /\ b.uuid = t.uuid /\ b.ver = t.ver
        /\ b.want = t.want /\ b.again = t.again /\ b.rest = t.rest /\ b.fine = f
        /\ b.stage = t.stage /\ b.todo = t.todo \ {n}
    BY <1>4, <2>2 DEF TaskType
  <2> HIDE DEF b
  <2> QED BY <1>4, <2>1, <2>3 DEF TaskType
<1> HIDE DEF s
<1>7. /\ node' \in NodeType
      /\ \A m \in Nodes, w \in Sync!Uuids :
            \/ node'[m].client[w] = node[m].client[w]
            \/ m = n /\ w = t.uuid /\ node'[m].client[w] = after
      /\ node' = [node EXCEPT ![n].client[t.uuid] = after] => node'[n].client[t.uuid] = after
  <2>1. \/ node' = node
        \/ node' = [node EXCEPT ![n].client[t.uuid] = Sync!NodeAfter(n, t.uuid, t.ver, t.want)]
    BY <1>3
  <2> QED BY <1>1, <2>1, NodeIs
<1>8. f => node'[n].client[t.uuid] = after /\ after.on = t.want
  BY <1>3, <1>5, <1>7
<1> QED BY <1>1, <1>3, <1>5, <1>6, <1>7, <1>8

LEMMA CallNodeUse ==
    ASSUME Sync!SyncConstants, UseInv, NEW t \in tasks, NEW n \in Nodes, Sync!CallNode(t, n) PROVE UseInv'
<1>1. PICK s \in TaskType : /\ Sync!Replace(t, {s}) /\ s.kind = t.kind /\ s.uuid = t.uuid
                            /\ s.again = t.again /\ s.ver = t.ver
                            /\ s.rest = t.rest /\ t.uuid \in Used /\ node' \in NodeType
  BY CallIs
<1>2. UNCHANGED <<vless, user, fresh, lock, edit, other, known>> /\ TaskFits(t)
  BY DEF Sync!CallNode, UseInv
<1>3. \A x \in {s} : TaskFits(x)'
  BY <1>1, <1>2 DEF TaskFits, Used
<1>4. \A x \in tasks' : TaskFits(x)'
  BY <1>1, <1>2, <1>3, ReplacedFit DEF UseInv
<1> QED BY <1>1, <1>2, <1>4 DEF UseInv, Shapes, RowsOwn, EditOwn, OtherOwn, RowOwn, Used

LEMMA RetrySyncUse ==
    ASSUME Sync!SyncConstants, UseInv, NEW t \in tasks, Sync!RetrySync(t) PROVE UseInv'
<1>1. Sync!Replace(t, {Sync!Bumped(t)}) /\ UNCHANGED <<vless, user, fresh, node, edit, other, known>>
      /\ vless.ver < MaxVersion /\ TaskFits(t) /\ RowOwn(vless) /\ lock' = "held"
  BY DEF Sync!RetrySync, UseInv, RowsOwn
<1>2. /\ Sync!Bumped(t) \in TaskType /\ Sync!Bumped(t).kind = t.kind /\ Sync!Bumped(t).uuid = vless.uuid
      /\ Sync!Bumped(t).rest = t.rest /\ Sync!Bumped(t).ver # 0
  BY <1>1, BumpedIs DEF TaskFits, RowOwn
<1>3. \A x \in {Sync!Bumped(t)} : TaskFits(x)'
  BY <1>1, <1>2 DEF TaskFits, Used, RowOwn
<1>4. \A x \in tasks' : TaskFits(x)'
  BY <1>1, <1>3, ReplacedFit DEF UseInv
<1> QED BY <1>1, <1>4 DEF UseInv, Shapes, RowsOwn, EditOwn, OtherOwn, RowOwn, Used

LEMMA RecordedIs ==
    ASSUME Sync!SyncConstants, vless \in SubscriptionRow, NEW t \in TaskType, t.again => t.ver # 0,
           t.fine /\ t.ver # t.was => t.ver \in 0..MaxVersion
    PROVE  /\ Sync!Recorded(t) \in SubscriptionRow /\ Sync!Recorded(t).uuid = vless.uuid
           /\ Sync!Recorded(t).pending = vless.pending
           /\ Sync!Recorded(t).ver = (IF t.again THEN t.ver ELSE vless.ver)
           /\ Sync!Recorded(t).synced = (IF t.fine /\ t.ver # t.was THEN t.ver ELSE vless.synced)
<1> DEFINE v == IF t.again THEN t.ver ELSE vless.ver
           y == IF t.fine /\ t.ver # t.was THEN t.ver ELSE vless.synced
           a == [vless EXCEPT !.ver = v]
<1>1. v \in 1..MaxVersion /\ y \in 0..MaxVersion
  BY DEF SubscriptionRow, TaskType, Sync!SyncConstants
<1>2. Sync!Recorded(t) = [a EXCEPT !.synced = y]
  BY DEF Sync!Recorded, SubscriptionRow
<1> HIDE DEF v, y
<1>3. a \in SubscriptionRow /\ a.uuid = vless.uuid /\ a.pending = vless.pending /\ a.ver = v
  BY <1>1 DEF SubscriptionRow
<1> HIDE DEF a
<1>4. /\ Sync!Recorded(t) \in SubscriptionRow /\ Sync!Recorded(t).uuid = vless.uuid
      /\ Sync!Recorded(t).pending = vless.pending /\ Sync!Recorded(t).ver = v /\ Sync!Recorded(t).synced = y
  BY <1>1, <1>2, <1>3 DEF SubscriptionRow
<1> QED BY <1>4 DEF v, y

LEMMA FinishSyncUse ==
    ASSUME Sync!SyncConstants, UseInv, NEW t \in tasks, Sync!FinishSync(t) PROVE UseInv'
<1> DEFINE new == {[Sync!RevokeTask(u, t.ver) EXCEPT !.by = "sync"] : u \in t.rest}
<1>1. Sync!Replace(t, new) /\ UNCHANGED <<user, fresh, node, edit, other, known>>
      /\ t.kind = "sync" /\ TaskFits(t) /\ RowOwn(vless) /\ vless' = Sync!Recorded(t)
      /\ lock' \in {Idle, lock}
  BY DEF Sync!FinishSync, UseInv, RowsOwn
<1>2. t \in TaskType /\ t.ver \in 0..MaxVersion
      /\ t.rest \subseteq Used /\ Used \subseteq Sync!Uuids
  BY <1>1, UsedFacts DEF TaskFits, TaskType
<1>3. \A x \in new : TaskFits(x)'
  <2>1. SUFFICES ASSUME NEW u \in t.rest PROVE TaskFits([Sync!RevokeTask(u, t.ver) EXCEPT !.by = "sync"])'
    OBVIOUS
  <2>2. TaskFits([Sync!RevokeTask(u, t.ver) EXCEPT !.by = "sync"])
    BY <1>2, <2>1, RevokeTaskIs, ByIs
  <2> QED BY <1>1, <2>2 DEF TaskFits, Used
<1>4. \A x \in tasks' : TaskFits(x)'
  BY <1>1, <1>3, ReplacedFit DEF UseInv
<1>5. RowOwn(vless)'
  <2>1. Sync!Recorded(t) \in SubscriptionRow /\ Sync!Recorded(t).uuid = vless.uuid
      /\ Sync!Recorded(t).pending = vless.pending
    BY <1>1, <1>2, RecordedIs DEF TaskFits, RowOwn
  <2> QED BY <1>1, <2>1 DEF RowOwn, Used
<1> QED BY <1>1, <1>4, <1>5 DEF UseInv, Shapes, RowsOwn, EditOwn, OtherOwn, RowOwn, Used

LEMMA FinishRevokeUse ==
    ASSUME Sync!SyncConstants, UseInv, NEW t \in tasks, Sync!FinishRevoke(t) PROVE UseInv'
<1>1. Sync!Replace(t, {}) /\ UNCHANGED <<user, fresh, node, lock, edit, other, known>>
      /\ RowOwn(vless) /\ t \in TaskType
      /\ vless' = [vless EXCEPT !.pending = Sync!Popped(t), !.synced = Sync!SyncedByRevoke(t)]
  BY DEF Sync!FinishRevoke, UseInv, RowsOwn, TaskFits
<1>2. Sync!Popped(t) \subseteq vless.pending /\ Sync!SyncedByRevoke(t) \in 0..MaxVersion
  BY <1>1 DEF Sync!Popped, Sync!SyncedByRevoke, RowOwn, SubscriptionRow, TaskType
<1>3. RowOwn(vless)'
  BY <1>1, <1>2 DEF RowOwn, SubscriptionRow, Used
<1>4. \A x \in tasks' : TaskFits(x)'
  BY <1>1, ReplacedFit DEF UseInv
<1> QED BY <1>1, <1>3, <1>4 DEF UseInv, Shapes, RowsOwn, EditOwn, OtherOwn, RowOwn, Used

LEMMA FinishBootUse ==
    ASSUME Sync!SyncConstants, UseInv, NEW t \in tasks, Sync!FinishBoot(t) PROVE UseInv'
<1>1. Sync!Replace(t, {}) /\ UNCHANGED <<vless, user, fresh, node, lock, edit, other, known>>
  BY DEF Sync!FinishBoot
<1>4. \A x \in tasks' : TaskFits(x)'
  BY <1>1, ReplacedFit DEF UseInv
<1> QED BY <1>1, <1>4 DEF UseInv, Shapes, RowsOwn, EditOwn, OtherOwn, RowOwn, Used

LEMMA BootTaskIs ==
    ASSUME Sync!SyncConstants, UseInv, NEW n \in Nodes, NEW todo \in SUBSET Nodes
    PROVE  LET s == [Sync!Task("boot", "boot") EXCEPT !.stage = "calling", !.uuid = vless.uuid,
                        !.ver = vless.ver, !.want = TRUE, !.rest = {n}, !.todo = todo] IN
           /\ s \in TaskType /\ s.kind = "boot" /\ s.uuid = vless.uuid /\ s.ver = vless.ver
           /\ ~s.again /\ TaskFits(s)
<1>0. vless.uuid \in 0..MaxUuid /\ vless.ver \in 0..MaxVersion /\ vless.uuid \in Used
  BY UsedFacts DEF SubscriptionRow, Sync!SyncConstants, UseInv, RowsOwn, RowOwn, Sync!Uuids
<1> DEFINE z == Sync!Task("boot", "boot")
           a == [z EXCEPT !.stage = "calling"]
           b == [a EXCEPT !.uuid = vless.uuid]
           c == [b EXCEPT !.ver = vless.ver]
           d == [c EXCEPT !.want = TRUE]
           e == [d EXCEPT !.rest = {n}]
           f == [e EXCEPT !.todo = todo]
<1>1. [Sync!Task("boot", "boot") EXCEPT !.stage = "calling", !.uuid = vless.uuid,
                        !.ver = vless.ver, !.want = TRUE, !.rest = {n}, !.todo = todo] = f
  OBVIOUS
<1>2. 0 \in 0..MaxUuid /\ 0 \in 0..MaxVersion
  BY DEF Sync!SyncConstants
<1>3. z \in TaskType /\ z.kind = "boot" /\ ~z.again
  BY <1>2 DEF Sync!Task, TaskType
<1> HIDE DEF z
<1>4. a \in TaskType /\ a.kind = "boot" /\ ~a.again
  BY <1>3 DEF TaskType
<1> HIDE DEF a
<1>5. b \in TaskType /\ b.kind = "boot" /\ ~b.again /\ b.uuid = vless.uuid
  BY <1>0, <1>4 DEF TaskType
<1> HIDE DEF b
<1>6. c \in TaskType /\ c.kind = "boot" /\ ~c.again /\ c.uuid = vless.uuid /\ c.ver = vless.ver
  BY <1>0, <1>5 DEF TaskType
<1> HIDE DEF c
<1>7. d \in TaskType /\ d.kind = "boot" /\ ~d.again /\ d.uuid = vless.uuid /\ d.ver = vless.ver
  BY <1>6 DEF TaskType
<1> HIDE DEF d
<1>8. e \in TaskType /\ e.kind = "boot" /\ ~e.again /\ e.uuid = vless.uuid /\ e.ver = vless.ver
  BY <1>7 DEF TaskType
<1> HIDE DEF e
<1>9. f \in TaskType /\ f.kind = "boot" /\ ~f.again /\ f.uuid = vless.uuid /\ f.ver = vless.ver
  BY <1>8 DEF TaskType
<1> HIDE DEF f
<1>10. TaskFits(f)
  BY <1>0, <1>9 DEF TaskFits
<1> QED BY <1>1, <1>9, <1>10

LEMMA WorkUse ==
    ASSUME Sync!SyncConstants, UseInv, NEW new, Sync!Queue(new), \A s \in new : TaskFits(s),
           UNCHANGED <<vless, user, fresh, node, lock, edit, other, known>>
    PROVE  UseInv'
<1>1. \A x : TaskFits(x) => TaskFits(x)'
  BY DEF TaskFits, Used
<1>2. \A x \in tasks' : TaskFits(x)'
  BY <1>1, QueuedFit DEF UseInv
<1> QED BY <1>2 DEF UseInv, Shapes, RowsOwn, EditOwn, OtherOwn, RowOwn, Used

LEMMA WorkerUse ==
    ASSUME Sync!SyncConstants, UseInv, Sync!SweepRevocations \/ Sync!SweepOutOfSync
        \/ (\E n \in Nodes : Sync!SyncAllActive(n))
    PROVE  UseInv'
<1>1. CASE Sync!SweepRevocations
  <2>1. PICK u \in vless.pending : Sync!Work({[Sync!RevokeTask(u, vless.ver) EXCEPT !.by = "worker"]})
    BY <1>1 DEF Sync!SweepRevocations
  <2>2. u \in Used \cap Sync!Uuids /\ vless.ver \in 0..MaxVersion
    BY UsedFacts DEF UseInv, RowsOwn, RowOwn, SubscriptionRow, Sync!SyncConstants
  <2>3. TaskFits([Sync!RevokeTask(u, vless.ver) EXCEPT !.by = "worker"])
    BY <2>2, RevokeTaskIs, ByIs
  <2> QED BY <2>1, <2>3, WorkUse DEF Sync!Work
<1>2. CASE Sync!SweepOutOfSync
  <2>1. TaskFits([Sync!SyncTask(FALSE) EXCEPT !.by = "worker"])
    BY SyncTaskIs, ByIs
  <2> QED BY <1>2, <2>1, WorkUse DEF Sync!SweepOutOfSync, Sync!Work
<1>3. CASE \E n \in Nodes : Sync!SyncAllActive(n)
  <2>1. PICK n \in Nodes : Sync!SyncAllActive(n)
    BY <1>3
  <2> DEFINE serve == vless.active /\ ~user.banned /\ Sync!Access(user)
             todo == IF serve THEN {n} ELSE {}
             s == [Sync!Task("boot", "boot") EXCEPT !.stage = "calling", !.uuid = vless.uuid,
                        !.ver = vless.ver, !.want = TRUE, !.rest = {n}, !.todo = todo]
  <2>2. Sync!Queue({s}) /\ UNCHANGED <<vless, user, fresh, node, lock, edit, other, known>>
    BY <2>1 DEF Sync!SyncAllActive
  <2>3. todo \in SUBSET Nodes
    OBVIOUS
  <2> HIDE DEF todo
  <2>4. TaskFits(s)
    BY <2>3, BootTaskIs
  <2> HIDE DEF s
  <2> QED BY <2>2, <2>4, WorkUse
<1> QED BY <1>1, <1>2, <1>3

LEMMA NodeUse ==
    ASSUME Sync!SyncConstants, UseInv, Sync!Crash \/ \E n \in Nodes : Sync!EpochSeen(n) \/ Sync!NodeRestarts(n)
    PROVE  UseInv'
<1>1. CASE Sync!Crash
  BY <1>1 DEF Sync!Crash, UseInv, Shapes, RowsOwn, EditOwn, OtherOwn, RowOwn, Used
<1>2. CASE \E n \in Nodes : Sync!EpochSeen(n)
  BY <1>2 DEF Sync!EpochSeen, UseInv, Shapes, RowsOwn, EditOwn, OtherOwn, RowOwn, Used, TaskFits
<1>3. CASE \E n \in Nodes : Sync!NodeRestarts(n)
  <2>1. PICK n \in Nodes : Sync!NodeRestarts(n)
    BY <1>3
  <2> DEFINE p == [gen |-> node[n].gen + 1,
                   client |-> [u \in Sync!Uuids |-> [node[n].client[u] EXCEPT !.on = FALSE]]]
  <2>2. node' = [node EXCEPT ![n] = p]
    BY <2>1 DEF Sync!NodeRestarts
  <2>3. node[n] \in [gen : Nat, client : [Sync!Uuids -> [ver : 0..MaxVersion, on : BOOLEAN]]]
    BY DEF UseInv, Shapes, NodeType
  <2>a. node[n].gen + 1 \in Nat
    BY <2>3
  <2>b. ASSUME NEW u \in Sync!Uuids
        PROVE  [node[n].client[u] EXCEPT !.on = FALSE] \in [ver : 0..MaxVersion, on : BOOLEAN]
    BY <2>3
  <2>4. p \in [gen : Nat, client : [Sync!Uuids -> [ver : 0..MaxVersion, on : BOOLEAN]]]
    BY <2>a, <2>b
  <2> HIDE DEF p
  <2>5. node' \in NodeType
    BY <2>2, <2>4 DEF UseInv, Shapes, NodeType
  <2> QED BY <2>1, <2>5 DEF Sync!NodeRestarts, UseInv, Shapes, RowsOwn, EditOwn, OtherOwn,
  RowOwn, Used, TaskFits
<1> QED BY <1>1, <1>2, <1>3

\* A step that changes the row and the sessions: what is left to show.
LEMMA SessionUse ==
    ASSUME Sync!SyncConstants, UseInv, fresh' \in 2..(MaxUuid + 1), fresh' \in {fresh, fresh + 1},
           RowOwn(vless)', UNCHANGED <<node, lock>>,
           user' \in [period : {"running", "over", "old"}, banned : BOOLEAN],
           known' \subseteq Used',
           edit' \in {edit, Idle} \/ (edit' \in [kind : {"ban", "unban", "renew", "network", "retain"},
               copy : SubscriptionRow] /\ edit'.copy = vless),
           other' \in {other, Idle} \/
               (other' \in [kind : {"rotate", "hwids", "feed"}, copy : SubscriptionRow, target : BOOLEAN]
                   /\ other'.copy = vless),
           \/ UNCHANGED tasks
           \/ \E new : Sync!Queue(new) /\ \A s \in new : TaskFits(s)'
    PROVE  UseInv'
<1>1. /\ \A r : RowOwn(r) => RowOwn(r)'
      /\ \A t : TaskFits(t) => TaskFits(t)'
  BY Grows
<1>2. \A t \in tasks' : TaskFits(t)'
  <2>1. CASE UNCHANGED tasks
    BY <1>1, <2>1 DEF UseInv
  <2>2. CASE \E new : Sync!Queue(new) /\ \A s \in new : TaskFits(s)'
    BY <1>1, <2>2, QueuedFit DEF UseInv
  <2> QED BY <2>1, <2>2
<1>3. EditOwn'
  <2>1. CASE edit' \in {edit, Idle}
    BY <1>1, <2>1 DEF UseInv, RowsOwn, EditOwn
  <2>2. CASE edit' \in [kind : {"ban", "unban", "renew", "network", "retain"}, copy : SubscriptionRow]
      /\ edit'.copy = vless
    <3>1. RowOwn(vless) /\ RowOwn(edit'.copy)
      BY <2>2 DEF UseInv, RowsOwn
    <3>2. PICK c : c = edit'.copy
      OBVIOUS
    <3>3. RowOwn(c)'
      BY <1>1, <3>1, <3>2
    <3> QED BY <2>2, <3>2, <3>3 DEF EditOwn
  <2> QED BY <2>1, <2>2
<1>4. OtherOwn'
  <2>1. CASE other' \in {other, Idle}
    BY <1>1, <2>1 DEF UseInv, RowsOwn, OtherOwn
  <2>2. CASE other' \in [kind : {"rotate", "hwids", "feed"}, copy : SubscriptionRow, target : BOOLEAN]
      /\ other'.copy = vless
    <3>1. RowOwn(vless) /\ RowOwn(other'.copy)
      BY <2>2 DEF UseInv, RowsOwn
    <3>2. PICK c : c = other'.copy
      OBVIOUS
    <3>3. RowOwn(c)'
      BY <1>1, <3>1, <3>2
    <3> QED BY <2>2, <3>2, <3>3 DEF OtherOwn
  <2> QED BY <2>1, <2>2
<1>5. RowsOwn'
  BY <1>3, <1>4 DEF RowsOwn
<1>6. Shapes'
  BY DEF UseInv, Shapes, NodeType, Sync!Uuids
<1> QED BY <1>2, <1>5, <1>6 DEF UseInv

LEMMA OpensUse ==
    ASSUME Sync!SyncConstants, UseInv,
           \/ Sync!AdminOpens \/ Sync!FeedOpens \/ Sync!NetworkGraceOpens
           \/ Sync!BanOpens \/ Sync!UnbanOpens \/ Sync!RenewOpens \/ Sync!RetentionOpens \/ Sync!TimePasses
    PROVE  UseInv'
<1>1. RowOwn(vless) /\ vless \in SubscriptionRow /\ fresh \in 2..(MaxUuid + 1) /\ known \subseteq Used
      /\ user \in [period : {"running", "over", "old"}, banned : BOOLEAN]
  BY DEF UseInv, RowsOwn, RowOwn, Shapes
<1>2. Sync!Access(user) \in BOOLEAN
  BY DEF Sync!Access
<1>o. UNCHANGED <<vless, fresh>> => RowOwn(vless)'
  BY <1>1 DEF RowOwn, Used
<1>p. UNCHANGED <<fresh, known>> => known' \subseteq Used'
  BY <1>1 DEF Used
<1>3. CASE Sync!AdminOpens
  <2>1. PICK kind \in {"rotate", "hwids"} :
           /\ other' = [kind |-> kind, copy |-> vless, target |-> Sync!Access(user)]
           /\ UNCHANGED <<vless, user, fresh, node, lock, edit, tasks, known>>
    BY <1>3 DEF Sync!AdminOpens
  <2>2. other' \in [kind : {"rotate", "hwids", "feed"}, copy : SubscriptionRow, target : BOOLEAN] /\ other'.copy = vless
    BY <1>1, <1>2, <2>1
  <2>3. /\ fresh' \in 2..(MaxUuid + 1) /\ fresh' \in {fresh, fresh + 1} /\ RowOwn(vless)'
        /\ user' \in [period : {"running", "over", "old"}, banned : BOOLEAN]
        /\ known' \subseteq Used' /\ edit' \in {edit, Idle}
    BY <1>1, <1>o, <1>p, <2>1, <2>2
  <2> QED BY <2>1, <2>2, <2>3, SessionUse
<1>4. CASE Sync!FeedOpens
  <2>1. other' = [kind |-> "feed", copy |-> vless, target |-> FALSE]
        /\ UNCHANGED <<vless, user, fresh, node, lock, edit, tasks, known>>
    BY <1>4 DEF Sync!FeedOpens
  <2>2. other' \in [kind : {"rotate", "hwids", "feed"}, copy : SubscriptionRow, target : BOOLEAN] /\ other'.copy = vless
    BY <1>1, <2>1
  <2>3. /\ fresh' \in 2..(MaxUuid + 1) /\ fresh' \in {fresh, fresh + 1} /\ RowOwn(vless)'
        /\ user' \in [period : {"running", "over", "old"}, banned : BOOLEAN]
        /\ known' \subseteq Used' /\ edit' \in {edit, Idle}
    BY <1>1, <1>o, <1>p, <2>1, <2>2
  <2> QED BY <2>1, <2>2, <2>3, SessionUse
<1>5. ASSUME edit' \in [kind : {"ban", "unban", "renew", "network", "retain"}, copy : SubscriptionRow],
    edit'.copy = vless,
             UNCHANGED <<vless, user, fresh, node, lock, other, tasks, known>>
      PROVE  UseInv'
  <2>3. /\ fresh' \in 2..(MaxUuid + 1) /\ fresh' \in {fresh, fresh + 1} /\ RowOwn(vless)'
        /\ user' \in [period : {"running", "over", "old"}, banned : BOOLEAN]
        /\ known' \subseteq Used' /\ other' \in {other, Idle}
    BY <1>1, <1>o, <1>p, <1>5
  <2> QED BY <1>5, <2>3, SessionUse
<1>6. CASE Sync!NetworkGraceOpens
  BY <1>1, <1>5, <1>6 DEF Sync!NetworkGraceOpens, Sync!UserLocked
<1>7. CASE Sync!BanOpens
  BY <1>1, <1>5, <1>7 DEF Sync!BanOpens, Sync!UserLocked
<1>8. CASE Sync!UnbanOpens
  BY <1>1, <1>5, <1>8 DEF Sync!UnbanOpens, Sync!UserLocked
<1>9. CASE Sync!RenewOpens
  BY <1>1, <1>5, <1>9 DEF Sync!RenewOpens, Sync!UserLocked
<1>10. CASE Sync!RetentionOpens
  BY <1>1, <1>5, <1>10 DEF Sync!RetentionOpens, Sync!UserLocked
<1>11. CASE Sync!TimePasses
  <2>1. user' = [user EXCEPT !.period = IF @ = "running" THEN "over" ELSE "old"]
        /\ UNCHANGED <<vless, fresh, node, lock, edit, other, tasks, known>>
    BY <1>11 DEF Sync!TimePasses
  <2>2. user' \in [period : {"running", "over", "old"}, banned : BOOLEAN]
    BY <1>1, <2>1
  <2>3. /\ fresh' \in 2..(MaxUuid + 1) /\ fresh' \in {fresh, fresh + 1} /\ RowOwn(vless)'
        /\ user' \in [period : {"running", "over", "old"}, banned : BOOLEAN]
        /\ known' \subseteq Used' /\ edit' \in {edit, Idle} /\ other' \in {other, Idle}
    BY <1>1, <1>o, <1>p, <2>1, <2>2
  <2> QED BY <2>1, <2>2, <2>3, SessionUse
<1> QED BY <1>3, <1>4, <1>6, <1>7, <1>8, <1>9, <1>10, <1>11

\* What an operation does, whatever the age of its copy, and what it does with
\* a copy that is not behind the row.
Around ==
    /\ Sync!Free /\ UNCHANGED <<node, lock>>
    /\ user' \in [period : {"running", "over", "old"}, banned : BOOLEAN]
    /\ known' \subseteq known \cup {vless.uuid}
    /\ edit' \in {edit, Idle} /\ other' \in {other, Idle}
KeepsUuid ==
    /\ Around /\ vless' \in SubscriptionRow /\ UNCHANGED fresh
    /\ vless'.uuid = vless.uuid /\ vless'.pending = vless.pending /\ vless'.synced = vless.synced
    /\ UNCHANGED tasks \/ \E b \in BOOLEAN : Sync!Queue({Sync!SyncTask(b)})
Rotates ==
    /\ Around /\ vless' \in SubscriptionRow
    /\ fresh \in Sync!Uuids /\ fresh' = fresh + 1
    /\ vless'.uuid = fresh /\ vless'.pending \subseteq Used /\ vless'.synced = vless.synced
RotatesTo(u, v) ==
    /\ u \in Used /\ v \in 0..MaxVersion
    /\ \E new : new \subseteq {Sync!SyncTask(b) : b \in BOOLEAN} /\ Sync!Queue({Sync!RevokeTask(u, v)} \cup new)
RotatesWell(u, v) ==
    u = vless.uuid /\ vless'.pending = vless.pending \cup {vless.uuid} /\ vless.ver < v /\ v <= vless'.ver

LEMMA ActiveIs ==
    ASSUME NEW r \in SubscriptionRow, NEW b \in BOOLEAN
    PROVE  LET z == [r EXCEPT !.active = b] IN
           /\ z \in SubscriptionRow /\ z.uuid = r.uuid /\ z.ver = r.ver /\ z.pending = r.pending
           /\ z.synced = r.synced
BY DEF SubscriptionRow

LEMMA CopyFacts ==
    ASSUME UseInv
    PROVE  /\ vless \in SubscriptionRow /\ RowOwn(vless) /\ fresh \in Int /\ vless.ver \in 1..MaxVersion
           /\ vless.uuid \in Used /\ vless.pending \subseteq Used
           /\ edit # Idle => /\ edit.copy \in SubscriptionRow /\ RowOwn(edit.copy) /\ edit.copy.ver \in Int
                             /\ edit.copy.uuid \in Used /\ edit.copy.pending \subseteq Used
                             /\ edit.copy.uuid \notin edit.copy.pending
           /\ other # Idle => /\ other.copy \in SubscriptionRow /\ RowOwn(other.copy)
                              /\ other.copy.ver \in Int /\ other.target \in BOOLEAN
           /\ user \in [period : {"running", "over", "old"}, banned : BOOLEAN]
BY DEF UseInv, RowsOwn, EditOwn, OtherOwn, RowOwn, Shapes, SubscriptionRow

LEMMA ResetIs ==
    ASSUME Sync!SyncConstants, UseInv, Sync!VlessSubReset
    PROVE  Rotates /\ \E u, v : RotatesTo(u, v) /\ RotatesWell(u, v)
<1>1. Sync!CanRotate(vless) /\ vless' = Sync!Rotated(vless) /\ vless.ver < MaxVersion /\ fresh <= MaxUuid
      /\ vless \in SubscriptionRow /\ vless.uuid \in Used /\ fresh \in Sync!Uuids /\ vless.pending \subseteq Used
      /\ vless.ver \in 1..MaxVersion
  BY UsedFacts, CopyFacts DEF Sync!VlessSubReset, Sync!CanRotate, Sync!CanGrow
<1>2. /\ vless' \in SubscriptionRow /\ vless'.uuid = fresh /\ vless'.ver = vless.ver + 1
      /\ vless'.pending = vless.pending \cup {vless.uuid} /\ vless'.synced = vless.synced
  BY <1>1, RotatedIs
<1>3. Rotates
  BY <1>1, <1>2, CopyFacts DEF Rotates, Around, Sync!VlessSubReset
<1>4. vless.ver + 1 \in 0..MaxVersion /\ vless.ver < vless.ver + 1 /\ vless.ver + 1 <= vless'.ver
  BY <1>1, <1>2 DEF Sync!SyncConstants
<1>5. RotatesTo(vless.uuid, vless.ver + 1)
  <2>1. Sync!Queue({Sync!RevokeTask(vless.uuid, vless.ver + 1)} \cup {Sync!SyncTask(FALSE)})
    <3>1. {Sync!RevokeTask(vless.uuid, vless.ver + 1), Sync!SyncTask(FALSE)} =
             {Sync!RevokeTask(vless.uuid, vless.ver + 1)} \cup {Sync!SyncTask(FALSE)}
      OBVIOUS
    <3> QED BY <3>1 DEF Sync!VlessSubReset
  <2> QED BY <1>1, <1>4, <2>1 DEF RotatesTo
<1> QED BY <1>2, <1>3, <1>4, <1>5 DEF RotatesWell

LEMMA AdminRotateIs ==
    ASSUME Sync!SyncConstants, UseInv, NEW kind, Sync!AdminCommits(kind), Sync!AdminRotates
    PROVE  Rotates /\ \E u, v : RotatesTo(u, v) /\ RotatesWell(u, v)
<1>1. Sync!CanRotate(vless) /\ vless' = [Sync!Rotated(vless) EXCEPT !.active = other.target]
      /\ vless.ver < MaxVersion /\ fresh <= MaxUuid
      /\ vless \in SubscriptionRow /\ vless.uuid \in Used /\ fresh \in Sync!Uuids /\ vless.pending \subseteq Used
      /\ vless.ver \in 1..MaxVersion /\ other.target \in BOOLEAN
  BY UsedFacts, CopyFacts DEF Sync!AdminCommits, Sync!AdminRotates, Sync!CanRotate, Sync!CanGrow
<1> DEFINE r == Sync!Rotated(vless)
<1>2. /\ r \in SubscriptionRow /\ r.uuid = fresh /\ r.ver = vless.ver + 1
      /\ r.pending = vless.pending \cup {vless.uuid} /\ r.synced = vless.synced
  BY <1>1, RotatedIs
<1> HIDE DEF r
<1>a. /\ vless' \in SubscriptionRow /\ vless'.uuid = fresh /\ vless'.ver = vless.ver + 1
      /\ vless'.pending = vless.pending \cup {vless.uuid} /\ vless'.synced = vless.synced
  BY <1>1, <1>2, ActiveIs DEF r
<1>3. Rotates
  BY <1>1, <1>a, CopyFacts DEF Rotates, Around, Sync!AdminCommits, Sync!AdminRotates
<1>4. vless.ver + 1 \in 0..MaxVersion /\ vless.ver < vless.ver + 1 /\ vless.ver + 1 <= vless'.ver
  BY <1>1, <1>a DEF Sync!SyncConstants
<1>5. RotatesTo(vless.uuid, vless.ver + 1)
  <2>1. PICK b \in BOOLEAN : b = ~other.target
    OBVIOUS
  <2>2. Sync!Queue({Sync!RevokeTask(vless.uuid, vless.ver + 1)} \cup {Sync!SyncTask(b)})
    <3>1. {Sync!RevokeTask(vless.uuid, vless.ver + 1), Sync!SyncTask(b)} =
             {Sync!RevokeTask(vless.uuid, vless.ver + 1)} \cup {Sync!SyncTask(b)}
      OBVIOUS
    <3> QED BY <2>1, <3>1 DEF Sync!AdminRotates
  <2> QED BY <1>1, <1>4, <2>2 DEF RotatesTo
<1> QED BY <1>a, <1>3, <1>4, <1>5 DEF RotatesWell

\* Without devices the reset writes is_active and nothing else.
LEMMA EmptyResetIs ==
    ASSUME Sync!SyncConstants, UseInv, Sync!AdminCommits("hwids"),
           vless' = [vless EXCEPT !.active = other.target], UNCHANGED <<fresh, tasks>>
    PROVE  KeepsUuid /\ vless'.ver = vless.ver
<1>1. vless \in SubscriptionRow /\ other.target \in BOOLEAN
  BY CopyFacts DEF Sync!AdminCommits
<1>2. /\ vless' \in SubscriptionRow /\ vless'.uuid = vless.uuid /\ vless'.ver = vless.ver
      /\ vless'.pending = vless.pending /\ vless'.synced = vless.synced
  BY <1>1, ActiveIs
<1>3. Around
  BY CopyFacts DEF Around, Sync!AdminCommits
<1> QED BY <1>2, <1>3 DEF KeepsUuid

LEMMA BanIs ==
    ASSUME Sync!SyncConstants, UseInv, Sync!BanUser
    PROVE  Rotates /\ \E u, v : RotatesTo(u, v) /\ (Sync!FreshCopy(edit.copy) => RotatesWell(u, v))
<1> DEFINE c == edit.copy
<1>1. Sync!CanRotate(c) /\ vless' = Sync!Flushed(c, [Sync!Rotated(c) EXCEPT !.active = FALSE])
      /\ c.ver < MaxVersion /\ fresh <= MaxUuid
      /\ vless \in SubscriptionRow /\ c.uuid \in Used /\ fresh \in Sync!Uuids /\ vless.pending \subseteq Used
      /\ c \in SubscriptionRow /\ c.pending \subseteq Used /\ fresh \notin Used /\ vless.uuid \in Used
  BY UsedFacts, CopyFacts DEF Sync!BanUser, Sync!Edits, Sync!CanRotate, Sync!CanGrow
<1>v. c.ver \in 1..MaxVersion /\ vless.ver \in 1..MaxVersion
  BY <1>1 DEF SubscriptionRow
<1> DEFINE r == Sync!Rotated(c)
           z == [r EXCEPT !.active = FALSE]
<1>2. /\ r \in SubscriptionRow /\ r.uuid = fresh /\ r.ver = c.ver + 1
      /\ r.pending = c.pending \cup {c.uuid} /\ r.synced = c.synced
  BY <1>1, RotatedIs
<1>z. vless' = Sync!Flushed(c, z)
  BY <1>1
<1> HIDE DEF r
<1>3. /\ z \in SubscriptionRow /\ z.uuid = fresh /\ z.ver = c.ver + 1
      /\ z.pending = c.pending \cup {c.uuid} /\ z.synced = c.synced
  BY <1>2, ActiveIs
<1> HIDE DEF z
<1>4. /\ vless' \in SubscriptionRow
      /\ vless'.uuid = (IF z.uuid # c.uuid THEN z.uuid ELSE vless.uuid)
      /\ vless'.ver = (IF z.ver # c.ver THEN z.ver ELSE vless.ver)
      /\ vless'.pending = (IF z.pending # c.pending THEN z.pending ELSE vless.pending)
      /\ vless'.synced = (IF z.synced # c.synced THEN z.synced ELSE vless.synced)
  <2>1. vless \in SubscriptionRow /\ c \in SubscriptionRow /\ z \in SubscriptionRow
    BY <1>1, <1>3
  <2> HIDE DEF c
  <2> QED BY <2>1, <1>z, FlushedIs
<1>5. vless'.uuid = fresh /\ vless'.ver = c.ver + 1 /\ vless'.synced = vless.synced
  BY <1>1, <1>v, <1>3, <1>4
<1>6. vless'.pending \subseteq Used
  BY <1>1, <1>3, <1>4
<1>7. Sync!FreshCopy(c) => vless'.pending = vless.pending \cup {vless.uuid}
  BY <1>3, <1>4 DEF Sync!FreshCopy
<1>u. user' \in [period : {"running", "over", "old"}, banned : BOOLEAN]
  BY CopyFacts DEF Sync!BanUser
<1>8. Rotates
  BY <1>1, <1>4, <1>5, <1>6, <1>u DEF Rotates, Around, Sync!BanUser, Sync!Edits
<1>9. RotatesTo(c.uuid, c.ver + 1)
  <2>1. Sync!Queue({Sync!RevokeTask(c.uuid, c.ver + 1)} \cup {})
    <3>1. {Sync!RevokeTask(c.uuid, c.ver + 1)} \cup {} = {Sync!RevokeTask(c.uuid, c.ver + 1)}
      OBVIOUS
    <3> QED BY <3>1 DEF Sync!BanUser
  <2>2. c.ver + 1 \in 0..MaxVersion
    BY <1>1, <1>v DEF Sync!SyncConstants
  <2> QED BY <1>1, <2>1, <2>2 DEF RotatesTo
<1>10. Sync!FreshCopy(c) => RotatesWell(c.uuid, c.ver + 1)
  BY <1>v, <1>5, <1>7 DEF RotatesWell, Sync!FreshCopy
<1> QED BY <1>8, <1>9, <1>10

LEMMA RetentionIs ==
    ASSUME Sync!SyncConstants, UseInv, Sync!RetentionGrace
    PROVE  Rotates /\ \E u, v : RotatesTo(u, v) /\ (Sync!FreshCopy(edit.copy) => RotatesWell(u, v))
<1> DEFINE c == edit.copy
           y == Sync!Synced(c, FALSE)
           l == Sync!Flushed(c, y)
           r == Sync!Rotated(l)
<1>1. Sync!CanRotate(l) /\ vless' = [r EXCEPT !.active = FALSE]
      /\ Sync!Queue({Sync!RevokeTask(l.uuid, l.ver + 1), Sync!SyncTask(TRUE)})
  BY DEF Sync!RetentionGrace
<1>2. /\ vless \in SubscriptionRow /\ c.uuid \in Used /\ vless.pending \subseteq Used
      /\ c \in SubscriptionRow /\ c.pending \subseteq Used /\ vless.uuid \in Used
  BY CopyFacts DEF Sync!RetentionGrace, Sync!Edits
<1>3. /\ y \in SubscriptionRow /\ y.uuid = c.uuid /\ y.ver \in {c.ver, c.ver + 1}
      /\ y.pending = c.pending /\ y.synced = c.synced
  <2>1. l.ver < MaxVersion
    BY <1>1 DEF Sync!CanRotate, Sync!CanGrow
  <2>2. CASE c.active
    <3>1. c.ver + 1 \in 1..MaxVersion
      <4>1. c.ver # MaxVersion
        <5> DEFINE a == [c EXCEPT !.active = FALSE]
        <5>1. a \in SubscriptionRow /\ a.ver = c.ver /\ a.uuid = c.uuid
          BY <1>2 DEF SubscriptionRow
        <5>2. y = [a EXCEPT !.ver = a.ver + 1]
          BY <2>2 DEF Sync!Synced
        <5> HIDE DEF a, y
        <5>3. y.ver = c.ver + 1 /\ c.ver \in Int
          BY <1>2, <5>1, <5>2 DEF SubscriptionRow
        <5>4. l.ver = IF y.ver # c.ver THEN y.ver ELSE vless.ver
          BY <1>2 DEF Sync!Flushed, SubscriptionRow
        <5> HIDE DEF l
        <5> QED BY <2>1, <5>3, <5>4 DEF Sync!SyncConstants
      <4> QED BY <1>2, <4>1 DEF SubscriptionRow, Sync!SyncConstants
    <3>2. c.ver < MaxVersion
      BY <1>2, <3>1 DEF SubscriptionRow, Sync!SyncConstants
    <3> QED BY <1>2, <3>2, SyncedIs
  <2>3. CASE ~c.active
    <3>1. c.active = FALSE
      BY <1>2, <2>3 DEF SubscriptionRow
    <3> QED BY <1>2, <3>1 DEF Sync!Synced
  <2> QED BY <2>2, <2>3
<1> HIDE DEF y
<1>4. /\ l \in SubscriptionRow
      /\ l.uuid = vless.uuid /\ l.pending = vless.pending /\ l.synced = vless.synced
      /\ l.ver = (IF y.ver # c.ver THEN y.ver ELSE vless.ver)
  <2>1. /\ l \in SubscriptionRow
        /\ l.uuid = (IF y.uuid # c.uuid THEN y.uuid ELSE vless.uuid)
        /\ l.ver = (IF y.ver # c.ver THEN y.ver ELSE vless.ver)
        /\ l.pending = (IF y.pending # c.pending THEN y.pending ELSE vless.pending)
        /\ l.synced = (IF y.synced # c.synced THEN y.synced ELSE vless.synced)
    BY <1>2, <1>3, FlushedIs
  <2> QED BY <1>3, <2>1
<1> HIDE DEF l
<1>5. l.ver < MaxVersion /\ fresh <= MaxUuid /\ fresh \in Sync!Uuids /\ l.ver \in 1..MaxVersion
  BY <1>1, <1>4, UsedFacts DEF Sync!CanRotate, Sync!CanGrow, SubscriptionRow
<1>6. /\ r \in SubscriptionRow /\ r.uuid = fresh /\ r.ver = l.ver + 1
      /\ r.pending = vless.pending \cup {vless.uuid} /\ r.synced = vless.synced
  BY <1>4, <1>5, RotatedIs
<1> HIDE DEF r
<1>7. /\ vless' \in SubscriptionRow /\ vless'.uuid = fresh /\ vless'.ver = l.ver + 1
      /\ vless'.pending = vless.pending \cup {vless.uuid} /\ vless'.synced = vless.synced
  BY <1>1, <1>6, ActiveIs
<1>8. Rotates
  BY <1>2, <1>5, <1>7, CopyFacts DEF Rotates, Around, Sync!RetentionGrace, Sync!Edits
<1>9. RotatesTo(l.uuid, l.ver + 1)
  <2>1. Sync!Queue({Sync!RevokeTask(l.uuid, l.ver + 1)} \cup {Sync!SyncTask(TRUE)})
    <3>1. {Sync!RevokeTask(l.uuid, l.ver + 1)} \cup {Sync!SyncTask(TRUE)} = {Sync!RevokeTask(l.uuid, l.ver + 1), Sync!SyncTask(TRUE)}
      OBVIOUS
    <3> QED BY <1>1, <3>1
  <2>2. l.ver + 1 \in 0..MaxVersion
    BY <1>5 DEF Sync!SyncConstants
  <2> QED BY <1>2, <1>4, <2>1, <2>2 DEF RotatesTo
<1>10. Sync!FreshCopy(c) => RotatesWell(l.uuid, l.ver + 1)
  <2>1. SUFFICES ASSUME Sync!FreshCopy(c) PROVE RotatesWell(l.uuid, l.ver + 1)
    OBVIOUS
  <2>2. vless.ver \in Int /\ c.ver = vless.ver /\ l.ver \in Int
    BY <1>2, <1>5, <2>1 DEF SubscriptionRow, Sync!FreshCopy
  <2>3. l.ver \in {vless.ver, vless.ver + 1}
    BY <1>3, <1>4, <2>2
  <2>4. vless.ver < l.ver + 1 /\ l.ver + 1 <= vless'.ver
    BY <1>7, <2>2, <2>3
  <2> QED BY <1>4, <1>7, <2>4 DEF RotatesWell
<1> QED BY <1>8, <1>9, <1>10

LEMMA BumpActiveIs ==
    ASSUME Sync!SyncConstants, NEW r \in SubscriptionRow, r.ver < MaxVersion, NEW b \in BOOLEAN
    PROVE  LET z == [r EXCEPT !.active = b, !.ver = @ + 1] IN
           /\ z \in SubscriptionRow /\ z.uuid = r.uuid /\ z.ver = r.ver + 1 /\ z.pending = r.pending
           /\ z.synced = r.synced
<1> DEFINE a == [r EXCEPT !.active = b]
<1>1. /\ a \in SubscriptionRow /\ a.uuid = r.uuid /\ a.ver = r.ver /\ a.pending = r.pending
      /\ a.synced = r.synced
  BY ActiveIs
<1>2. [r EXCEPT !.active = b, !.ver = @ + 1] = [a EXCEPT !.ver = a.ver + 1]
  OBVIOUS
<1> HIDE DEF a
<1>3. a.ver + 1 \in 1..MaxVersion
  BY <1>1 DEF SubscriptionRow, Sync!SyncConstants
<1> QED BY <1>1, <1>2, <1>3 DEF SubscriptionRow

\* The flush of a copy whose uuid and revocations are unchanged.
LEMMA FlushKeeps ==
    ASSUME Sync!SyncConstants, UseInv, NEW c \in SubscriptionRow, NEW z \in SubscriptionRow,
           z.uuid = c.uuid, z.pending = c.pending, z.synced = c.synced,
           z.ver \in {c.ver, c.ver + 1}, vless' = Sync!Flushed(c, z)
    PROVE  /\ vless' \in SubscriptionRow /\ vless'.uuid = vless.uuid /\ vless'.pending = vless.pending
           /\ vless'.synced = vless.synced
           /\ c.ver = vless.ver => vless'.ver >= vless.ver
<1>1. vless \in SubscriptionRow
  BY CopyFacts
<1>2. /\ vless' \in SubscriptionRow
      /\ vless'.uuid = (IF z.uuid # c.uuid THEN z.uuid ELSE vless.uuid)
      /\ vless'.ver = (IF z.ver # c.ver THEN z.ver ELSE vless.ver)
      /\ vless'.pending = (IF z.pending # c.pending THEN z.pending ELSE vless.pending)
      /\ vless'.synced = (IF z.synced # c.synced THEN z.synced ELSE vless.synced)
  BY <1>1, FlushedIs
<1>3. c.ver \in Int /\ vless.ver \in Int
  BY <1>1 DEF SubscriptionRow
<1> QED BY <1>2, <1>3

LEMMA UnbanIs ==
    ASSUME Sync!SyncConstants, UseInv, Sync!UnbanUser
    PROVE  KeepsUuid /\ (Sync!FreshCopy(edit.copy) => vless'.ver >= vless.ver)
<1> DEFINE c == edit.copy
           a == [c EXCEPT !.active = TRUE, !.ver = @ + 1]
           z == [c EXCEPT !.active = TRUE, !.ver = @ + 1, !.pending = @ \ {edit.copy.uuid}]
<1>1. /\ vless \in SubscriptionRow /\ c \in SubscriptionRow /\ c.uuid \notin c.pending /\ c.ver < MaxVersion
      /\ vless.ver \in Int
  BY CopyFacts DEF Sync!UnbanUser, Sync!Edits, Sync!CanGrow, SubscriptionRow
<1>2. user' \in [period : {"running", "over", "old"}, banned : BOOLEAN]
  BY CopyFacts DEF Sync!UnbanUser
<1>3. Around
  BY <1>2 DEF Around, Sync!UnbanUser, Sync!Edits
<1>4. CASE user.period = "running"
  <2>1. vless' = Sync!Flushed(c, z) /\ Sync!Queue({Sync!SyncTask(FALSE)}) /\ UNCHANGED fresh
    BY <1>4 DEF Sync!UnbanUser
  <2>2. a \in SubscriptionRow /\ a.uuid = c.uuid /\ a.ver = c.ver + 1 /\ a.pending = c.pending
        /\ a.synced = c.synced
    BY <1>1, BumpActiveIs
  <2>3. z = [a EXCEPT !.pending = a.pending \ {c.uuid}]
    BY <1>1 DEF SubscriptionRow
  <2> HIDE DEF a, z
  <2>4. z \in SubscriptionRow /\ z.uuid = c.uuid /\ z.ver = c.ver + 1 /\ z.pending = c.pending
        /\ z.synced = c.synced
    BY <1>1, <2>2, <2>3 DEF SubscriptionRow
  <2>5. /\ vless' \in SubscriptionRow /\ vless'.uuid = vless.uuid /\ vless'.pending = vless.pending
        /\ vless'.synced = vless.synced
        /\ c.ver = vless.ver => vless'.ver >= vless.ver
    <3> HIDE DEF c
    <3> QED BY <1>1, <2>1, <2>4, FlushKeeps
  <2> QED BY <1>3, <2>1, <2>5 DEF KeepsUuid, Sync!FreshCopy
<1>5. CASE user.period # "running"
  <2>1. UNCHANGED <<vless, tasks, fresh>>
    BY <1>5 DEF Sync!UnbanUser
  <2> QED BY <1>1, <1>3, <2>1 DEF KeepsUuid
<1> QED BY <1>4, <1>5

LEMMA RenewIs ==
    ASSUME Sync!SyncConstants, UseInv, Sync!Renew
    PROVE  KeepsUuid /\ (Sync!FreshCopy(edit.copy) => vless'.ver >= vless.ver)
<1> DEFINE c == edit.copy
           z == Sync!Synced(c, ~user.banned)
<1>1. /\ c \in SubscriptionRow /\ c.ver < MaxVersion /\ (~user.banned) \in BOOLEAN /\ user.banned \in BOOLEAN
  BY CopyFacts DEF Sync!Renew, Sync!Edits, Sync!CanGrow
<1>2. user' \in [period : {"running", "over", "old"}, banned : BOOLEAN]
  BY CopyFacts DEF Sync!Renew
<1>3. Around
  BY <1>2 DEF Around, Sync!Renew, Sync!Edits
<1>4. vless' = Sync!Flushed(c, z) /\ UNCHANGED fresh
      /\ (UNCHANGED tasks \/ Sync!Queue({Sync!SyncTask(user.banned)}))
  BY DEF Sync!Renew
<1>5. z \in SubscriptionRow /\ z.uuid = c.uuid /\ z.ver \in {c.ver, c.ver + 1} /\ z.pending = c.pending
      /\ z.synced = c.synced
  BY <1>1, SyncedIs
<1> HIDE DEF z
<1>6. /\ vless' \in SubscriptionRow /\ vless'.uuid = vless.uuid /\ vless'.pending = vless.pending
      /\ vless'.synced = vless.synced
      /\ c.ver = vless.ver => vless'.ver >= vless.ver
  <2> HIDE DEF c
  <2> QED BY <1>1, <1>4, <1>5, FlushKeeps
<1> QED BY <1>1, <1>3, <1>4, <1>6 DEF KeepsUuid, Sync!FreshCopy

LEMMA NetworkGraceIs ==
    ASSUME Sync!SyncConstants, UseInv, Sync!NetworkGrace
    PROVE  KeepsUuid /\ (Sync!FreshCopy(edit.copy) => vless'.ver >= vless.ver)
<1> DEFINE c == edit.copy
           z == Sync!Synced(c, FALSE)
<1>1. c \in SubscriptionRow /\ c.ver < MaxVersion
  BY CopyFacts DEF Sync!NetworkGrace, Sync!Edits, Sync!CanGrow
<1>3. Around
  BY CopyFacts DEF Around, Sync!NetworkGrace, Sync!Edits
<1>4. vless' = Sync!Flushed(c, z) /\ UNCHANGED fresh
      /\ (UNCHANGED tasks \/ Sync!Queue({Sync!SyncTask(TRUE)}))
  BY DEF Sync!NetworkGrace
<1>5. z \in SubscriptionRow /\ z.uuid = c.uuid /\ z.ver \in {c.ver, c.ver + 1} /\ z.pending = c.pending
      /\ z.synced = c.synced
  BY <1>1, SyncedIs
<1> HIDE DEF z
<1>6. /\ vless' \in SubscriptionRow /\ vless'.uuid = vless.uuid /\ vless'.pending = vless.pending
      /\ vless'.synced = vless.synced
      /\ c.ver = vless.ver => vless'.ver >= vless.ver
  <2> HIDE DEF c
  <2> QED BY <1>1, <1>4, <1>5, FlushKeeps
<1> QED BY <1>1, <1>3, <1>4, <1>6 DEF KeepsUuid, Sync!FreshCopy

LEMMA FeedDeactivatesIs ==
    ASSUME Sync!SyncConstants, UseInv, Sync!FeedDeactivates
    PROVE  KeepsUuid /\ (Sync!FreshCopy(other.copy) => vless'.ver >= vless.ver)
<1> DEFINE c == other.copy
           z == [c EXCEPT !.active = FALSE, !.ver = @ + 1]
<1>1. c \in SubscriptionRow /\ c.ver < MaxVersion
  BY CopyFacts DEF Sync!FeedDeactivates, Sync!CanGrow
<1>3. Around
  BY CopyFacts DEF Around, Sync!FeedDeactivates
<1>4. vless' = Sync!Flushed(c, z) /\ UNCHANGED fresh /\ Sync!Queue({Sync!SyncTask(FALSE)})
  BY DEF Sync!FeedDeactivates
<1>5. z \in SubscriptionRow /\ z.uuid = c.uuid /\ z.ver = c.ver + 1 /\ z.pending = c.pending
      /\ z.synced = c.synced
  BY <1>1, BumpActiveIs
<1> HIDE DEF z
<1>6. /\ vless' \in SubscriptionRow /\ vless'.uuid = vless.uuid /\ vless'.pending = vless.pending
      /\ vless'.synced = vless.synced
      /\ c.ver = vless.ver => vless'.ver >= vless.ver
  <2> HIDE DEF c
  <2> QED BY <1>1, <1>4, <1>5, FlushKeeps
<1> QED BY <1>1, <1>3, <1>4, <1>6 DEF KeepsUuid, Sync!FreshCopy

LEMMA FeedServesIs ==
    ASSUME Sync!SyncConstants, UseInv, Sync!FeedServes
    PROVE  KeepsUuid /\ vless'.ver >= vless.ver
<1>1. vless \in SubscriptionRow /\ vless.ver \in Int
  BY CopyFacts DEF SubscriptionRow
<1>2. vless' = [vless EXCEPT !.hwids = TRUE] /\ UNCHANGED fresh
      /\ (tasks' = tasks \/ Sync!Queue({Sync!SyncTask(FALSE)}))
  BY DEF Sync!FeedServes
<1>3. vless' \in SubscriptionRow /\ vless'.uuid = vless.uuid /\ vless'.pending = vless.pending
      /\ vless'.synced = vless.synced /\ vless'.ver = vless.ver
  BY <1>1, <1>2 DEF SubscriptionRow
<1>4. Around
  BY CopyFacts DEF Around, Sync!FeedServes
<1>5. UNCHANGED tasks \/ \E b \in BOOLEAN : Sync!Queue({Sync!SyncTask(b)})
  <2>1. PICK b \in BOOLEAN : b = FALSE
    OBVIOUS
  <2>2. UNCHANGED tasks \/ Sync!Queue({Sync!SyncTask(b)})
    BY <1>2, <2>1
  <2> QED BY <2>2
<1> QED BY <1>1, <1>2, <1>3, <1>4, <1>5 DEF KeepsUuid

LEMMA KeepsUse == ASSUME Sync!SyncConstants, UseInv, KeepsUuid PROVE UseInv'
<1>1. /\ vless' \in SubscriptionRow /\ UNCHANGED fresh /\ vless'.uuid = vless.uuid
         /\ vless'.pending = vless.pending
      /\ RowOwn(vless)
  BY CopyFacts DEF KeepsUuid
<1>2. RowOwn(vless)'
  BY <1>1 DEF RowOwn, Used
<1>3. known' \subseteq Used' /\ fresh' \in 2..(MaxUuid + 1)
  BY <1>1 DEF KeepsUuid, Around, UseInv, Shapes, RowOwn, Used
<1>4. UNCHANGED tasks \/ \E new : Sync!Queue(new) /\ \A s \in new : TaskFits(s)'
  <2>1. \A x : TaskFits(x) => TaskFits(x)'
    BY <1>1 DEF TaskFits, Used
  <2>2. ASSUME NEW b \in BOOLEAN, Sync!Queue({Sync!SyncTask(b)})
        PROVE  \E new : Sync!Queue(new) /\ \A s \in new : TaskFits(s)'
    <3>1. PICK x : x = Sync!SyncTask(b)
      OBVIOUS
    <3>2. TaskFits(x) /\ Sync!Queue({x})
      BY <2>2, <3>1, SyncTaskIs
    <3> QED BY <2>1, <3>2
  <2> QED BY <2>2 DEF KeepsUuid
<1> QED BY <1>1, <1>2, <1>3, <1>4, SessionUse DEF KeepsUuid, Around

LEMMA RotatesUse ==
    ASSUME Sync!SyncConstants, UseInv, Rotates, NEW u, NEW v, RotatesTo(u, v) PROVE UseInv'
<1>1. /\ vless' \in SubscriptionRow /\ fresh' = fresh + 1 /\ vless'.uuid = fresh /\ vless'.pending \subseteq Used
      /\ fresh \in Sync!Uuids /\ RowOwn(vless) /\ fresh \in 2..(MaxUuid + 1) /\ fresh \in Int
  BY CopyFacts DEF Rotates, UseInv, Shapes
<1>2. fresh' \in 2..(MaxUuid + 1) /\ fresh \notin Used /\ fresh \in Used'
  BY <1>1 DEF Sync!Uuids, Used, Sync!SyncConstants
<1>g. Used \subseteq Used' /\ \A t : TaskFits(t) => TaskFits(t)'
  BY <1>1, <1>2, Grows
<1>3. RowOwn(vless)'
  BY <1>1, <1>2, <1>g DEF RowOwn
<1>4. known' \subseteq Used'
  BY <1>1, <1>g DEF Rotates, Around, UseInv, Shapes, RowOwn
<1>5. \E new : Sync!Queue(new) /\ \A s \in new : TaskFits(s)'
  <2>1. PICK new : new \subseteq {Sync!SyncTask(b) : b \in BOOLEAN} /\ Sync!Queue({Sync!RevokeTask(u, v)} \cup new)
    BY DEF RotatesTo
  <2>2. TaskFits(Sync!RevokeTask(u, v)) /\ \A b \in BOOLEAN : TaskFits(Sync!SyncTask(b))
    BY SyncTaskIs, RevokeTaskIs, UsedFacts DEF RotatesTo
  <2>3. \A s \in {Sync!RevokeTask(u, v)} \cup new : TaskFits(s)
    BY <2>1, <2>2
  <2> QED BY <1>g, <2>1, <2>3
<1> QED BY <1>1, <1>2, <1>3, <1>4, <1>5, SessionUse DEF Rotates, Around

LEMMA UseStep == ASSUME Sync!SyncConstants, UseInv, [Sync!Next]_Sync!vars PROVE UseInv'
<1>1. CASE Sync!TaskStep
  BY <1>1, StartSyncUse, StartRevokeUse, CallNodeUse, RetrySyncUse, FinishSyncUse,
     FinishRevokeUse, FinishBootUse DEF Sync!TaskStep
<1>2. CASE Sync!SessionStep
  BY <1>2, AdminRotateIs, EmptyResetIs, FeedDeactivatesIs, BanIs, UnbanIs, RenewIs, NetworkGraceIs,
     RetentionIs, KeepsUse, RotatesUse
     DEF Sync!SessionStep, Sync!AdminVlessRotate, Sync!AdminVlessHwidReset
<1>3. CASE Sync!Requests
  BY <1>3, ResetIs, FeedServesIs, OpensUse, KeepsUse, RotatesUse DEF Sync!Requests
<1>4. CASE Sync!NetworkGraceOpens
  BY <1>4, OpensUse
<1>5. CASE Sync!SweepRevocations \/ Sync!SweepOutOfSync \/ \E n \in Nodes : Sync!SyncAllActive(n)
  BY <1>5, WorkerUse
<1>6. CASE Sync!Crash \/ \E n \in Nodes : Sync!EpochSeen(n) \/ Sync!NodeRestarts(n)
  BY <1>6, NodeUse
<1>7. CASE UNCHANGED Sync!vars
  BY <1>7 DEF Sync!vars, UseInv, Shapes, RowsOwn, EditOwn, OtherOwn, RowOwn, Used, TaskFits
<1> QED BY <1>1, <1>2, <1>3, <1>4, <1>5, <1>6, <1>7 DEF Sync!Next

\* sweep_pending_revocations and deprovision: the credential in use is never on
\* the list of those to switch off, so that no sweep cuts off a customer with
\* access, for any nodes, with every operation and with stale copies of the row.
THEOREM OwnNeverRevoked == ASSUME Sync!SyncConstants PROVE Sync!Spec => []Sync!InUseNotRevoked
<1>1. Sync!Init => UseInv
  BY UseInit
<1>2. UseInv /\ [Sync!Next]_Sync!vars => UseInv'
  BY UseStep
<1>3. UseInv => Sync!InUseNotRevoked
  BY DEF UseInv, RowsOwn, RowOwn, Sync!InUseNotRevoked
<1> QED BY <1>1, <1>2, <1>3, PTL DEF Sync!Spec

\* Calls that switch a uuid on, and what outdates them.
Out(u, v) == \A s \in tasks : s.want /\ s.uuid = u => s.ver < v
Gone(u) == u \in Used /\ u # vless.uuid /\ u \notin vless.pending

CallFits(s) ==
    /\ s.want => s.kind # "revoke"
    /\ s.want /\ s.uuid # vless.uuid => s.ver < vless.ver
    /\ s.ver <= vless.ver \/ s.again
    /\ s.again => /\ lock # Idle /\ s.kind = "sync" /\ s.stage = "calling"
                  /\ s.uuid = vless.uuid /\ s.ver = vless.ver + 1
RestFits(s) == s.kind = "sync" => \A u \in s.rest : u # vless.uuid /\ Out(u, s.ver)
OffAt(s, n) == ~node[n].client[s.uuid].on /\ s.ver <= node[n].client[s.uuid].ver
RevokeFits(s) ==
    s.kind = "revoke" =>
       /\ s.uuid # vless.uuid /\ Out(s.uuid, s.ver)
       /\ s.stage = "calling" /\ s.fine => \A n \in Nodes \ s.todo : OffAt(s, n)

AgainOnce == \A s, t \in tasks : s.again /\ t.again => s = t
GoneOff ==
    \A u \in Used, n \in Nodes :
       Gone(u) => ~node[n].client[u].on /\ Out(u, node[n].client[u].ver)
CallsInv ==
    /\ \A s \in tasks : CallFits(s) /\ RestFits(s) /\ RevokeFits(s)
    /\ AgainOnce /\ GoneOff
    /\ vless.synced <= vless.ver

LEMMA CallsFacts ==
    ASSUME Sync!SyncConstants, UseInv
    PROVE  /\ vless.ver \in Int /\ fresh \in Int
           /\ \A s \in tasks : s \in TaskType /\ s.ver \in Int /\ s.want \in BOOLEAN
           /\ \A n \in Nodes, u \in Sync!Uuids : node[n].client[u].ver \in Int
           /\ Used \subseteq Sync!Uuids
BY DEF UseInv, TaskFits, TaskType, Shapes, NodeType, RowsOwn, RowOwn, SubscriptionRow, Used

\* New tasks that do not disturb the others.
Adds(x) ==
    /\ RestFits(x) /\ RevokeFits(x) /\ (x.want => x.uuid = vless.uuid)
Still ==
    /\ vless'.uuid = vless.uuid /\ vless'.ver = vless.ver /\ vless'.pending = vless.pending
    /\ vless'.synced = vless.synced /\ UNCHANGED <<fresh, node>>

LEMMA AddsCalls ==
    ASSUME Sync!SyncConstants, UseInv, CallsInv, Still, lock' = lock \/ lock' # Idle,
           \A x \in tasks' : x \in tasks \/ (Adds(x) /\ CallFits(x)'),
           AgainOnce'
    PROVE  CallsInv'
<1>1. ASSUME NEW u, NEW v, Out(u, v), u # vless.uuid PROVE Out(u, v)'
  BY <1>1 DEF Out, Adds
<1>2. ASSUME NEW x \in tasks' PROVE (CallFits(x) /\ RestFits(x) /\ RevokeFits(x))'
  <2>1. x \in tasks \/ (Adds(x) /\ CallFits(x)')
    BY <1>2
  <2>2. RestFits(x) /\ RevokeFits(x)
    BY <2>1 DEF CallsInv, Adds
  <2>3. CallFits(x)'
    <3>1. CASE x \in tasks
      BY <3>1 DEF CallFits, Still, CallsInv
    <3>2. CASE CallFits(x)'
      BY <3>2
    <3> QED BY <2>1, <3>1, <3>2
  <2>4. RestFits(x)'
    BY <1>1, <2>2 DEF RestFits, Still
  <2>5. RevokeFits(x)'
    BY <1>1, <2>2 DEF RevokeFits, OffAt, Still
  <2> QED BY <2>3, <2>4, <2>5
<1>3. GoneOff'
  <2>1. SUFFICES ASSUME NEW u \in Used', NEW n \in Nodes, Gone(u)'
                 PROVE  (~node[n].client[u].on /\ Out(u, node[n].client[u].ver))'
    BY DEF GoneOff
  <2>2. Gone(u) /\ u \in Used /\ u # vless.uuid
    BY <2>1 DEF Gone, Used, Still
  <2>3. ~node[n].client[u].on /\ Out(u, node[n].client[u].ver)
    BY <2>2 DEF CallsInv, GoneOff
  <2>4. Out(u, node[n].client[u].ver)'
    <3>1. PICK v : v = node[n].client[u].ver
      OBVIOUS
    <3>2. Out(u, v)'
      BY <1>1, <2>2, <2>3, <3>1
    <3> QED BY <3>1, <3>2 DEF Still
  <2> QED BY <2>3, <2>4 DEF Still
<1> QED BY <1>2, <1>3 DEF CallsInv, Still

LEMMA StartSyncIs ==
    ASSUME Sync!SyncConstants, UseInv, NEW t \in tasks, Sync!StartSync(t)
    PROVE  \E s : /\ Sync!Replace(t, {s}) /\ s.kind = "sync" /\ s.uuid = vless.uuid /\ s.ver = vless.ver
                  /\ s.rest \subseteq vless.pending /\ s.again = t.again
                  /\ UNCHANGED <<vless, fresh, node, lock, known>>
<1>0. t \in TaskType /\ t.kind = "sync"
  BY DEF UseInv, TaskFits, Sync!StartSync
<1> DEFINE r == IF t.by = "commit" THEN vless.pending ELSE {}
           w == vless.active /\ Sync!Access(user) /\ ~t.off
           a == [t EXCEPT !.stage = "calling"]
           b == [a EXCEPT !.uuid = vless.uuid]
           c == [b EXCEPT !.ver = vless.ver]
           d == [c EXCEPT !.want = w]
           e == [d EXCEPT !.todo = Nodes]
           f == [e EXCEPT !.was = vless.synced]
           s == [f EXCEPT !.rest = r]
<1>1. Sync!Replace(t, {s}) /\ UNCHANGED <<vless, fresh, node, lock, known>>
  BY DEF Sync!StartSync
<1>2. r \subseteq vless.pending
  OBVIOUS
<1> HIDE DEF r, w
<1> DEFINE F == {"kind", "by", "stage", "uuid", "ver", "want", "off", "todo", "fine", "bump",
                 "again", "rest", "popped", "was"}
<1>3. a.kind = "sync" /\ a.again = t.again /\ DOMAIN a = F
  BY <1>0 DEF TaskType
<1> HIDE DEF a
<1>4. b.kind = "sync" /\ b.again = t.again /\ b.uuid = vless.uuid /\ DOMAIN b = F
  BY <1>3
<1> HIDE DEF b
<1>5. c.kind = "sync" /\ c.again = t.again /\ c.uuid = vless.uuid /\ c.ver = vless.ver /\ DOMAIN c = F
  BY <1>4
<1> HIDE DEF c
<1>6. d.kind = "sync" /\ d.again = t.again /\ d.uuid = vless.uuid /\ d.ver = vless.ver /\ DOMAIN d = F
  BY <1>5
<1> HIDE DEF d
<1>7. e.kind = "sync" /\ e.again = t.again /\ e.uuid = vless.uuid /\ e.ver = vless.ver /\ DOMAIN e = F
  BY <1>6
<1> HIDE DEF e
<1>8. f.kind = "sync" /\ f.again = t.again /\ f.uuid = vless.uuid /\ f.ver = vless.ver /\ DOMAIN f = F
  BY <1>7
<1> HIDE DEF f
<1>9. s.kind = "sync" /\ s.again = t.again /\ s.uuid = vless.uuid /\ s.ver = vless.ver /\ s.rest = r
  BY <1>8
<1> HIDE DEF s
<1> QED BY <1>1, <1>2, <1>9

\* An uuid that is listed is outdated.
LEMMA PendingOut ==
    ASSUME Sync!SyncConstants, UseInv, CallsInv, NEW u \in vless.pending, NEW v \in Int, vless.ver <= v
    PROVE  u # vless.uuid /\ Out(u, v)
<1>1. u # vless.uuid
  BY CopyFacts DEF RowOwn
<1>2. ASSUME NEW s \in tasks, s.want, s.uuid = u PROVE s.ver < v
  BY <1>1, <1>2, CallsFacts DEF CallsInv, CallFits
<1> QED BY <1>1, <1>2 DEF Out

LEMMA StartSyncCalls ==
    ASSUME Sync!SyncConstants, UseInv, CallsInv, NEW t \in tasks, Sync!StartSync(t) PROVE CallsInv'
<1>1. PICK s : /\ Sync!Replace(t, {s}) /\ s.kind = "sync" /\ s.uuid = vless.uuid /\ s.ver = vless.ver
               /\ s.rest \subseteq vless.pending /\ s.again = t.again
               /\ UNCHANGED <<vless, fresh, node, lock, known>>
  BY StartSyncIs
<1>2. vless.ver \in Int /\ t \in TaskType /\ t.stage = "queued"
  BY CallsFacts DEF Sync!StartSync
<1>3. ~t.again
  BY <1>2 DEF CallsInv, CallFits
<1>4. Adds(s)
  BY <1>1, <1>2, PendingOut DEF Adds, RestFits, RevokeFits
<1>5. CallFits(s)'
  BY <1>1, <1>2, <1>3 DEF CallFits
<1>6. AgainOnce'
  BY <1>1, <1>3 DEF AgainOnce, CallsInv, Sync!Replace
<1> QED BY <1>1, <1>4, <1>5, <1>6, AddsCalls DEF Still, Sync!Replace

LEMMA StartRevokeCalls ==
    ASSUME Sync!SyncConstants, UseInv, CallsInv, NEW t \in tasks, Sync!StartRevoke(t) PROVE CallsInv'
<1> DEFINE s == [t EXCEPT !.stage = "calling", !.todo = Nodes]
<1>1. Sync!Replace(t, {s}) /\ UNCHANGED <<vless, fresh, node, lock, known>>
      /\ t.kind = "revoke" /\ t \in TaskType
  BY CallsFacts DEF Sync!StartRevoke
<1>2. /\ s.kind = t.kind /\ s.uuid = t.uuid /\ s.ver = t.ver
      /\ s.want = t.want /\ s.again = t.again /\ s.todo = Nodes
  BY <1>1, StartedRevokeIs
<1> HIDE DEF s
<1>3. CallFits(t) /\ RevokeFits(t)
  BY DEF CallsInv
<1>4. ~t.want /\ ~t.again
  BY <1>1, <1>3 DEF CallFits, TaskType
<1>5. Adds(s)
  BY <1>1, <1>2, <1>3, <1>4 DEF Adds, RestFits, RevokeFits
<1>6. CallFits(s)'
  BY <1>1, <1>2, <1>3, <1>4 DEF CallFits
<1>7. AgainOnce'
  BY <1>1, <1>2, <1>4 DEF AgainOnce, CallsInv, Sync!Replace
<1> QED BY <1>1, <1>5, <1>6, <1>7, AddsCalls DEF Still, Sync!Replace

LEMMA RetrySyncCalls ==
    ASSUME Sync!SyncConstants, UseInv, CallsInv, NEW t \in tasks, Sync!RetrySync(t) PROVE CallsInv'
<1>1. Sync!Replace(t, {Sync!Bumped(t)}) /\ UNCHANGED <<vless, fresh, node, known>>
      /\ vless.ver < MaxVersion /\ t \in TaskType /\ vless \in SubscriptionRow /\ Sync!Free /\ lock' = "held"
      /\ t.kind = "sync" /\ t.stage = "calling" /\ vless.ver \in Int
  BY CallsFacts, CopyFacts DEF Sync!RetrySync, Sync!Called
<1>a. PICK s : s = Sync!Bumped(t)
  OBVIOUS
<1>2. /\ s.kind = "sync" /\ s.uuid = vless.uuid /\ s.ver = vless.ver + 1 /\ s.again
      /\ s.rest = t.rest /\ s.stage = "calling"
  BY <1>1, <1>a, BumpedIs
<1>3. RestFits(s)
  <2>1. SUFFICES ASSUME NEW u \in s.rest PROVE u # vless.uuid /\ Out(u, s.ver)
    BY DEF RestFits
  <2>2. u # vless.uuid
    BY <1>1, <1>2, <2>1 DEF CallsInv, RestFits
  <2>3. ASSUME NEW x \in tasks, x.want, x.uuid = u PROVE x.ver < s.ver
    BY <1>1, <1>2, <2>2, <2>3, CallsFacts DEF CallsInv, CallFits
  <2> QED BY <2>2, <2>3 DEF Out
<1>4. Adds(s)
  BY <1>2, <1>3 DEF Adds, RevokeFits
<1>5. CallFits(s)'
  <2>1. lock' # Idle /\ UNCHANGED vless
    BY <1>1 DEF Sync!SyncConstants
  <2> QED BY <1>2, <2>1 DEF CallFits
<1>6. \A x \in tasks : ~x.again
  BY <1>1 DEF CallsInv, CallFits, Sync!Free
<1>7. AgainOnce'
  BY <1>1, <1>a, <1>6 DEF AgainOnce, Sync!Replace
<1>8. lock' # Idle
  BY <1>1 DEF Sync!SyncConstants
<1>9. Still
  BY <1>1 DEF Still
<1>10. \A x \in tasks' : x \in tasks \/ (Adds(x) /\ CallFits(x)')
  BY <1>1, <1>a, <1>4, <1>5 DEF Sync!Replace
<1> QED BY <1>7, <1>8, <1>9, <1>10, AddsCalls

LEMMA FinishBootCalls ==
    ASSUME Sync!SyncConstants, UseInv, CallsInv, NEW t \in tasks, Sync!FinishBoot(t) PROVE CallsInv'
<1>1. Sync!Replace(t, {}) /\ UNCHANGED <<vless, fresh, node, lock, known>>
  BY DEF Sync!FinishBoot
<1>2. AgainOnce'
  BY <1>1 DEF AgainOnce, CallsInv, Sync!Replace
<1> QED BY <1>1, <1>2, AddsCalls DEF Still, Sync!Replace

LEMMA WorkerCalls ==
    ASSUME Sync!SyncConstants, UseInv, CallsInv,
           Sync!SweepRevocations \/ Sync!SweepOutOfSync \/ (\E n \in Nodes : Sync!SyncAllActive(n))
    PROVE  CallsInv'
<1>0. vless.ver \in Int /\ vless.ver \in 0..MaxVersion /\ vless.ver >= 0
  BY CopyFacts DEF Sync!SyncConstants
<1>1. ASSUME NEW s, Sync!Queue({s}), UNCHANGED <<vless, fresh, node, lock, known>>, ~s.again,
             Adds(s), CallFits(s)
      PROVE  CallsInv'
  <2>1. CallFits(s)'
    BY <1>1 DEF CallFits
  <2>2. AgainOnce'
    BY <1>1 DEF AgainOnce, CallsInv, Sync!Queue
  <2> QED BY <1>1, <2>1, <2>2, AddsCalls DEF Still, Sync!Queue
<1>2. CASE Sync!SweepRevocations
  <2>1. PICK u \in vless.pending : Sync!Work({[Sync!RevokeTask(u, vless.ver) EXCEPT !.by = "worker"]})
    BY <1>2 DEF Sync!SweepRevocations
  <2>2. u \in Used \cap Sync!Uuids
    BY UsedFacts, CopyFacts
  <2> DEFINE x == Sync!RevokeTask(u, vless.ver)
             s == [x EXCEPT !.by = "worker"]
  <2>3. x \in TaskType /\ Calm(x) /\ x.kind = "revoke" /\ x.uuid = u /\ x.ver = vless.ver
    BY <1>0, <2>2, RevokeTaskIs
  <2>4. Sync!Queue({s}) /\ UNCHANGED <<vless, fresh, node, lock, known>>
    BY <2>1 DEF Sync!Work
  <2> HIDE DEF x
  <2>5. Calm(s) /\ s.kind = "revoke" /\ s.uuid = u /\ s.ver = vless.ver
    BY <2>3, ByIs
  <2> HIDE DEF s
  <2>6. Adds(s) /\ CallFits(s)
    BY <1>0, <2>5, PendingOut DEF Adds, RestFits, RevokeFits, Calm, CallFits
  <2> QED BY <1>1, <2>4, <2>5, <2>6 DEF Calm
<1>3. CASE Sync!SweepOutOfSync
  <2>1. PICK b \in BOOLEAN : b = FALSE
    OBVIOUS
  <2> DEFINE x == Sync!SyncTask(b)
             s == [x EXCEPT !.by = "worker"]
  <2>2. x \in TaskType /\ Calm(x) /\ x.kind = "sync" /\ x.rest = {} /\ x.ver = 0
    BY SyncTaskIs
  <2>3. Sync!Queue({s}) /\ UNCHANGED <<vless, fresh, node, lock, known>>
    BY <1>3, <2>1 DEF Sync!SweepOutOfSync, Sync!Work
  <2> HIDE DEF x
  <2>4. Calm(s) /\ s.kind = "sync" /\ s.rest = {} /\ s.ver = 0
    BY <2>2, ByIs
  <2> HIDE DEF s
  <2>5. Adds(s) /\ CallFits(s)
    BY <1>0, <2>4 DEF Adds, RestFits, RevokeFits, Calm, CallFits
  <2> QED BY <1>1, <2>3, <2>4, <2>5 DEF Calm
<1>4. CASE \E n \in Nodes : Sync!SyncAllActive(n)
  <2>1. PICK n \in Nodes : Sync!SyncAllActive(n)
    BY <1>4
  <2> DEFINE serve == vless.active /\ ~user.banned /\ Sync!Access(user)
             todo == IF serve THEN {n} ELSE {}
             s == [Sync!Task("boot", "boot") EXCEPT !.stage = "calling", !.uuid = vless.uuid,
                        !.ver = vless.ver, !.want = TRUE, !.rest = {n}, !.todo = todo]
  <2>2. Sync!Queue({s}) /\ UNCHANGED <<vless, fresh, node, lock, known>>
    BY <2>1 DEF Sync!SyncAllActive
  <2>3. todo \in SUBSET Nodes
    OBVIOUS
  <2> HIDE DEF todo
  <2>4. s.kind = "boot" /\ s.uuid = vless.uuid /\ s.ver = vless.ver /\ ~s.again
    BY <2>3, BootTaskIs
  <2> HIDE DEF s
  <2>5. Adds(s) /\ CallFits(s)
    BY <1>0, <2>4 DEF Adds, RestFits, RevokeFits, CallFits
  <2> QED BY <1>1, <2>2, <2>4, <2>5
<1> QED BY <1>2, <1>3, <1>4

LEMMA CallNodeCalls ==
    ASSUME Sync!SyncConstants, UseInv, CallsInv, NEW t \in tasks, NEW n \in Nodes, Sync!CallNode(t, n)
    PROVE  CallsInv'
<1>1. PICK s \in TaskType :
           /\ Sync!Replace(t, {s}) /\ s.kind = t.kind /\ s.uuid = t.uuid /\ s.ver = t.ver
           /\ s.want = t.want /\ s.again = t.again /\ s.rest = t.rest
           /\ s.stage = "calling" /\ s.todo = t.todo \ {n} /\ t.stage = "calling"
           /\ t.uuid \in Used
           /\ node' \in NodeType
           /\ \A m \in Nodes, w \in Sync!Uuids :
                 \/ node'[m].client[w] = node[m].client[w]
                 \/ m = n /\ w = t.uuid /\ node'[m].client[w] = Sync!NodeAfter(n, t.uuid, t.ver, t.want)
           /\ s.fine => /\ t.fine
                        /\ node'[n].client[t.uuid] = Sync!NodeAfter(n, t.uuid, t.ver, t.want)
                        /\ Sync!NodeAfter(n, t.uuid, t.ver, t.want).on = t.want
  BY CallIs
<1>2. UNCHANGED <<vless, fresh, lock, known>>
  BY DEF Sync!CallNode
<1>3. /\ t.ver \in Int /\ t.want \in BOOLEAN /\ Used \subseteq Sync!Uuids /\ vless.ver \in Int
      /\ \A m \in Nodes, w \in Sync!Uuids : node[m].client[w].ver \in Int
      /\ CallFits(t) /\ RestFits(t) /\ RevokeFits(t)
  BY CallsFacts DEF CallsInv
<1>4. ASSUME NEW u, NEW v, Out(u, v) PROVE Out(u, v)'
  BY <1>1, <1>4 DEF Out, Sync!Replace
\* what is off and outdated on a node stays so
<1>5. ASSUME NEW m \in Nodes, NEW w \in Sync!Uuids, NEW v \in Int, Out(w, v),
             ~node[m].client[w].on, v <= node[m].client[w].ver
      PROVE  ~node'[m].client[w].on /\ v <= node'[m].client[w].ver
             /\ node[m].client[w].ver <= node'[m].client[w].ver
  <2>1. CASE node'[m].client[w] = node[m].client[w]
    BY <1>3, <1>5, <2>1
  <2>2. CASE m = n /\ w = t.uuid /\ node'[m].client[w] = Sync!NodeAfter(n, t.uuid, t.ver, t.want)
    <3>1. CASE Sync!Newer(n, t.uuid, t.ver)
      BY <1>3, <1>5, <2>2, <3>1 DEF Sync!NodeAfter
    <3>2. CASE ~Sync!Newer(n, t.uuid, t.ver)
      <4>1. node'[m].client[w] = [ver |-> t.ver, on |-> t.want]
        BY <2>2, <3>2 DEF Sync!NodeAfter
      <4>2. node[m].client[w].ver <= t.ver
        BY <1>3, <2>2, <3>2 DEF Sync!Newer
      <4>3. ~t.want
        BY <1>3, <1>5, <2>2, <4>2 DEF Out
      <4> QED BY <1>3, <1>5, <4>1, <4>2, <4>3
    <3> QED BY <3>1, <3>2
  <2> QED BY <1>1, <2>1, <2>2
<1>6. ASSUME NEW x \in tasks' PROVE (CallFits(x) /\ RestFits(x) /\ RevokeFits(x))'
  <2>1. x \in tasks \/ x = s
    BY <1>1 DEF Sync!Replace
  <2>2. CallFits(x)' /\ RestFits(x)'
    <3>1. CASE x \in tasks
      <4>1. CallFits(x) /\ RestFits(x)
        BY <3>1 DEF CallsInv
      <4> QED BY <1>2, <1>4, <4>1 DEF CallFits, RestFits
    <3>2. CASE x = s
      BY <1>1, <1>2, <1>3, <1>4, <3>2 DEF CallFits, RestFits
    <3> QED BY <2>1, <3>1, <3>2
  <2>3. RevokeFits(x)'
    <3>1. SUFFICES ASSUME x.kind = "revoke" PROVE RevokeFits(x)'
      BY DEF RevokeFits
    <3>2. CASE x \in tasks
      <4>1. RevokeFits(x) /\ x.ver \in Int /\ x \in TaskType /\ x.uuid \in Sync!Uuids
        BY <3>1, <3>2, <1>3, CallsFacts DEF CallsInv, UseInv, TaskFits
      <4>2. x.uuid # vless.uuid /\ Out(x.uuid, x.ver)
        BY <3>1, <4>1 DEF RevokeFits
      <4>3. ASSUME x.stage = "calling", x.fine, NEW m \in Nodes \ x.todo PROVE OffAt(x, m)'
        <5>1. OffAt(x, m)
          BY <3>1, <4>1, <4>3 DEF RevokeFits
        <5> QED BY <1>5, <4>1, <4>2, <5>1 DEF OffAt
      <4> QED BY <1>2, <1>4, <4>2, <4>3 DEF RevokeFits
    <3>3. CASE x = s
      <4>1. t.kind = "revoke" /\ t.uuid \in Sync!Uuids /\ ~t.want /\ t.uuid # vless.uuid /\ Out(t.uuid, t.ver)
        BY <1>1, <1>3, <3>1, <3>3 DEF RevokeFits, CallFits
      <4>2. ASSUME x.fine, NEW m \in Nodes \ x.todo PROVE OffAt(x, m)'
        <5>1. CASE m = n
          <6>1. node'[n].client[t.uuid] = Sync!NodeAfter(n, t.uuid, t.ver, t.want)
                /\ Sync!NodeAfter(n, t.uuid, t.ver, t.want).on = t.want
            BY <1>1, <3>3, <4>2
          <6>2. t.ver <= Sync!NodeAfter(n, t.uuid, t.ver, t.want).ver
            BY <1>3, <4>1 DEF Sync!NodeAfter, Sync!Newer
          <6> QED BY <1>1, <3>3, <4>1, <5>1, <6>1, <6>2 DEF OffAt
        <5>2. CASE m # n
          <6>1. t.fine /\ m \in Nodes \ t.todo
            BY <1>1, <3>3, <4>2, <5>2
          <6>2. OffAt(t, m)
            BY <1>1, <1>3, <4>1, <6>1 DEF RevokeFits
          <6> QED BY <1>1, <1>3, <1>5, <3>3, <4>1, <6>2 DEF OffAt
        <5> QED BY <5>1, <5>2
      <4> QED BY <1>1, <1>2, <1>4, <3>3, <4>1, <4>2 DEF RevokeFits
    <3> QED BY <2>1, <3>2, <3>3
  <2> QED BY <2>2, <2>3
<1>7. AgainOnce'
  BY <1>1 DEF AgainOnce, CallsInv, Sync!Replace
<1>8. GoneOff'
  <2>1. SUFFICES ASSUME NEW u \in Used', NEW m \in Nodes, Gone(u)'
                 PROVE  (~node[m].client[u].on /\ Out(u, node[m].client[u].ver))'
    BY DEF GoneOff
  <2>2. Gone(u) /\ u \in Used /\ u \in Sync!Uuids
    BY <1>2, <1>3, <2>1 DEF Gone, Used
  <2>3. ~node[m].client[u].on /\ Out(u, node[m].client[u].ver)
    BY <2>2 DEF CallsInv, GoneOff
  <2>4. ~node'[m].client[u].on /\ node[m].client[u].ver <= node'[m].client[u].ver
    BY <1>3, <1>5, <2>2, <2>3
  <2>5. PICK v \in Int, w \in Int : v = node[m].client[u].ver /\ w = node'[m].client[u].ver
    BY <1>1, <1>3, <2>2 DEF NodeType
  <2>6. Out(u, v)'
    BY <1>4, <2>3, <2>5
  <2>7. \A x \in tasks' : x.ver \in Int
    BY <1>1, CallsFacts DEF Sync!Replace, TaskType
  <2>8. Out(u, w)'
    BY <2>4, <2>5, <2>6, <2>7 DEF Out
  <2> QED BY <2>4, <2>5, <2>8
<1> QED BY <1>2, <1>6, <1>7, <1>8 DEF CallsInv

\* The row moves on without another uuid; the new tasks are calm.
LEMMA MovesCalls ==
    ASSUME Sync!SyncConstants, UseInv, UseInv', CallsInv,
           vless'.uuid = vless.uuid, vless'.pending = vless.pending, vless.ver <= vless'.ver,
           vless'.synced <= vless'.ver, UNCHANGED <<fresh, node>>,
           \A x \in tasks' :
              \/ x \in tasks /\ (x.again => lock' = lock /\ vless'.ver = vless.ver)
              \/ ~x.want /\ ~x.again /\ RestFits(x) /\ RevokeFits(x)
                 /\ x.ver <= vless'.ver
    PROVE  CallsInv'
<1>0. vless.ver \in Int /\ vless'.ver \in Int
  BY CallsFacts DEF UseInv, RowsOwn, RowOwn, SubscriptionRow
<1>1. ASSUME NEW u, NEW v, Out(u, v) PROVE Out(u, v)'
  BY <1>1 DEF Out
<1>2. ASSUME NEW x \in tasks' PROVE (CallFits(x) /\ RestFits(x) /\ RevokeFits(x))'
  <2>1. RestFits(x) /\ RevokeFits(x) /\ x.ver \in Int
    BY <1>2 DEF CallsInv, UseInv, TaskFits, TaskType
  <2>2. RestFits(x)'
    BY <1>1, <2>1 DEF RestFits
  <2>3. RevokeFits(x)'
    BY <1>1, <2>1 DEF RevokeFits, OffAt
  <2>4. CallFits(x)'
    <3>1. CASE x \in tasks /\ (x.again => lock' = lock /\ vless'.ver = vless.ver)
      <4>1. CallFits(x)
        BY <3>1 DEF CallsInv
      <4> QED BY <1>0, <2>1, <3>1, <4>1 DEF CallFits
    <3>2. CASE ~x.want /\ ~x.again /\ x.ver <= vless'.ver
      BY <3>2 DEF CallFits
    <3> QED BY <1>2, <3>1, <3>2
  <2> QED BY <2>2, <2>3, <2>4
<1>3. AgainOnce'
  BY DEF AgainOnce, CallsInv
<1>4. GoneOff'
  <2>1. SUFFICES ASSUME NEW u \in Used', NEW n \in Nodes, Gone(u)'
                 PROVE  (~node[n].client[u].on /\ Out(u, node[n].client[u].ver))'
    BY DEF GoneOff
  <2>2. Gone(u) /\ u \in Used
    BY <2>1 DEF Gone, Used
  <2>3. ~node[n].client[u].on /\ Out(u, node[n].client[u].ver)
    BY <2>2 DEF CallsInv, GoneOff
  <2>4. PICK v : v = node[n].client[u].ver
    OBVIOUS
  <2>5. Out(u, v)'
    BY <1>1, <2>3, <2>4
  <2> QED BY <2>3, <2>4, <2>5
<1> QED BY <1>2, <1>3, <1>4 DEF CallsInv

LEMMA KeepsCalls ==
    ASSUME Sync!SyncConstants, UseInv, UseInv', CallsInv, KeepsUuid, vless.ver <= vless'.ver PROVE CallsInv'
<1>0. vless.ver \in Int /\ vless'.ver \in Int /\ vless.ver >= 1 /\ vless.synced \in Int
    /\ vless.synced <= vless.ver
      /\ vless \in SubscriptionRow
  BY CopyFacts DEF UseInv, RowsOwn, RowOwn, SubscriptionRow, CallsInv
<1>1. /\ vless'.uuid = vless.uuid /\ vless'.pending = vless.pending /\ vless'.synced = vless.synced
      /\ UNCHANGED <<fresh, node, lock>> /\ Sync!Free
  BY DEF KeepsUuid, Around
<1>2. \A x \in tasks : ~x.again
  BY <1>1 DEF CallsInv, CallFits, Sync!Free
<1>3. ASSUME NEW x \in tasks' 
      PROVE  x \in tasks \/ (~x.want /\ ~x.again /\ x.kind = "sync" /\ x.rest = {} /\ x.ver = 0)
  BY SyncTaskIs DEF KeepsUuid, Sync!Queue, Calm
<1>4. \A x \in tasks' :
              \/ x \in tasks /\ (x.again => lock' = lock /\ vless'.ver = vless.ver)
              \/ ~x.want /\ ~x.again /\ RestFits(x) /\ RevokeFits(x)
                 /\ x.ver <= vless'.ver
  BY <1>0, <1>2, <1>3 DEF RestFits, RevokeFits
<1>5. vless'.synced <= vless'.ver
  BY <1>0, <1>1
<1> QED BY <1>1, <1>4, <1>5, MovesCalls

LEMMA FinishSyncCalls ==
    ASSUME Sync!SyncConstants, UseInv, UseInv', CallsInv, NEW t \in tasks, Sync!FinishSync(t)
    PROVE  CallsInv'
<1> DEFINE new == {[Sync!RevokeTask(u, t.ver) EXCEPT !.by = "sync"] : u \in t.rest}
<1>1. /\ Sync!Replace(t, new) /\ UNCHANGED <<fresh, node>> /\ t.kind = "sync" /\ vless' = Sync!Recorded(t)
      /\ (t.again \/ Sync!Free) /\ lock' = (IF t.again THEN Idle ELSE lock) /\ t \in TaskType
      /\ TaskFits(t) /\ vless \in SubscriptionRow /\ CallFits(t) /\ RestFits(t)
  BY CallsFacts, CopyFacts DEF Sync!FinishSync, UseInv, CallsInv
<1>2. /\ t.ver \in 0..MaxVersion /\ vless.ver \in 1..MaxVersion /\ vless.synced \in Int
      /\ t.rest \subseteq Used /\ Used \subseteq Sync!Uuids /\ vless.synced <= vless.ver
  BY <1>1, UsedFacts DEF TaskFits, TaskType, SubscriptionRow, CallsInv
<1>3. /\ vless'.uuid = vless.uuid /\ vless'.pending = vless.pending
      /\ vless'.ver = (IF t.again THEN t.ver ELSE vless.ver)
      /\ vless'.synced = (IF t.fine /\ t.ver # t.was THEN t.ver ELSE vless.synced)
  BY <1>1, <1>2, RecordedIs DEF TaskFits
<1>4. t.again => t.ver = vless.ver + 1
  BY <1>1 DEF CallFits
<1>5. ~t.again => t.ver <= vless.ver
  BY <1>1 DEF CallFits
<1>6. vless.ver <= vless'.ver /\ vless'.synced <= vless'.ver
  BY <1>2, <1>3, <1>4, <1>5 DEF Sync!SyncConstants
<1>7. ASSUME NEW x \in tasks, x # t PROVE ~x.again
  <2>1. CASE t.again
    BY <1>7, <2>1 DEF CallsInv, AgainOnce
  <2>2. CASE Sync!Free
    BY <2>2 DEF CallsInv, CallFits, Sync!Free
  <2> QED BY <1>1, <2>1, <2>2
<1>8. ASSUME NEW x \in new
      PROVE  ~x.want /\ ~x.again /\ RestFits(x) /\ RevokeFits(x) /\ x.ver <= vless'.ver
  <2>1. PICK u \in t.rest : x = [Sync!RevokeTask(u, t.ver) EXCEPT !.by = "sync"]
    BY <1>8
  <2>2. /\ Sync!RevokeTask(u, t.ver) \in TaskType /\ Calm(Sync!RevokeTask(u, t.ver))
        /\ Sync!RevokeTask(u, t.ver).kind = "revoke" /\ Sync!RevokeTask(u, t.ver).uuid = u
        /\ Sync!RevokeTask(u, t.ver).ver = t.ver
    BY <1>2, RevokeTaskIs
  <2>3. Calm(x) /\ x.kind = "revoke" /\ x.uuid = u /\ x.ver = t.ver
    BY <1>2, <2>1, <2>2, ByIs
  <2>4. u # vless.uuid /\ Out(u, t.ver)
    BY <1>1 DEF RestFits
  <2>5. t.ver <= vless'.ver
    BY <1>2, <1>3, <1>4, <1>5
  <2> QED BY <2>3, <2>4, <2>5 DEF Calm, RestFits, RevokeFits
<1> HIDE DEF new
<1>9. \A x \in tasks' :
              \/ x \in tasks /\ (x.again => lock' = lock /\ vless'.ver = vless.ver)
              \/ ~x.want /\ ~x.again /\ RestFits(x) /\ RevokeFits(x)
                 /\ x.ver <= vless'.ver
  BY <1>1, <1>7, <1>8 DEF Sync!Replace
<1> QED BY <1>1, <1>3, <1>6, <1>9, MovesCalls

LEMMA NodeCalls ==
    ASSUME Sync!SyncConstants, UseInv, UseInv', CallsInv,
           Sync!Crash \/ \E n \in Nodes : Sync!EpochSeen(n) \/ Sync!NodeRestarts(n)
    PROVE  CallsInv'
<1>0. vless.ver \in Int /\ vless.synced <= vless.ver
  BY CallsFacts DEF CallsInv
<1>1. CASE Sync!Crash
  <2>1. tasks' = {} /\ UNCHANGED <<vless, fresh, node>>
    BY <1>1 DEF Sync!Crash
  <2>2. GoneOff'
    BY <2>1 DEF GoneOff, Gone, Used, Out, CallsInv
  <2> QED BY <1>0, <2>1, <2>2 DEF CallsInv, AgainOnce
<1>2. CASE \E n \in Nodes : Sync!EpochSeen(n)
  <2>1. UNCHANGED <<vless, fresh, node, tasks, lock>>
    BY <1>2 DEF Sync!EpochSeen
  <2> QED BY <1>0, <2>1, MovesCalls DEF CallsInv
<1>3. CASE \E n \in Nodes : Sync!NodeRestarts(n)
  <2>1. PICK n \in Nodes : Sync!NodeRestarts(n)
    BY <1>3
  <2>2. UNCHANGED <<vless, fresh, tasks, lock>>
    BY <2>1 DEF Sync!NodeRestarts
  <2>3. ASSUME NEW m \in Nodes, NEW u \in Sync!Uuids
        PROVE  /\ node'[m].client[u].ver = node[m].client[u].ver
               /\ node'[m].client[u].on => node[m].client[u].on
    <3>1. node' = [node EXCEPT ![n] = [gen |-> node[n].gen + 1,
                   client |-> [w \in Sync!Uuids |-> [node[n].client[w] EXCEPT !.on = FALSE]]]]
      BY <2>1 DEF Sync!NodeRestarts
    <3>2. node[m].client[u] \in [ver : 0..MaxVersion, on : BOOLEAN]
      BY DEF UseInv, Shapes, NodeType
    <3>3. CASE m = n
      <4>1. node'[m].client[u] = [node[m].client[u] EXCEPT !.on = FALSE]
        BY <3>1, <3>3 DEF UseInv, Shapes, NodeType
      <4> QED BY <3>2, <4>1
    <3>4. CASE m # n
      BY <3>1, <3>4 DEF UseInv, Shapes, NodeType
    <3> QED BY <3>3, <3>4
  <2>4. ASSUME NEW x \in tasks' PROVE (CallFits(x) /\ RestFits(x) /\ RevokeFits(x))'
    <3>1. CallFits(x) /\ RestFits(x) /\ RevokeFits(x) /\ TaskFits(x) /\ Used \subseteq Sync!Uuids
      BY <2>2, CallsFacts DEF CallsInv, UseInv
    <3>2. CallFits(x)' /\ RestFits(x)'
      BY <2>2, <3>1 DEF CallFits, RestFits, Out
    <3>3. RevokeFits(x)'
      BY <2>2, <2>3, <3>1 DEF RevokeFits, Out, OffAt, TaskFits
    <3> QED BY <3>2, <3>3
  <2>5. GoneOff'
    <3>1. SUFFICES ASSUME NEW u \in Used', NEW m \in Nodes, Gone(u)'
                   PROVE  (~node[m].client[u].on /\ Out(u, node[m].client[u].ver))'
      BY DEF GoneOff
    <3>2. Gone(u) /\ u \in Used /\ u \in Sync!Uuids
      BY <2>2, <3>1 DEF Gone, Used
    <3>3. ~node[m].client[u].on /\ Out(u, node[m].client[u].ver)
      BY <3>2 DEF CallsInv, GoneOff
    <3> QED BY <2>2, <2>3, <3>2, <3>3 DEF Out
  <2>6. AgainOnce'
    BY <2>2 DEF AgainOnce, CallsInv
  <2> QED BY <1>0, <2>2, <2>4, <2>5, <2>6 DEF CallsInv
<1> QED BY <1>1, <1>2, <1>3

\* A uuid leaves the list only when every node has it off and outdated.
LEMMA FinishRevokeCalls ==
    ASSUME Sync!SyncConstants, UseInv, UseInv', CallsInv, NEW t \in tasks, Sync!FinishRevoke(t)
    PROVE  CallsInv'
<1>1. /\ Sync!Replace(t, {}) /\ UNCHANGED <<fresh, node, lock>> /\ t.kind = "revoke"
      /\ t.stage = "calling" /\ t.todo = {} /\ vless \in SubscriptionRow
      /\ vless' = [vless EXCEPT !.pending = Sync!Popped(t), !.synced = Sync!SyncedByRevoke(t)]
  BY CopyFacts DEF Sync!FinishRevoke, Sync!Called
<1>2. /\ vless'.uuid = vless.uuid /\ vless'.ver = vless.ver
      /\ vless'.synced = Sync!SyncedByRevoke(t) /\ vless'.pending = Sync!Popped(t)
  BY <1>1 DEF SubscriptionRow
<1>s. vless'.synced <= vless'.ver
  <2>1. CallFits(t) /\ vless.synced <= vless.ver
    BY DEF CallsInv
  <2>2. t.ver <= vless.ver
    BY <1>1, <2>1 DEF CallFits
  <2> QED BY <1>2, <2>1, <2>2 DEF Sync!SyncedByRevoke
<1>3. ASSUME NEW u, NEW v, Out(u, v) PROVE Out(u, v)'
  BY <1>1, <1>3 DEF Out, Sync!Replace
<1>4. ASSUME NEW x \in tasks' PROVE (CallFits(x) /\ RestFits(x) /\ RevokeFits(x))'
  <2>1. CallFits(x) /\ RestFits(x) /\ RevokeFits(x)
    BY <1>1, <1>4 DEF Sync!Replace, CallsInv
  <2> QED BY <1>1, <1>2, <1>3, <2>1 DEF CallFits, RestFits, RevokeFits, OffAt
<1>5. GoneOff'
  <2>1. SUFFICES ASSUME NEW u \in Used', NEW m \in Nodes, Gone(u)'
                 PROVE  (~node[m].client[u].on /\ Out(u, node[m].client[u].ver))'
    BY DEF GoneOff
  <2>2. u \in Used /\ u # vless.uuid /\ u \notin Sync!Popped(t)
    BY <1>1, <1>2, <2>1 DEF Gone, Used
  <2>3. ~node[m].client[u].on /\ Out(u, node[m].client[u].ver)
    <3>1. CASE u \notin vless.pending
      BY <2>2, <3>1 DEF CallsInv, GoneOff, Gone
    <3>2. CASE u \in vless.pending
      <4>1. t.fine /\ u = t.uuid
        BY <2>2, <3>2 DEF Sync!Popped
      <4>2. OffAt(t, m) /\ Out(u, t.ver)
        BY <1>1, <4>1 DEF CallsInv, RevokeFits
      <4>3. t.ver \in Int /\ node[m].client[u].ver \in Int /\ \A x \in tasks : x.ver \in Int
        BY <2>2, CallsFacts
      <4> QED BY <4>1, <4>2, <4>3 DEF OffAt, Out
    <3> QED BY <3>1, <3>2
  <2>4. PICK v : v = node[m].client[u].ver
    OBVIOUS
  <2>5. Out(u, v)'
    BY <1>3, <2>3, <2>4
  <2> QED BY <1>1, <2>3, <2>4, <2>5
<1>6. AgainOnce'
  BY <1>1 DEF AgainOnce, CallsInv, Sync!Replace
<1> QED BY <1>s, <1>2, <1>4, <1>5, <1>6 DEF CallsInv

LEMMA RotatesCalls ==
    ASSUME Sync!SyncConstants, UseInv, UseInv', CallsInv, Rotates,
           NEW u, NEW v, RotatesTo(u, v), RotatesWell(u, v)
    PROVE  CallsInv'
<1>0. /\ vless.ver \in Int /\ vless'.ver \in Int /\ vless.ver >= 1 /\ vless.synced \in Int
      /\ vless.synced <= vless.ver /\ vless \in SubscriptionRow /\ v \in Int /\ vless.uuid \in Used
      /\ \A x \in tasks : x.ver \in Int /\ x.want \in BOOLEAN
  BY CopyFacts, CallsFacts DEF UseInv, RowsOwn, RowOwn, SubscriptionRow, CallsInv, RotatesTo
<1>1. /\ vless'.uuid = fresh /\ vless'.pending = vless.pending \cup {vless.uuid} /\ vless.ver < v
      /\ v <= vless'.ver /\ vless.ver < vless'.ver /\ vless'.synced = vless.synced /\ u = vless.uuid
      /\ fresh \notin Used /\ fresh' = fresh + 1 /\ UNCHANGED <<node, lock>> /\ Sync!Free
      /\ Used' = Used \cup {fresh}
  <2>1. /\ vless'.uuid = fresh /\ vless'.pending = vless.pending \cup {vless.uuid} /\ vless.ver < v
        /\ v <= vless'.ver /\ vless'.synced = vless.synced /\ u = vless.uuid
        /\ fresh' = fresh + 1 /\ UNCHANGED <<node, lock>> /\ Sync!Free
        /\ fresh \in Sync!Uuids
    BY DEF Rotates, RotatesWell, Around
  <2>2. Used' = Used \cup {fresh} /\ fresh \notin Used
    BY <2>1 DEF Used, Sync!Uuids
  <2> QED BY <1>0, <2>1, <2>2
<1>2. ASSUME NEW x \in tasks PROVE ~x.again /\ CallFits(x) /\ RestFits(x) /\ RevokeFits(x)
                                   /\ (x.want => x.ver < vless'.ver)
  <2>1. CallFits(x) /\ RestFits(x) /\ RevokeFits(x) /\ ~x.again
    BY <1>1 DEF CallsInv, CallFits, Sync!Free
  <2> QED BY <1>0, <1>1, <2>1 DEF CallFits
<1>3. ASSUME NEW x \in tasks'
      PROVE  \/ x \in tasks
             \/ ~x.want /\ ~x.again /\ x.kind = "sync" /\ x.rest = {} /\ x.ver = 0
             \/ ~x.want /\ ~x.again /\ x.kind = "revoke" /\ x.stage = "queued"
                /\ x.uuid = vless.uuid /\ x.ver = v
  <2>1. PICK new : new \subseteq {Sync!SyncTask(b) : b \in BOOLEAN} /\ Sync!Queue({Sync!RevokeTask(u, v)} \cup new)
    BY DEF RotatesTo
  <2>2. \A b \in BOOLEAN : LET y == Sync!SyncTask(b) IN
           ~y.want /\ ~y.again /\ y.kind = "sync" /\ y.rest = {} /\ y.ver = 0
    BY SyncTaskIs DEF Calm
  <2>3. LET y == Sync!RevokeTask(u, v) IN
           ~y.want /\ ~y.again /\ y.kind = "revoke" /\ y.stage = "queued" /\ y.uuid = vless.uuid
           /\ y.ver = v
    BY <1>1, RevokeTaskIs, UsedFacts DEF Calm, RotatesTo
  <2> QED BY <2>1, <2>2, <2>3 DEF Sync!Queue
<1>4. ASSUME NEW w, NEW o, Out(w, o) PROVE Out(w, o)'
  BY <1>3, <1>4 DEF Out
<1>5. Out(vless.uuid, v)
  BY <1>0, <1>1, <1>2 DEF Out, CallFits
<1>6. ASSUME NEW x \in tasks' PROVE (CallFits(x) /\ RestFits(x) /\ RevokeFits(x))'
  <2>1. CASE x \in tasks
    <3>1. x.ver \in Int /\ TaskFits(x) /\ (x.want => x.ver < vless'.ver) /\ ~x.again
          /\ CallFits(x) /\ RestFits(x) /\ RevokeFits(x)
      BY <1>0, <1>2, <2>1 DEF UseInv
    <3>2. CallFits(x)'
      BY <1>0, <1>1, <3>1 DEF CallFits
    <3>3. RestFits(x)'
      BY <1>1, <1>4, <3>1 DEF RestFits, TaskFits
    <3>4. RevokeFits(x)'
      <4>1. SUFFICES ASSUME x.kind = "revoke" PROVE RevokeFits(x)'
        BY DEF RevokeFits
      <4>2. x.uuid # fresh /\ Out(x.uuid, x.ver)'
        BY <1>1, <1>4, <3>1, <4>1 DEF RevokeFits, TaskFits
      <4>3. ASSUME x.stage = "calling", x.fine, NEW n \in Nodes \ x.todo PROVE OffAt(x, n)'
        BY <1>1, <3>1, <4>1, <4>3 DEF RevokeFits, OffAt
      <4> QED BY <1>1, <4>2, <4>3 DEF RevokeFits
    <3> QED BY <3>2, <3>3, <3>4
  <2>2. CASE ~x.want /\ ~x.again /\ x.kind = "sync" /\ x.rest = {} /\ x.ver = 0
    BY <1>0, <1>1, <2>2 DEF CallFits, RestFits, RevokeFits
  <2>3. CASE ~x.want /\ ~x.again /\ x.kind = "revoke" /\ x.stage = "queued"
             /\ x.uuid = vless.uuid /\ x.ver = v
    <3>1. vless.uuid # vless'.uuid
      BY <1>0, <1>1
    <3>2. CallFits(x)' /\ RestFits(x)'
      BY <1>1, <2>3 DEF CallFits, RestFits
    <3>3. RevokeFits(x)'
      <4>1. PICK w : w = vless.uuid
        OBVIOUS
      <4>2. x.uuid = w /\ w # vless'.uuid /\ Out(w, v)'
        BY <2>3, <3>1, <4>1, <1>4, <1>5
      <4> QED BY <2>3, <4>2 DEF RevokeFits
    <3> QED BY <3>2, <3>3
  <2> QED BY <1>3, <2>1, <2>2, <2>3
<1>7. AgainOnce'
  BY <1>2, <1>3 DEF AgainOnce
<1>8. GoneOff'
  <2>1. SUFFICES ASSUME NEW w \in Used', NEW m \in Nodes, Gone(w)'
                 PROVE  (~node[m].client[w].on /\ Out(w, node[m].client[w].ver))'
    BY DEF GoneOff
  <2>2. w \in Used /\ Gone(w)
    BY <1>1, <2>1 DEF Gone
  <2>3. ~node[m].client[w].on /\ Out(w, node[m].client[w].ver)
    BY <2>2 DEF CallsInv, GoneOff
  <2>4. PICK o : o = node[m].client[w].ver
    OBVIOUS
  <2>5. Out(w, o)'
    BY <1>4, <2>3, <2>4
  <2> QED BY <1>1, <2>3, <2>4, <2>5
<1>9. (vless.synced <= vless.ver)'
  BY <1>0, <1>1
<1> QED BY <1>6, <1>7, <1>8, <1>9 DEF CallsInv


LEMMA OpensCalls ==
    ASSUME Sync!SyncConstants, UseInv, UseInv', CallsInv, UNCHANGED <<vless, fresh, node, tasks, lock>>
    PROVE  CallsInv'
BY CallsFacts, MovesCalls DEF CallsInv

LEMMA CallsStep ==
    ASSUME Sync!SyncConstants, UseInv, UseInv', CallsInv, [Sync!Next]_Sync!vars, ~stale'
    PROVE  CallsInv'
<1>0. vless.ver \in Int
  BY CallsFacts
<1>1. CASE Sync!TaskStep
  BY <1>1, StartSyncCalls, StartRevokeCalls, CallNodeCalls, RetrySyncCalls, FinishSyncCalls,
     FinishRevokeCalls, FinishBootCalls DEF Sync!TaskStep
<1>2. CASE UNCHANGED Sync!vars
  BY <1>2, OpensCalls DEF Sync!vars
<1>3. CASE Sync!SessionStep
  <2>1. CASE Sync!AdminVlessRotate \/ (Sync!AdminVlessHwidReset /\ vless.hwids)
    BY <2>1, AdminRotateIs, RotatesCalls DEF Sync!AdminVlessRotate, Sync!AdminVlessHwidReset
  <2>8. CASE Sync!AdminVlessHwidReset /\ ~vless.hwids
    <3>1. KeepsUuid /\ vless'.ver = vless.ver
      BY <2>8, EmptyResetIs DEF Sync!AdminVlessHwidReset
    <3> QED BY <1>0, <3>1, KeepsCalls
  <2>2. CASE Sync!FeedDeactivates
    <3>1. Sync!FreshCopy(other.copy)
      BY <2>2 DEF Sync!FeedDeactivates
    <3> QED BY <1>0, <2>2, <3>1, FeedDeactivatesIs, KeepsCalls
  <2>3. CASE Sync!BanUser
    <3>1. Sync!FreshCopy(edit.copy)
      BY <2>3 DEF Sync!BanUser
    <3> QED BY <2>3, <3>1, BanIs, RotatesCalls
  <2>4. CASE Sync!UnbanUser
    <3>1. Sync!FreshCopy(edit.copy)
      BY <2>4 DEF Sync!UnbanUser
    <3> QED BY <1>0, <2>4, <3>1, UnbanIs, KeepsCalls
  <2>5. CASE Sync!Renew
    <3>1. Sync!FreshCopy(edit.copy)
      BY <2>5 DEF Sync!Renew
    <3> QED BY <1>0, <2>5, <3>1, RenewIs, KeepsCalls
  <2>6. CASE Sync!NetworkGrace
    <3>1. Sync!FreshCopy(edit.copy)
      BY <2>6 DEF Sync!NetworkGrace
    <3> QED BY <1>0, <2>6, <3>1, NetworkGraceIs, KeepsCalls
  <2>7. CASE Sync!RetentionGrace
    <3>1. Sync!FreshCopy(edit.copy)
      BY <2>7 DEF Sync!RetentionGrace
    <3> QED BY <2>7, <3>1, RetentionIs, RotatesCalls
  <2> QED BY <1>3, <2>1, <2>2, <2>3, <2>4, <2>5, <2>6, <2>7, <2>8 DEF Sync!SessionStep
<1>4. CASE Sync!Requests
  <2>1. CASE Sync!VlessSubReset
    BY <2>1, ResetIs, RotatesCalls
  <2>2. CASE Sync!FeedServes
    BY <1>0, <2>2, FeedServesIs, KeepsCalls
  <2>3. CASE Sync!AdminOpens \/ Sync!FeedOpens \/ Sync!BanOpens \/ Sync!UnbanOpens \/ Sync!RenewOpens
             \/ Sync!RetentionOpens \/ Sync!TimePasses
    <3>1. UNCHANGED <<vless, fresh, node, tasks, lock>>
      BY <2>3 DEF Sync!AdminOpens, Sync!FeedOpens, Sync!BanOpens, Sync!UnbanOpens,
         Sync!RenewOpens,
                  Sync!RetentionOpens, Sync!TimePasses, Sync!UserLocked
    <3> QED BY <3>1, OpensCalls
  <2> QED BY <1>4, <2>1, <2>2, <2>3 DEF Sync!Requests
<1>5. CASE Sync!NetworkGraceOpens
  <2>1. UNCHANGED <<vless, fresh, node, tasks, lock>>
    BY <1>5 DEF Sync!NetworkGraceOpens, Sync!UserLocked
  <2> QED BY <2>1, OpensCalls
<1>6. CASE Sync!SweepRevocations \/ Sync!SweepOutOfSync \/ \E n \in Nodes : Sync!SyncAllActive(n)
  BY <1>6, WorkerCalls
<1>7. CASE Sync!Crash \/ \E n \in Nodes : Sync!EpochSeen(n) \/ Sync!NodeRestarts(n)
  BY <1>7, NodeCalls
<1> QED BY <1>1, <1>2, <1>3, <1>4, <1>5, <1>6, <1>7 DEF Sync!Next

LEMMA CallsInit == ASSUME Sync!SyncConstants, Sync!Init PROVE CallsInv
<1>1. ASSUME NEW u \in Used PROVE u = vless.uuid
  BY <1>1 DEF Sync!Init, Used, Sync!Uuids, Sync!SyncConstants
<1>2. GoneOff
  BY <1>1 DEF GoneOff, Gone
<1> QED BY <1>2 DEF CallsInv, AgainOnce, Sync!Init

\* Once a stale copy has been flushed, it has been.
LEMMA StaleStep ==
    ASSUME stale \in BOOLEAN, [Sync!Next]_Sync!vars
    PROVE  stale' \in BOOLEAN /\ (stale => stale')
<1>1. CASE Sync!TaskStep
  <2>1. PICK t \in tasks : \/ Sync!StartSync(t) \/ Sync!StartRevoke(t) \/ (\E n \in Nodes : Sync!CallNode(t, n))
                           \/ Sync!RetrySync(t) \/ Sync!FinishSync(t) \/ Sync!FinishRevoke(t)
                           \/ Sync!FinishBoot(t)
    BY <1>1 DEF Sync!TaskStep
  <2>2. CASE Sync!StartSync(t) \/ Sync!StartRevoke(t) \/ Sync!RetrySync(t)
    BY <2>2 DEF Sync!StartSync, Sync!StartRevoke, Sync!RetrySync
  <2>3. CASE \E n \in Nodes : Sync!CallNode(t, n)
    BY <2>3 DEF Sync!CallNode
  <2>4. CASE Sync!FinishSync(t) \/ Sync!FinishRevoke(t) \/ Sync!FinishBoot(t)
    BY <2>4 DEF Sync!FinishSync, Sync!FinishRevoke, Sync!FinishBoot
  <2> QED BY <2>1, <2>2, <2>3, <2>4
<1>2. CASE Sync!SessionStep
  BY <1>2 DEF Sync!SessionStep, Sync!AdminVlessRotate, Sync!AdminVlessHwidReset,
     Sync!AdminCommits, Sync!FeedDeactivates, Sync!BanUser,
     Sync!UnbanUser, Sync!Renew, Sync!NetworkGrace, Sync!RetentionGrace
<1>3. CASE Sync!Requests \/ Sync!NetworkGraceOpens
  BY <1>3 DEF Sync!Requests, Sync!NetworkGraceOpens, Sync!VlessSubReset, Sync!AdminOpens,
     Sync!FeedServes, Sync!FeedOpens, Sync!BanOpens, Sync!UnbanOpens, Sync!RenewOpens,
     Sync!RetentionOpens, Sync!TimePasses, Sync!UserLocked
<1>4. CASE Sync!SweepRevocations \/ Sync!SweepOutOfSync
  BY <1>4 DEF Sync!SweepRevocations, Sync!SweepOutOfSync, Sync!Work
<1>5. CASE \E n \in Nodes : Sync!SyncAllActive(n) \/ Sync!EpochSeen(n) \/ Sync!NodeRestarts(n)
  BY <1>5 DEF Sync!SyncAllActive, Sync!EpochSeen, Sync!NodeRestarts
<1>6. CASE Sync!Crash \/ UNCHANGED Sync!vars
  BY <1>6 DEF Sync!Crash, Sync!vars
<1> QED BY <1>1, <1>2, <1>3, <1>4, <1>5, <1>6 DEF Sync!Next

\* What holds of the tasks holds as long as no update of the row was lost.
CredentialsInv == UseInv /\ stale \in BOOLEAN /\ (~stale => CallsInv)

LEMMA CredentialsMean ==
    ASSUME Sync!SyncConstants, CredentialsInv PROVE Sync!TypeOK /\ Sync!CredentialsKept
<1>1. Sync!TypeOK
  <2>1. vless \in SubscriptionRow /\ RowOwn(vless) /\ Shapes
    BY CopyFacts DEF UseInv, CredentialsInv
  <2>2. \A n \in Nodes, u \in Sync!Uuids : node[n].client[u].ver \in 0..MaxVersion
    BY <2>1 DEF Shapes, NodeType
  <2> QED BY <2>1, <2>2 DEF Sync!TypeOK, Shapes, RowOwn, SubscriptionRow, Used, CredentialsInv
<1>2. ~stale => Sync!CredentialListed
  BY DEF Sync!CredentialListed, CallsInv, GoneOff, Gone, UseInv, Shapes, CredentialsInv
<1>3. Sync!InUseNotRevoked
  BY DEF UseInv, RowsOwn, RowOwn, Sync!InUseNotRevoked, CredentialsInv
<1>4. ~stale => Sync!SyncedInTurn
  BY DEF CredentialsInv, CallsInv, Sync!SyncedInTurn
<1> QED BY <1>1, <1>2, <1>3, <1>4 DEF Sync!CredentialsKept

\* reset_hwids, rotate_token, ensure_synced and deprovision: a credential that a
\* device was given and that some node still serves is the one in use, or waits
\* in the list of revocations, whatever answers are lost, processes die and
\* nodes restart, for any nodes, as long as no update of the row was lost; no
\* sync and no revocation is recorded with a version the row has not reached; and
\* the one in use is never in the list.
THEOREM CredentialsSafe ==
    ASSUME Sync!SyncConstants
    PROVE  Sync!Spec => [](Sync!TypeOK /\ Sync!CredentialsKept) /\ []CredentialsKept
<1>1. Sync!Init => CredentialsInv
  BY UseInit, CallsInit DEF CredentialsInv, Sync!Init
<1>2. CredentialsInv /\ [Sync!Next]_Sync!vars => CredentialsInv'
  BY UseStep, CallsStep, StaleStep DEF CredentialsInv
<1>3. CredentialsInv => (Sync!TypeOK /\ Sync!CredentialsKept) /\ CredentialsKept
  BY CredentialsMean DEF CredentialsKept
<1> QED BY <1>1, <1>2, <1>3, PTL DEF Sync!Spec

-----------------------------------------------------------------------------
\* The traffic.

\* What a node said and has counted; the answers of a pass carry the uuid, too.
Reading == [epoch : Nat, count : Nat]
Answer == [uuid : Nat, epoch : Nat, count : Nat]
TrafficRow == [uuid : Nat, fresh : BOOLEAN, snaps : [Metered -> Reading \cup {None}]]
Pass == [got : [Metered -> Answer \cup {None}], ask : SUBSET Metered, rest : SUBSET Metered,
         at : Traffic!Months, of : Metered \cup {None}, delta : Nat]
Account == [total : Nat, month : Nat, cycle : 0..MaxMonth]

\* The answers of a pass that are still to be recorded are about a uuid of the row.
PassFits ==
    job # Idle =>
      /\ job \in Pass /\ job.ask \cap job.rest = {}
      /\ \A n \in job.rest : job.got[n] \in Answer /\ job.got[n].uuid <= vless.uuid

TrafficShape ==
    /\ vless \in TrafficRow /\ user \in Account /\ user.month <= user.total
    /\ sums \in [Metered -> [cycle : 0..MaxMonth, bytes : Nat]]
    /\ node \in [Metered -> Reading] /\ served \in 0..MaxServed
    /\ \A n \in Metered : node[n].count <= served
    /\ \A n \in Metered : vless.snaps[n] \in Reading => vless.snaps[n].count <= served
    /\ month \in Traffic!Months /\ broke \in BOOLEAN /\ PassFits
    /\ job # Idle => \A n \in job.rest : job.got[n].count <= served

\* Alerts on their way are of marked months, one for each; a month that is not
\* marked, or whose alert is on its way, was told only before a restart.
Sent(m) == \E a \in sending : a[1] = m
AlertsFit ==
    /\ alerted \subseteq Traffic!Months /\ sending \subseteq Traffic!Months \X Metered
    /\ crashes \in Nat /\ told \in [Traffic!Months -> Nat]
    /\ \A a \in sending : a[1] \in alerted
    /\ \A a, b \in sending : a[1] = b[1] => a = b
    /\ \A m \in Traffic!Months : /\ told[m] <= 1 + crashes
                                 /\ m \notin alerted \/ Sent(m) => told[m] <= crashes

-----------------------------------------------------------------------------
\* Sums over the nodes are counted as pairs of a node and a number, because the
\* provers have no induction over a set: the pairs between two marks of each node.
Wide == 2 * MaxServed + 1
Between(low, high) == {b \in Metered \X (1..Wide) : low[b[1]] < b[2] /\ b[2] <= high[b[1]]}
Zero == [n \in Metered |-> 0]

LEMMA SetsCount ==
    /\ \A S : Traffic!Cardinality(S) = Cardinality(S)
    /\ \A S : Traffic!IsFiniteSet(S) <=> IsFiniteSet(S)
<1>1. \A S : Traffic!IsFiniteSet(S) <=> IsFiniteSet(S)
  BY DEF Traffic!IsFiniteSet, IsFiniteSet
<1>2. \A S : Traffic!Cardinality(S) = Cardinality(S)
  BY DEF Traffic!Cardinality, Cardinality
<1> QED BY <1>1, <1>2

LEMMA WideIs == ASSUME Traffic!TrafficConstants PROVE Wide \in Nat /\ IsFiniteSet(Metered)
BY SetsCount DEF Traffic!TrafficConstants, Wide

LEMMA BetweenFinite ==
    ASSUME Traffic!TrafficConstants, NEW low, NEW high
    PROVE  IsFiniteSet(Between(low, high)) /\ Cardinality(Between(low, high)) \in Nat
<1>1. IsFiniteSet(1..Wide)
  BY WideIs, FS_Interval
<1>2. IsFiniteSet(Metered \X (1..Wide))
  BY <1>1, WideIs, FS_Product
<1>3. Between(low, high) \in SUBSET (Metered \X (1..Wide))
  BY DEF Between
<1> QED BY <1>2, <1>3, FS_Subset, FS_CardinalityType

\* Wider marks hold more pairs.
LEMMA BetweenMono ==
    ASSUME Traffic!TrafficConstants, NEW low \in [Metered -> Nat], NEW high \in [Metered -> Nat],
           NEW more \in [Metered -> Nat], \A n \in Metered : high[n] <= more[n]
    PROVE  Cardinality(Between(low, high)) <= Cardinality(Between(low, more))
<1>1. Between(low, high) \in SUBSET Between(low, more)
  BY WideIs DEF Between
<1> QED BY <1>1, BetweenFinite, FS_Subset

\* The pairs of one node.
ColumnOf(n, a, b) == {n} \X ((a + 1)..b)

LEMMA Column ==
    ASSUME NEW S, IsFiniteSet(S), NEW n, NEW a \in Nat, NEW b \in Nat, a <= b,
           S \cap ColumnOf(n, a, b) = {}
    PROVE  Cardinality(S \cup ColumnOf(n, a, b)) = Cardinality(S) + (b - a)
<1> DEFINE C == {n} \X ((a + 1)..b)
<1>0. \A x, y \in Int : IsFiniteSet(x..y) /\ Cardinality(x..y) = IF x > y THEN 0 ELSE y - x + 1
  BY FS_Interval
<1>1. IsFiniteSet((a + 1)..b) /\ Cardinality((a + 1)..b) = b - a
  <2>1. PICK c : c = a + 1
    OBVIOUS
  <2>2. c \in Int /\ b \in Int /\ (IF c > b THEN 0 ELSE b - c + 1) = b - a
    BY <2>1
  <2> QED BY <1>0, <2>1, <2>2
<1>2. IsFiniteSet({n}) /\ Cardinality({n}) = 1
  BY FS_Singleton
<1>3. IsFiniteSet(C) /\ Cardinality(C) = 1 * (b - a)
  <2>1. PICK T : T = (a + 1)..b
    OBVIOUS
  <2>2. IsFiniteSet({n} \X T) /\ Cardinality({n} \X T) = Cardinality({n}) * Cardinality(T)
    BY <1>1, <1>2, <2>1, FS_Product
  <2> QED BY <1>1, <1>2, <2>1, <2>2
<1>4. Cardinality(S \cup C) = Cardinality(S) + Cardinality(C) - Cardinality(S \cap C)
  BY <1>3, FS_Union
<1>5. Cardinality(S \cap C) = 0 /\ Cardinality(S) \in Nat
  BY FS_EmptySet, FS_CardinalityType DEF ColumnOf
<1> QED BY <1>3, <1>4, <1>5 DEF ColumnOf

\* Raising the upper mark of one node.
LEMMA Raised ==
    ASSUME Traffic!TrafficConstants, NEW low \in [Metered -> Nat], NEW high \in [Metered -> Nat],
           NEW more \in [Metered -> 0..Wide], NEW n \in Metered,
           \A q \in Metered \ {n} : more[q] = high[q], low[n] <= high[n], high[n] <= more[n]
    PROVE  Cardinality(Between(low, more)) = Cardinality(Between(low, high)) + (more[n] - high[n])
<1> DEFINE C == {n} \X ((high[n] + 1)..more[n])
<1>1. Between(low, more) = Between(low, high) \cup C
  <2>1. ASSUME NEW b \in C PROVE b \in Between(low, more)
    BY <2>1, WideIs DEF Between
  <2>2. ASSUME NEW b \in Between(low, high) PROVE b \in Between(low, more)
    BY <2>2, WideIs DEF Between
  <2>3. ASSUME NEW b \in Between(low, more) PROVE b \in Between(low, high) \cup C
    <3>1. PICK q \in Metered, k \in 1..Wide : b = <<q, k>> /\ low[q] < k /\ k <= more[q]
      BY <2>3 DEF Between
    <3>2. CASE q # n
      BY <3>1, <3>2 DEF Between
    <3>3. CASE q = n
      BY <3>1, <3>3, WideIs DEF Between
    <3> QED BY <3>2, <3>3
  <2> QED BY <2>1, <2>2, <2>3
<1>2. Between(low, high) \cap C = {}
  BY WideIs DEF Between
<1>3. high[n] \in Nat /\ more[n] \in Nat
  BY WideIs
<1>4. Cardinality(Between(low, high) \cup C) = Cardinality(Between(low, high)) + (more[n] - high[n])
  <2>1. PICK S, a, b : S = Between(low, high) /\ a = high[n] /\ b = more[n]
    OBVIOUS
  <2>2. IsFiniteSet(S) /\ a \in Nat /\ b \in Nat /\ a <= b /\ S \cap ColumnOf(n, a, b) = {}
    BY <1>2, <1>3, <2>1, BetweenFinite DEF ColumnOf
  <2>3. Cardinality(S \cup ColumnOf(n, a, b)) = Cardinality(S) + (b - a)
    BY <2>2, Column
  <2> QED BY <2>1, <2>3 DEF ColumnOf
<1> QED BY <1>1, <1>4

\* Raising the lower mark of one node.
LEMMA Lowered ==
    ASSUME Traffic!TrafficConstants, NEW low \in [Metered -> Nat], NEW mid \in [Metered -> Nat],
           NEW high \in [Metered -> 0..Wide], NEW n \in Metered,
           \A q \in Metered \ {n} : mid[q] = low[q], low[n] <= mid[n], mid[n] <= high[n]
    PROVE  Cardinality(Between(low, high)) = Cardinality(Between(mid, high)) + (mid[n] - low[n])
<1> DEFINE C == {n} \X ((low[n] + 1)..mid[n])
<1>0. high \in [Metered -> Nat]
  BY WideIs
<1>1. Between(low, high) = Between(mid, high) \cup C
  <2>1. ASSUME NEW b \in C PROVE b \in Between(low, high)
    BY <2>1, WideIs DEF Between
  <2>2. ASSUME NEW b \in Between(mid, high) PROVE b \in Between(low, high)
    BY <2>2, WideIs DEF Between
  <2>3. ASSUME NEW b \in Between(low, high) PROVE b \in Between(mid, high) \cup C
    <3>1. PICK q \in Metered, k \in 1..Wide : b = <<q, k>> /\ low[q] < k /\ k <= high[q]
      BY <2>3 DEF Between
    <3>2. CASE q # n
      BY <3>1, <3>2 DEF Between
    <3>3. CASE q = n
      BY <3>1, <3>3, WideIs DEF Between
    <3> QED BY <3>2, <3>3
  <2> QED BY <2>1, <2>2, <2>3
<1>2. Between(mid, high) \cap C = {}
  BY WideIs DEF Between
<1>3. Cardinality(Between(mid, high) \cup C) = Cardinality(Between(mid, high)) + (mid[n] - low[n])
  <2>1. PICK S, a, b : S = Between(mid, high) /\ a = low[n] /\ b = mid[n]
    OBVIOUS
  <2>2. IsFiniteSet(S) /\ a \in Nat /\ b \in Nat /\ a <= b /\ S \cap ColumnOf(n, a, b) = {}
    BY <1>0, <1>2, <2>1, BetweenFinite DEF ColumnOf
  <2>3. Cardinality(S \cup ColumnOf(n, a, b)) = Cardinality(S) + (b - a)
    BY <2>2, Column
  <2> QED BY <2>1, <2>3 DEF ColumnOf
<1> QED BY <1>1, <1>3

-----------------------------------------------------------------------------
\* No reading is the empty one.
LEMMA NoReading == ASSUME Traffic!TrafficConstants PROVE None \notin Reading
BY DEF Traffic!TrafficConstants, Reading

\* What is counted since a snapshot: never more than the counter shows.
LEMMA DeltaIs ==
    ASSUME Traffic!TrafficConstants, vless.fresh \in BOOLEAN, NEW old \in Reading \cup {None},
           NEW new, new.epoch \in Nat, new.count \in Nat
    PROVE  /\ Traffic!Delta(old, new) \in 0..new.count
           /\ old = None => Traffic!Delta(old, new) = IF vless.fresh THEN new.count ELSE 0
           /\ old # None /\ (old.epoch # new.epoch \/ new.count < old.count) =>
                 Traffic!Delta(old, new) = new.count
           /\ old # None /\ old.epoch = new.epoch /\ new.count >= old.count =>
                 Traffic!Delta(old, new) = new.count - old.count
<1>1. CASE old = None
  BY <1>1 DEF Traffic!Delta
<1>2. CASE old # None
  <2>1. old \in Reading /\ old.count \in Nat
    BY <1>2 DEF Reading
  <2>2. CASE old.epoch # new.epoch \/ new.count < old.count
    BY <1>2, <2>1, <2>2 DEF Traffic!Delta
  <2>3. CASE ~(old.epoch # new.epoch \/ new.count < old.count)
    <3>1. Traffic!Delta(old, new) = new.count - old.count
      BY <1>2, <2>3 DEF Traffic!Delta
    <3> QED BY <1>2, <2>1, <2>3, <3>1
  <2> QED BY <2>2, <2>3
<1> QED BY <1>1, <1>2

\* What the steps of a pass do to it.
LEMMA BeginsIs ==
    ASSUME Traffic!PassBegins
    PROVE  /\ job' = [got |-> Traffic!NoSnaps, ask |-> Metered, rest |-> {}, at |-> month,
                      of |-> None, delta |-> 0]
           /\ UNCHANGED <<vless, user, sums, node, month, alerted, sending, served, broke, told, crashes>>
BY DEF Traffic!PassBegins

LEMMA AsksIs ==
    ASSUME TrafficShape, NEW n \in Metered, Traffic!Asks(n)
    PROVE  /\ job # Idle /\ job \in Pass /\ n \in job.ask
           /\ UNCHANGED <<vless, user, sums, node, month, alerted, sending, served, broke, told, crashes>>
           /\ job'.ask = job.ask \ {n} /\ job'.at = month /\ job'.of = job.of /\ job'.delta = job.delta
           /\ job' \in Pass
           /\ \/ /\ job'.rest = job.rest \cup {n}
                 /\ job'.got = [job.got EXCEPT ![n] =
                       [uuid |-> vless.uuid, epoch |-> node[n].epoch, count |-> node[n].count]]
              \/ job'.rest = job.rest /\ job'.got = job.got
<1> DEFINE ans == [uuid |-> vless.uuid, epoch |-> node[n].epoch, count |-> node[n].count]
           a == [job EXCEPT !.ask = job.ask \ {n}]
           b == [a EXCEPT !.at = month]
           c == [b EXCEPT !.rest = job.rest \cup {n}]
           got == [job.got EXCEPT ![n] = ans]
           d == [c EXCEPT !.got = got]
<1>1. job # Idle /\ job \in Pass /\ n \in job.ask /\ month \in Traffic!Months /\ ans \in Answer
      /\ UNCHANGED <<vless, user, sums, node, month, alerted, sending, served, broke, told, crashes>>
  BY DEF Traffic!Asks, TrafficShape, PassFits, TrafficRow, Reading, Answer
<1>2. job' = d \/ job' = b
  BY <1>1 DEF Traffic!Asks, Pass
<1> HIDE DEF ans
<1>3. got \in [Metered -> Answer \cup {None}]
  BY <1>1 DEF Pass
<1> HIDE DEF got
<1>4. a \in Pass /\ a.ask = job.ask \ {n} /\ a.at = job.at /\ a.of = job.of /\ a.delta = job.delta
      /\ a.rest = job.rest /\ a.got = job.got
  BY <1>1 DEF Pass
<1> HIDE DEF a
<1>5. b \in Pass /\ b.ask = job.ask \ {n} /\ b.at = month /\ b.of = job.of /\ b.delta = job.delta
      /\ b.rest = job.rest /\ b.got = job.got
  BY <1>1, <1>4 DEF Pass
<1> HIDE DEF b
<1>6. c \in Pass /\ c.ask = job.ask \ {n} /\ c.at = month /\ c.of = job.of /\ c.delta = job.delta
      /\ c.rest = job.rest \cup {n} /\ c.got = job.got
  BY <1>1, <1>5 DEF Pass
<1> HIDE DEF c
<1>7. d \in Pass /\ d.ask = job.ask \ {n} /\ d.at = month /\ d.of = job.of /\ d.delta = job.delta
      /\ d.rest = job.rest \cup {n} /\ d.got = got
  BY <1>3, <1>6 DEF Pass
<1> HIDE DEF d
<1>8. d.got = [job.got EXCEPT ![n] = [uuid |-> vless.uuid, epoch |-> node[n].epoch, count |-> node[n].count]]
  BY <1>7 DEF got, ans
<1> QED BY <1>1, <1>2, <1>5, <1>7, <1>8

\* What is recorded of the answer of a node.
Due(n) == IF Traffic!SameUuid(job.got[n]) THEN Traffic!Delta(vless.snaps[n], job.got[n]) ELSE 0

LEMMA RecordsIs ==
    ASSUME Traffic!TrafficConstants, TrafficShape, NEW n \in Metered, Traffic!Records(n)
    PROVE  /\ job # Idle /\ job \in Pass /\ n \in job.rest /\ job.of = None
           /\ job.got[n] \in Answer /\ job.got[n].count <= served
           /\ job' \in Pass /\ job'.rest = job.rest \ {n} /\ job'.ask = job.ask /\ job'.got = job.got
           /\ job'.at = job.at
           /\ UNCHANGED <<sums, node, month, alerted, sending, served, broke, told, crashes>>
           /\ Due(n) \in 0..job.got[n].count
           /\ \/ /\ vless' = IF Traffic!SameUuid(job.got[n])
                             THEN [vless EXCEPT !.snaps[n] = [epoch |-> job.got[n].epoch, count |-> job.got[n].count]]
                             ELSE vless
                 /\ user' = Traffic!Charged(Due(n))
              \/ UNCHANGED <<vless, user>>
<1>1. /\ job # Idle /\ job \in Pass /\ n \in job.rest /\ job.got[n] \in Answer /\ job.got[n].count <= served
      /\ vless \in TrafficRow /\ job.of = None
      /\ UNCHANGED <<sums, node, month, alerted, sending, served, broke, told, crashes>>
  BY DEF Traffic!Records, TrafficShape, PassFits
<1>2. Due(n) \in 0..job.got[n].count
  BY <1>1, DeltaIs DEF Due, TrafficRow, Answer
<1> DEFINE o == IF Due(n) > 0 THEN n ELSE None
           a == [job EXCEPT !.delta = Due(n)]
           b == [a EXCEPT !.rest = job.rest \ {n}]
           c == [b EXCEPT !.of = o]
           e == [job EXCEPT !.rest = job.rest \ {n}]
<1>3. \/ /\ job' = c /\ user' = Traffic!Charged(Due(n))
         /\ vless' = IF Traffic!SameUuid(job.got[n])
                     THEN [vless EXCEPT !.snaps[n] = [epoch |-> job.got[n].epoch, count |-> job.got[n].count]]
                     ELSE vless
      \/ job' = e /\ UNCHANGED <<vless, user>>
  BY <1>1 DEF Traffic!Records, Due, Pass
<1>4. e \in Pass /\ e.rest = job.rest \ {n} /\ e.ask = job.ask /\ e.got = job.got /\ e.at = job.at
  BY <1>1 DEF Pass
<1> HIDE DEF e
<1>5. a \in Pass /\ a.rest = job.rest /\ a.ask = job.ask /\ a.got = job.got /\ a.at = job.at
  BY <1>1, <1>2 DEF Pass, Answer
<1> HIDE DEF a
<1>6. b \in Pass /\ b.rest = job.rest \ {n} /\ b.ask = job.ask /\ b.got = job.got /\ b.at = job.at
  BY <1>1, <1>5 DEF Pass
<1> HIDE DEF b
<1>7. o \in Metered \cup {None}
  OBVIOUS
<1> HIDE DEF o
<1>8. c \in Pass /\ c.rest = job.rest \ {n} /\ c.ask = job.ask /\ c.got = job.got /\ c.at = job.at
  BY <1>6, <1>7 DEF Pass
<1> HIDE DEF c
<1> QED BY <1>1, <1>2, <1>3, <1>4, <1>8

LEMMA ChargedIs ==
    ASSUME user \in Account, user.month <= user.total, job \in Pass, NEW d \in Nat
    PROVE  /\ Traffic!Charged(d) \in Account /\ Traffic!Charged(d).month <= Traffic!Charged(d).total
           /\ Traffic!Charged(d).total = user.total + d
<1>1. CASE d = 0
  BY <1>1 DEF Traffic!Charged, Account
<1>2. CASE d # 0
  <2> DEFINE m == CASE user.cycle > job.at -> user.month
                    [] user.cycle = job.at -> user.month + d
                    [] OTHER               -> d
             c == IF user.cycle > job.at THEN user.cycle ELSE job.at
  <2>1. Traffic!Charged(d) = [total |-> user.total + d, month |-> m, cycle |-> c]
    BY <1>2 DEF Traffic!Charged
  <2>2. user.cycle \in 0..MaxMonth /\ job.at \in 1..MaxMonth /\ user.total \in Nat /\ user.month \in Nat
    BY DEF Account, Pass, Traffic!Months
  <2>3. c \in 0..MaxMonth
    BY <2>2
  <2>4. m \in Nat /\ m <= user.total + d
    <3>1. CASE user.cycle > job.at
      BY <2>2, <3>1
    <3>2. CASE user.cycle = job.at
      BY <2>2, <3>2
    <3>3. CASE user.cycle < job.at
      BY <2>2, <3>3
    <3> QED BY <2>2, <3>1, <3>2, <3>3
  <2> HIDE DEF m, c
  <2> QED BY <2>1, <2>2, <2>3, <2>4 DEF Account
<1> QED BY <1>1, <1>2

LEMMA SumsUpIs ==
    ASSUME TrafficShape, Traffic!SumsUp
    PROVE  /\ job \in Pass /\ job' \in Pass /\ job'.rest = job.rest /\ job'.ask = job.ask
           /\ job'.got = job.got /\ job # Idle
           /\ sums' \in [Metered -> [cycle : 0..MaxMonth, bytes : Nat]]
           /\ UNCHANGED <<vless, user, node, month, alerted, sending, served, broke, told, crashes>>
<1>1. job # Idle /\ job \in Pass /\ sums \in [Metered -> [cycle : 0..MaxMonth, bytes : Nat]]
      /\ UNCHANGED <<vless, user, node, month, alerted, sending, served, broke, told, crashes>>
  BY DEF Traffic!SumsUp, TrafficShape, PassFits
<1> DEFINE a == [job EXCEPT !.delta = 0]
           b == [a EXCEPT !.of = None]
           n == job.of
<1>2. /\ \/ sums' = [sums EXCEPT ![n] =
                  [cycle |-> job.at, bytes |-> job.delta + IF @.cycle = job.at THEN @.bytes ELSE 0]]
         \/ UNCHANGED sums
      /\ job' = a \/ job' = b
  <2>1. [job EXCEPT !.delta = 0, !.of = None] = b
    BY <1>1 DEF Pass
  <2> QED BY <2>1 DEF Traffic!SumsUp
<1>3. a \in Pass /\ a.rest = job.rest /\ a.ask = job.ask /\ a.got = job.got
  BY <1>1 DEF Pass
<1> HIDE DEF a
<1>4. b \in Pass /\ b.rest = job.rest /\ b.ask = job.ask /\ b.got = job.got
  BY <1>3 DEF Pass
<1> HIDE DEF b
<1>5. job.at \in 0..MaxMonth /\ job.delta \in Nat
  BY <1>1 DEF Pass, Traffic!Months
<1> HIDE DEF n
<1>6. sums' \in [Metered -> [cycle : 0..MaxMonth, bytes : Nat]]
  BY <1>1, <1>2, <1>5
<1> QED BY <1>1, <1>2, <1>3, <1>4, <1>6

LEMMA LooksIs ==
    ASSUME TrafficShape, Traffic!LooksAtQuota
    PROVE  /\ job \in Pass /\ job' \in Pass /\ job'.rest = job.rest /\ job'.ask = job.ask
           /\ job'.got = job.got /\ job # Idle
           /\ job.of \in Metered /\ job.at \in Traffic!Months
           /\ \/ /\ job.at \notin alerted /\ alerted' = alerted \cup {job.at}
                 /\ sending' = sending \cup {<<job.at, job.of>>}
              \/ UNCHANGED <<alerted, sending>>
           /\ UNCHANGED <<vless, user, sums, node, month, served, broke, told, crashes>>
<1>1. job # Idle /\ job \in Pass /\ job.of # None
  BY DEF Traffic!LooksAtQuota, TrafficShape, PassFits
<1> DEFINE a == [job EXCEPT !.of = None]
<1>2. a \in Pass /\ a.rest = job.rest /\ a.ask = job.ask /\ a.got = job.got
  BY <1>1 DEF Pass
<1>3. job' = a
  BY DEF Traffic!LooksAtQuota
<1>4. /\ \/ /\ job.at \notin alerted /\ alerted' = alerted \cup {job.at}
            /\ sending' = sending \cup {<<job.at, job.of>>}
         \/ UNCHANGED <<alerted, sending>>
      /\ UNCHANGED <<vless, user, sums, node, month, served, broke, told, crashes>>
  BY DEF Traffic!LooksAtQuota, Traffic!Marked
<1> QED BY <1>1, <1>2, <1>3, <1>4 DEF Pass

\* The other steps do not touch the pass, or end it.
LEMMA ShapeInit ==
    ASSUME Traffic!TrafficConstants, Traffic!Init PROVE TrafficShape /\ AlertsFit
<1>1. 1 \in Traffic!Months /\ MaxServed \in Nat
  BY DEF Traffic!TrafficConstants, Traffic!Months
<1>2. vless \in TrafficRow /\ (\A n \in Metered : vless.snaps[n] \notin Reading)
  BY NoReading DEF Traffic!Init, Traffic!NoSnaps, TrafficRow
<1>3. node \in [Metered -> Reading] /\ \A n \in Metered : node[n].count = 0
  BY DEF Traffic!Init, Reading
<1>4. sums \in [Metered -> [cycle : 0..MaxMonth, bytes : Nat]] /\ user \in Account
      /\ user.month <= user.total /\ broke \in BOOLEAN
  <2>1. 0 \in 0..MaxMonth /\ broke \in BOOLEAN
    BY DEF Traffic!Init, Traffic!TrafficConstants
  <2>2. sums = [n \in Metered |-> [cycle |-> 0, bytes |-> 0]] /\ user = [total |-> 0, month |-> 0, cycle |-> 0]
    BY DEF Traffic!Init
  <2> QED BY <2>1, <2>2 DEF Account
<1>5. AlertsFit
  BY <1>1 DEF Traffic!Init, AlertsFit, Sent
<1> QED BY <1>1, <1>2, <1>3, <1>4, <1>5 DEF TrafficShape, PassFits, Traffic!Init

LEMMA ServesIs ==
    ASSUME TrafficShape, NEW n \in Metered, Traffic!Serves(n)
    PROVE  /\ served < MaxServed /\ served' = served + 1 /\ node' \in [Metered -> Reading]
           /\ node'[n].epoch = node[n].epoch /\ node'[n].count = node[n].count + 1
           /\ \A q \in Metered \ {n} : node'[q] = node[q]
           /\ UNCHANGED <<vless, user, sums, job, month, alerted, sending, broke, told, crashes>>
BY DEF Traffic!Serves, TrafficShape, Reading

LEMMA AnewIs ==
    ASSUME TrafficShape, NEW n \in Metered, Traffic!StartsAnew(n)
    PROVE  /\ broke' = TRUE /\ node' \in [Metered -> Reading] /\ node'[n].count = 0
           /\ \A q \in Metered \ {n} : node'[q] = node[q]
           /\ UNCHANGED <<vless, user, sums, job, month, alerted, sending, served, told, crashes>>
BY DEF Traffic!StartsAnew, TrafficShape, Reading

LEMMA RotatesIs ==
    ASSUME TrafficShape, Traffic!Rotates
    PROVE  /\ broke' = TRUE /\ node' \in [Metered -> Reading] /\ \A n \in Metered : node'[n].count = 0
           /\ vless' \in TrafficRow /\ vless'.uuid = vless.uuid + 1 /\ vless'.fresh
           /\ \A n \in Metered : vless'.snaps[n] = None
           /\ UNCHANGED <<user, sums, job, month, alerted, sending, served, told, crashes>>
<1>1. /\ broke' = TRUE /\ node' = [n \in Metered |-> [node[n] EXCEPT !.count = 0]]
      /\ vless' = [uuid |-> vless.uuid + 1, fresh |-> TRUE, snaps |-> Traffic!NoSnaps]
      /\ UNCHANGED <<user, sums, job, month, alerted, sending, served, told, crashes>>
      /\ node \in [Metered -> Reading] /\ vless.uuid \in Nat
  BY DEF Traffic!Rotates, TrafficShape, TrafficRow
<1>2. node' \in [Metered -> Reading] /\ \A n \in Metered : node'[n].count = 0
  BY <1>1 DEF Reading
<1> QED BY <1>1, <1>2 DEF TrafficRow, Traffic!NoSnaps

LEMMA ShapeStep ==
    ASSUME Traffic!TrafficConstants, TrafficShape, [Traffic!Next]_Traffic!vars PROVE TrafficShape'
<1>0. /\ vless \in TrafficRow /\ user \in Account /\ user.month <= user.total
      /\ sums \in [Metered -> [cycle : 0..MaxMonth, bytes : Nat]]
      /\ node \in [Metered -> Reading] /\ served \in 0..MaxServed
      /\ \A n \in Metered : node[n].count <= served
      /\ \A n \in Metered : vless.snaps[n] \in Reading => vless.snaps[n].count <= served
      /\ month \in Traffic!Months /\ broke \in BOOLEAN /\ PassFits
      /\ job # Idle => \A n \in job.rest : job.got[n].count <= served
      /\ MaxServed \in Nat
  BY DEF TrafficShape, Traffic!TrafficConstants
<1>1. ASSUME NEW n \in Metered, Traffic!Serves(n) PROVE TrafficShape'
  <2>1. \A q \in Metered : node'[q].count <= served'
    BY <1>0, <1>1, ServesIs DEF Reading
  <2>2. PassFits' /\ (job # Idle => \A q \in job.rest : job.got[q].count <= served')
    BY <1>0, <1>1, ServesIs DEF PassFits, Answer
  <2>3. \A q \in Metered : vless.snaps[q] \in Reading => vless.snaps[q].count <= served'
    BY <1>0, <1>1, ServesIs DEF Reading
  <2>4. served' \in 0..MaxServed
    BY <1>0, <1>1, ServesIs
  <2> QED BY <1>0, <1>1, <2>1, <2>2, <2>3, <2>4, ServesIs DEF TrafficShape
<1>2. ASSUME NEW n \in Metered, Traffic!StartsAnew(n) PROVE TrafficShape'
  <2>1. \A q \in Metered : node'[q].count <= served'
    <3>1. node'[n].count = 0 /\ (\A q \in Metered \ {n} : node'[q] = node[q]) /\ served' = served
      BY <1>2, AnewIs
    <3> QED BY <1>0, <3>1
  <2>2. PassFits'
    BY <1>0, <1>2, AnewIs DEF PassFits
  <2> QED BY <1>0, <1>2, <2>1, <2>2, AnewIs DEF TrafficShape
<1>3. ASSUME Traffic!Rotates PROVE TrafficShape'
  <2>1. PassFits'
    BY <1>0, <1>3, RotatesIs DEF PassFits, TrafficRow, Answer
  <2>2. \A n \in Metered : vless'.snaps[n] \notin Reading
    BY <1>3, RotatesIs, NoReading
  <2>3. \A n \in Metered : node'[n].count <= served
    BY <1>0, <1>3, RotatesIs
  <2> QED BY <1>0, <1>3, <2>1, <2>2, <2>3, RotatesIs DEF TrafficShape
<1>4. ASSUME Traffic!MonthTurns PROVE TrafficShape'
  <2>1. month' \in Traffic!Months
    BY <1>0, <1>4 DEF Traffic!MonthTurns, Traffic!Months, Traffic!TrafficConstants
  <2> QED BY <1>0, <1>4, <2>1 DEF Traffic!MonthTurns, TrafficShape, PassFits
<1>5. ASSUME Traffic!PassBegins PROVE TrafficShape'
  <2>1. job' \in Pass /\ job'.rest = {} /\ job'.ask = Metered
    BY <1>0, <1>5, BeginsIs DEF Pass, Traffic!NoSnaps
  <2> QED BY <1>0, <1>5, <2>1, BeginsIs DEF TrafficShape, PassFits
<1>6. ASSUME NEW n \in Metered, Traffic!Asks(n) PROVE TrafficShape'
  <2>1. ASSUME NEW q \in job'.rest
        PROVE  job'.got[q] \in Answer /\ job'.got[q].uuid <= vless.uuid /\ job'.got[q].count <= served
    <3>1. CASE q \in job.rest /\ job'.got[q] = job.got[q]
      BY <1>0, <1>6, <3>1, AsksIs DEF PassFits
    <3>2. CASE job'.got[q] = [uuid |-> vless.uuid, epoch |-> node[n].epoch, count |-> node[n].count] /\ q = n
      BY <1>0, <3>2 DEF Answer, TrafficRow, Reading
    <3>3. job.got \in [Metered -> Answer \cup {None}]
      BY <1>6, AsksIs DEF Pass
    <3>4. PICK r : r = [uuid |-> vless.uuid, epoch |-> node[n].epoch, count |-> node[n].count]
      OBVIOUS
    <3>5. \/ job'.rest = job.rest \cup {n} /\ job'.got = [job.got EXCEPT ![n] = r]
          \/ job'.rest = job.rest /\ job'.got = job.got
      BY <1>6, <3>4, AsksIs
    <3>6. CASE job'.rest = job.rest /\ job'.got = job.got
      BY <2>1, <3>1, <3>6
    <3>7. CASE job'.rest = job.rest \cup {n} /\ job'.got = [job.got EXCEPT ![n] = r]
      <4>1. CASE q = n
        BY <3>2, <3>3, <3>4, <3>7, <4>1
      <4>2. CASE q # n
        BY <2>1, <3>1, <3>3, <3>7, <4>2
      <4> QED BY <4>1, <4>2
    <3> QED BY <3>5, <3>6, <3>7
  <2>2. job' \in Pass /\ job'.ask \cap job'.rest = {}
    BY <1>0, <1>6, AsksIs DEF PassFits
  <2> QED BY <1>0, <1>6, <2>1, <2>2, AsksIs DEF TrafficShape, PassFits
<1>7. ASSUME NEW n \in Metered, Traffic!Records(n) PROVE TrafficShape'
  <2>1. Due(n) \in Nat /\ job \in Pass
    BY <1>7, RecordsIs DEF Answer
  <2>2. user' \in Account /\ user'.month <= user'.total
    BY <1>0, <1>7, <2>1, RecordsIs, ChargedIs
  <2>3. vless' \in TrafficRow /\ vless'.uuid = vless.uuid
        /\ \A q \in Metered : vless'.snaps[q] \in Reading => vless'.snaps[q].count <= served
    <3> DEFINE s == [epoch |-> job.got[n].epoch, count |-> job.got[n].count]
    <3>1. s \in Reading /\ s.count <= served
      BY <1>7, RecordsIs DEF Answer, Reading
    <3>2. vless' = [vless EXCEPT !.snaps[n] = s] \/ vless' = vless
      BY <1>7, RecordsIs
    <3> HIDE DEF s
    <3> QED BY <1>0, <3>1, <3>2 DEF TrafficRow
  <2>4. PassFits' /\ (job' # Idle => \A q \in job'.rest : job'.got[q].count <= served)
    BY <1>0, <1>7, <2>3, RecordsIs DEF PassFits
  <2> QED BY <1>0, <1>7, <2>2, <2>3, <2>4, RecordsIs DEF TrafficShape
<1>8. ASSUME Traffic!SumsUp PROVE TrafficShape'
  BY <1>0, <1>8, SumsUpIs DEF TrafficShape, PassFits
<1>9. ASSUME Traffic!LooksAtQuota PROVE TrafficShape'
  BY <1>0, <1>9, LooksIs DEF TrafficShape, PassFits
<1>10. ASSUME Traffic!PassEnds \/ Traffic!Crash PROVE TrafficShape'
  BY <1>0, <1>10 DEF Traffic!PassEnds, Traffic!Crash, TrafficShape, PassFits
<1>11. ASSUME UNCHANGED <<vless, user, sums, node, job, month, served, broke>> PROVE TrafficShape'
  BY <1>0, <1>11 DEF TrafficShape, PassFits
<1>12. ASSUME NEW a \in sending, Traffic!SendsAlert(a) PROVE TrafficShape'
  BY <1>11, <1>12 DEF Traffic!SendsAlert
<1>13. CASE UNCHANGED Traffic!vars
  BY <1>11, <1>13 DEF Traffic!vars
<1> QED BY <1>1, <1>2, <1>3, <1>4, <1>5, <1>6, <1>7, <1>8, <1>9, <1>10, <1>12, <1>13 DEF Traffic!Next

LEMMA AlertsStep ==
    ASSUME Traffic!TrafficConstants, TrafficShape, AlertsFit, [Traffic!Next]_Traffic!vars PROVE AlertsFit'
<1>1. ASSUME UNCHANGED <<alerted, sending, told, crashes>> PROVE AlertsFit'
  BY <1>1 DEF AlertsFit, Sent
<1>2. ASSUME Traffic!LooksAtQuota PROVE AlertsFit'
  <2>1. CASE UNCHANGED <<alerted, sending>>
    BY <1>1, <1>2, <2>1, LooksIs
  <2>2. CASE /\ job.at \notin alerted /\ alerted' = alerted \cup {job.at}
             /\ sending' = sending \cup {<<job.at, job.of>>}
    <3>1. job.at \in Traffic!Months /\ job.of \in Metered /\ UNCHANGED <<told, crashes>>
      BY <1>2, LooksIs
    <3>2. \A a \in sending : a[1] # job.at
      BY <2>2 DEF AlertsFit
    <3>3. told[job.at] <= crashes
      BY <2>2, <3>1 DEF AlertsFit
    <3>4. alerted' \subseteq Traffic!Months /\ sending' \subseteq Traffic!Months \X Metered
          /\ (\A a \in sending' : a[1] \in alerted')
      BY <2>2, <3>1 DEF AlertsFit
    <3>5. \A a, b \in sending' : a[1] = b[1] => a = b
      BY <2>2, <3>2 DEF AlertsFit
    <3>6. ASSUME NEW m \in Traffic!Months, m \notin alerted' \/ Sent(m)' PROVE told[m] <= crashes
      <4>1. m = job.at \/ m \notin alerted \/ Sent(m)
        BY <2>2, <3>6 DEF Sent
      <4> QED BY <3>3, <4>1 DEF AlertsFit
    <3> QED BY <3>1, <3>4, <3>5, <3>6 DEF AlertsFit
  <2> QED BY <1>2, <2>1, <2>2, LooksIs
<1>3. ASSUME NEW a \in sending, Traffic!SendsAlert(a) PROVE AlertsFit'
  <2>0. /\ sending' = sending \ {a} /\ crashes' = crashes /\ a \in Traffic!Months \X Metered
        /\ \/ told' = [told EXCEPT ![a[1]] = @ + 1] /\ UNCHANGED alerted
           \/ alerted' = alerted \ {a[1]} /\ UNCHANGED told
    BY <1>3 DEF Traffic!SendsAlert, AlertsFit
  <2>1. PICK m \in Traffic!Months : m = a[1]
    BY <2>0
  <2>2. told[m] <= crashes /\ (\A b \in sending' : b[1] # m /\ b \in sending)
    BY <2>0, <2>1 DEF AlertsFit, Sent
  <2>3. told' \in [Traffic!Months -> Nat] /\ alerted' \subseteq Traffic!Months
        /\ sending' \subseteq Traffic!Months \X Metered
        /\ (\A b \in sending' : b[1] \in alerted')
        /\ (\A b, c \in sending' : b[1] = c[1] => b = c)
    BY <2>0, <2>1, <2>2 DEF AlertsFit
  <2>4. ASSUME NEW k \in Traffic!Months
        PROVE  told'[k] <= 1 + crashes /\ (k \notin alerted' \/ Sent(k)' => told'[k] <= crashes)
    <3>1. CASE k = m
      <4>1. ~Sent(k)'
        BY <2>2, <3>1 DEF Sent
      <4>2. told[m] \in Nat /\ crashes \in Nat /\ m \in alerted
        BY <2>1 DEF AlertsFit
      <4> QED BY <2>0, <2>1, <2>2, <3>1, <4>1, <4>2 DEF AlertsFit
    <3>2. CASE k # m
      <4>1. told'[k] = told[k] /\ (k \in alerted' <=> k \in alerted) /\ (Sent(k)' => Sent(k))
        BY <2>0, <2>1, <3>2 DEF AlertsFit, Sent
      <4> QED BY <4>1 DEF AlertsFit
    <3> QED BY <3>1, <3>2
  <2> QED BY <2>0, <2>3, <2>4 DEF AlertsFit
<1>4. ASSUME Traffic!Crash PROVE AlertsFit'
  <2>1. alerted' = {} /\ sending' = {} /\ crashes' = crashes + 1 /\ told' = told
    BY <1>4 DEF Traffic!Crash
  <2>2. \A m \in Traffic!Months : told[m] \in Nat /\ told[m] <= 1 + crashes /\ crashes \in Nat
    BY DEF AlertsFit
  <2> QED BY <2>1, <2>2 DEF AlertsFit, Sent
<1>5. ASSUME NEW n \in Metered, Traffic!Serves(n) \/ Traffic!StartsAnew(n) \/ Traffic!Asks(n) PROVE AlertsFit'
  BY <1>1, <1>5, ServesIs, AnewIs, AsksIs
<1>6. ASSUME NEW n \in Metered, Traffic!Records(n) PROVE AlertsFit'
  BY <1>1, <1>6, RecordsIs
<1>7. ASSUME Traffic!Rotates \/ Traffic!MonthTurns \/ Traffic!PassBegins PROVE AlertsFit'
  BY <1>1, <1>7 DEF Traffic!Rotates, Traffic!MonthTurns, Traffic!PassBegins
<1>8. ASSUME Traffic!SumsUp \/ Traffic!PassEnds PROVE AlertsFit'
  BY <1>1, <1>8 DEF Traffic!SumsUp, Traffic!PassEnds
<1>9. CASE UNCHANGED Traffic!vars
  BY <1>1, <1>9 DEF Traffic!vars
<1> QED BY <1>2, <1>3, <1>4, <1>5, <1>6, <1>7, <1>8, <1>9 DEF Traffic!Next

-----------------------------------------------------------------------------
\* What a snapshot and a reading after it add to the total (Delta of VlessTraffic
\* for a row that is fresh or not).
Gain(f, old, new) ==
    IF old = None THEN IF f THEN new.count ELSE 0
    ELSE IF old.epoch # new.epoch \/ new.count < old.count THEN new.count
    ELSE new.count - old.count

\* What is still to be recorded of a node: of the answer under way and of what
\* the node has counted after it, or of the latter alone.
Both(f, old, got, new) == Gain(f, old, got) + Gain(f, got, new)
Said(n) == [epoch |-> job.got[n].epoch, count |-> job.got[n].count]
Pending(n) == job # Idle /\ n \in job.rest /\ job.got[n].uuid = vless.uuid
Pots ==
    [n \in Metered |-> IF Pending(n) THEN Both(vless.fresh, vless.snaps[n], Said(n), node[n])
                       ELSE Gain(vless.fresh, vless.snaps[n], node[n])]

PotInv == user.total + Cardinality(Between(Zero, Pots)) <= served

LEMMA GainIs ==
    ASSUME Traffic!TrafficConstants, NEW f \in BOOLEAN, NEW old \in Reading \cup {None}, NEW new \in Reading
    PROVE  Gain(f, old, new) \in Nat /\ Gain(f, old, new) <= new.count
BY NoReading DEF Gain, Reading

\* An answer that is dropped is caught up with by the next.
LEMMA GainTwice ==
    ASSUME Traffic!TrafficConstants, NEW f \in BOOLEAN, NEW old \in Reading \cup {None},
           NEW got \in Reading, NEW new \in Reading
    PROVE  Gain(f, old, new) <= Gain(f, old, got) + Gain(f, got, new)
<1>1. got # None
  BY NoReading
<1>2. CASE old = None
  BY <1>1, <1>2 DEF Gain, Reading
<1>3. CASE old # None
  BY <1>1, <1>3 DEF Gain, Reading
<1> QED BY <1>2, <1>3

LEMMA GainGrows ==
    ASSUME Traffic!TrafficConstants, NEW f \in BOOLEAN, NEW old \in Reading \cup {None},
           NEW new \in Reading, NEW more \in Reading, more.epoch = new.epoch, more.count = new.count + 1
    PROVE  Gain(f, old, more) <= Gain(f, old, new) + 1
BY NoReading DEF Gain, Reading

LEMMA GainNothing ==
    ASSUME Traffic!TrafficConstants, NEW f \in BOOLEAN, NEW old \in Reading \cup {None}, NEW new \in Reading
    PROVE  Gain(f, new, new) = 0 /\ (new.count = 0 => Gain(f, old, new) = 0)
BY NoReading DEF Gain, Reading

LEMMA BothIs ==
    ASSUME Traffic!TrafficConstants, NEW f \in BOOLEAN, NEW old \in Reading \cup {None},
           NEW got \in Reading, NEW new \in Reading
    PROVE  /\ Both(f, old, got, new) \in Nat /\ Both(f, old, got, new) <= got.count + new.count
           /\ Gain(f, old, new) <= Both(f, old, got, new)
<1>1. /\ Gain(f, old, got) \in Nat /\ Gain(f, old, got) <= got.count
      /\ Gain(f, got, new) \in Nat /\ Gain(f, got, new) <= new.count
      /\ Gain(f, old, new) <= Gain(f, old, got) + Gain(f, got, new)
      /\ got.count \in Nat /\ new.count \in Nat
  BY GainIs, GainTwice DEF Reading
<1> QED BY <1>1 DEF Both

\* The parts of a shape that the sums are about.
LEMMA ShapeParts ==
    ASSUME TrafficShape
    PROVE  /\ vless.fresh \in BOOLEAN /\ served \in 0..MaxServed /\ user.total \in Nat
           /\ \A n \in Metered : /\ vless.snaps[n] \in Reading \cup {None}
                                 /\ node[n] \in Reading /\ node[n].count \in Nat /\ node[n].count <= served
                                 /\ vless.snaps[n] \in Reading => vless.snaps[n].count <= served
                                 /\ Pending(n) \in BOOLEAN
                                 /\ Pending(n) => Said(n) \in Reading /\ Said(n).count <= served
                                                  /\ job \in Pass
BY DEF TrafficShape, TrafficRow, Reading, Pending, Said, PassFits, Answer, Account

LEMMA PotsType ==
    ASSUME Traffic!TrafficConstants, TrafficShape
    PROVE  Pots \in [Metered -> Nat] /\ \A n \in Metered : Pots[n] <= 2 * MaxServed
<1>1. ASSUME NEW n \in Metered PROVE Pots[n] \in Nat /\ Pots[n] <= 2 * MaxServed
  <2>1. /\ served \in 0..MaxServed /\ MaxServed \in Nat /\ node[n].count \in Nat
        /\ node[n].count <= served
    BY ShapeParts DEF Traffic!TrafficConstants
  <2>2. CASE Pending(n)
    <3>1. Said(n).count <= served /\ Said(n).count \in Nat
      BY <2>2, ShapeParts DEF Reading
    <3>2. Pots[n] \in Nat /\ Pots[n] <= Said(n).count + node[n].count
      BY <2>2, ShapeParts, BothIs DEF Pots
    <3> QED BY <2>1, <3>1, <3>2
  <2>3. CASE ~Pending(n)
    <3>1. Pots[n] \in Nat /\ Pots[n] <= node[n].count
      BY <2>3, ShapeParts, GainIs DEF Pots
    <3> QED BY <2>1, <3>1
  <2> QED BY <2>2, <2>3
<1> QED BY <1>1 DEF Pots

LEMMA PotsNat ==
    ASSUME Traffic!TrafficConstants, TrafficShape' PROVE Pots' \in [Metered -> Nat]
<1>1. ASSUME NEW n \in Metered PROVE Pots'[n] \in Nat
  <2>1. /\ vless'.fresh \in BOOLEAN /\ vless'.snaps[n] \in Reading \cup {None} /\ node'[n] \in Reading
        /\ Pending(n)' => Said(n)' \in Reading
    BY DEF TrafficShape, TrafficRow, Pending, Said, PassFits, Answer, Reading
  <2>2. CASE Pending(n)'
    <3>1. Pots'[n] = Both(vless'.fresh, vless'.snaps[n], Said(n)', node'[n])
      BY <2>2 DEF Pots
    <3> QED BY <2>1, <2>2, <3>1, BothIs
  <2>3. CASE ~Pending(n)'
    <3>1. Pots'[n] = Gain(vless'.fresh, vless'.snaps[n], node'[n])
      BY <2>3 DEF Pots
    <3> QED BY <2>1, <3>1, GainIs
  <2> QED BY <2>2, <2>3
<1> QED BY <1>1 DEF Pots

LEMMA PotsLess ==
    ASSUME Traffic!TrafficConstants, TrafficShape, TrafficShape', PotInv,
           \A n \in Metered : Pots'[n] <= Pots[n], user'.total = user.total, served' = served
    PROVE  PotInv'
<1>1. PICK p \in [Metered -> Nat] : p = Pots'
  BY PotsNat
<1>2. Cardinality(Between(Zero, p)) <= Cardinality(Between(Zero, Pots))
  <2>1. Zero \in [Metered -> Nat] /\ Pots \in [Metered -> Nat] /\ \A n \in Metered : p[n] <= Pots[n]
    BY <1>1, PotsType DEF Zero
  <2> QED BY <2>1, BetweenMono
<1>3. user.total \in Nat /\ served \in Nat
  BY ShapeParts
<1> QED BY <1>1, <1>2, <1>3, BetweenFinite DEF PotInv

\* A node whose counter, snapshot and answer stay, or whose answer is dropped.
LEMMA PotKept ==
    ASSUME Traffic!TrafficConstants, TrafficShape, TrafficShape', NEW n \in Metered,
           vless'.fresh = vless.fresh, vless'.snaps[n] = vless.snaps[n], node'[n] = node[n],
           \/ ~Pending(n)'
           \/ Pending(n) /\ Pending(n)' /\ Said(n)' = Said(n)
    PROVE  Pots'[n] <= Pots[n] /\ (~Pending(n) => Pots'[n] = Pots[n])
<1>1. Pots[n] \in Nat
  BY PotsType
<1>2. CASE Pending(n) /\ Pending(n)' /\ Said(n)' = Said(n)
  <2>1. Pots[n] = Both(vless.fresh, vless.snaps[n], Said(n), node[n])
    BY <1>2 DEF Pots
  <2>2. Pots'[n] = Both(vless'.fresh, vless'.snaps[n], Said(n)', node'[n])
    BY <1>2 DEF Pots
  <2> QED BY <1>1, <1>2, <2>1, <2>2
<1>3. CASE ~Pending(n)'
  <2>1. Pots'[n] = Gain(vless.fresh, vless.snaps[n], node[n])
    BY <1>3 DEF Pots
  <2>2. CASE Pending(n)
    <3>1. Pots[n] = Both(vless.fresh, vless.snaps[n], Said(n), node[n])
      BY <2>2 DEF Pots
    <3> QED BY <2>1, <2>2, <3>1, ShapeParts, BothIs
  <2>3. CASE ~Pending(n)
    BY <1>1, <2>1, <2>3 DEF Pots
  <2> QED BY <2>2, <2>3
<1> QED BY <1>2, <1>3

LEMMA PotServes ==
    ASSUME Traffic!TrafficConstants, TrafficShape, TrafficShape', PotInv,
           NEW n \in Metered, Traffic!Serves(n)
    PROVE  PotInv'
<1>0. \A q \in Metered : (Pending(q)' <=> Pending(q)) /\ Said(q)' = Said(q)
  BY ServesIs DEF Pending, Said
<1>1. \A q \in Metered \ {n} : Pots'[q] <= Pots[q]
  BY <1>0, ServesIs, PotKept
<1>2. Pots'[n] <= Pots[n] + 1
  <2>1. /\ node'[n] \in Reading /\ node'[n].epoch = node[n].epoch /\ node'[n].count = node[n].count + 1
        /\ vless' = vless
    BY ServesIs
  <2>2. CASE Pending(n)
    <3>1. Pots[n] = Gain(vless.fresh, vless.snaps[n], Said(n)) + Gain(vless.fresh, Said(n), node[n])
      BY <2>2 DEF Pots, Both
    <3>2. Pots'[n] = Gain(vless.fresh, vless.snaps[n], Said(n)) + Gain(vless.fresh, Said(n), node'[n])
      BY <1>0, <2>1, <2>2 DEF Pots, Both
    <3>3. Gain(vless.fresh, Said(n), node'[n]) <= Gain(vless.fresh, Said(n), node[n]) + 1
      BY <2>1, <2>2, ShapeParts, GainGrows
    <3>4. /\ Gain(vless.fresh, vless.snaps[n], Said(n)) \in Nat
          /\ Gain(vless.fresh, Said(n), node[n]) \in Nat /\ Gain(vless.fresh, Said(n), node'[n]) \in Nat
      BY <2>1, <2>2, ShapeParts, GainIs
    <3> QED BY <3>1, <3>2, <3>3, <3>4
  <2>3. CASE ~Pending(n)
    <3>1. Pots[n] = Gain(vless.fresh, vless.snaps[n], node[n])
      BY <2>3 DEF Pots
    <3>2. Pots'[n] = Gain(vless.fresh, vless.snaps[n], node'[n])
      BY <1>0, <2>1, <2>3 DEF Pots
    <3> QED BY <2>1, <3>1, <3>2, ShapeParts, GainGrows
  <2> QED BY <2>2, <2>3
<1>3. PICK p \in [Metered -> Nat] : p = Pots'
  BY PotsNat
<1>4. PICK r : r = [Pots EXCEPT ![n] = Pots[n] + 1]
  OBVIOUS
<1>5. /\ Pots \in [Metered -> Nat] /\ r \in [Metered -> 0..Wide] /\ r[n] = Pots[n] + 1
      /\ (\A q \in Metered \ {n} : r[q] = Pots[q]) /\ Zero \in [Metered -> Nat]
      /\ Zero[n] <= Pots[n]
  <2>1. MaxServed \in Nat /\ Wide = 2 * MaxServed + 1
    BY DEF Traffic!TrafficConstants, Wide
  <2>2. Pots \in [Metered -> Nat] /\ \A q \in Metered : Pots[q] <= 2 * MaxServed
    BY PotsType
  <2>3. \A q \in Metered : r[q] \in 0..Wide
    BY <1>4, <2>1, <2>2
  <2> QED BY <1>4, <2>2, <2>3 DEF Zero
<1>6. Cardinality(Between(Zero, r)) = Cardinality(Between(Zero, Pots)) + 1
  <2>1. Pots[n] \in Nat /\ Pots[n] <= r[n] /\ r[n] - Pots[n] = 1
    BY <1>5
  <2> QED BY <1>5, <2>1, Raised
<1>7. Cardinality(Between(Zero, p)) <= Cardinality(Between(Zero, r))
  <2>1. r \in [Metered -> Nat] /\ \A q \in Metered : p[q] <= r[q]
    BY <1>1, <1>2, <1>3, <1>5, WideIs
  <2> QED BY <1>5, <2>1, BetweenMono
<1>8. user'.total = user.total /\ served' = served + 1 /\ user.total \in Nat /\ served \in Nat
  BY ServesIs, ShapeParts
<1> QED BY <1>3, <1>6, <1>7, <1>8, BetweenFinite DEF PotInv

LEMMA PotAnew ==
    ASSUME Traffic!TrafficConstants, TrafficShape, TrafficShape', PotInv,
           NEW n \in Metered, Traffic!StartsAnew(n)
    PROVE  PotInv'
<1>0. \A q \in Metered : (Pending(q)' <=> Pending(q)) /\ Said(q)' = Said(q)
  BY AnewIs DEF Pending, Said
<1>1. \A q \in Metered \ {n} : Pots'[q] <= Pots[q]
  BY <1>0, AnewIs, PotKept
<1>2. Pots'[n] <= Pots[n]
  <2>1. node'[n] \in Reading /\ node'[n].count = 0 /\ vless' = vless
    BY AnewIs
  <2>2. CASE Pending(n)
    <3>1. Pots[n] = Gain(vless.fresh, vless.snaps[n], Said(n)) + Gain(vless.fresh, Said(n), node[n])
      BY <2>2 DEF Pots, Both
    <3>2. Pots'[n] = Gain(vless.fresh, vless.snaps[n], Said(n)) + Gain(vless.fresh, Said(n), node'[n])
      BY <1>0, <2>1, <2>2 DEF Pots, Both
    <3>3. Gain(vless.fresh, Said(n), node'[n]) = 0
      BY <2>1, <2>2, ShapeParts, GainNothing
    <3>4. /\ Gain(vless.fresh, vless.snaps[n], Said(n)) \in Nat
          /\ Gain(vless.fresh, Said(n), node[n]) \in Nat
      BY <2>2, ShapeParts, GainIs
    <3> QED BY <3>1, <3>2, <3>3, <3>4
  <2>3. CASE ~Pending(n)
    <3>1. Pots'[n] = Gain(vless.fresh, vless.snaps[n], node'[n])
      BY <1>0, <2>1, <2>3 DEF Pots
    <3>2. Pots'[n] = 0
      BY <2>1, <3>1, ShapeParts, GainNothing
    <3> QED BY <3>2, PotsType
  <2> QED BY <2>2, <2>3
<1> QED BY <1>1, <1>2, AnewIs, PotsLess

LEMMA PotRotates ==
    ASSUME Traffic!TrafficConstants, TrafficShape, TrafficShape', PotInv, Traffic!Rotates
    PROVE  PotInv'
<1>1. ASSUME NEW q \in Metered PROVE Pots'[q] <= Pots[q]
  <2>1. ~Pending(q)'
    <3>1. vless'.uuid = vless.uuid + 1 /\ job' = job /\ vless.uuid \in Nat
      BY RotatesIs DEF TrafficShape, TrafficRow
    <3>2. job # Idle /\ q \in job.rest => job.got[q].uuid <= vless.uuid /\ job.got[q].uuid \in Nat
      BY DEF TrafficShape, PassFits, Answer
    <3> QED BY <3>1, <3>2 DEF Pending
  <2>2. Pots'[q] = Gain(vless'.fresh, vless'.snaps[q], node'[q])
    BY <2>1 DEF Pots
  <2>3. vless'.fresh \in BOOLEAN /\ vless'.snaps[q] = None /\ node'[q] \in Reading /\ node'[q].count = 0
    BY RotatesIs DEF TrafficRow
  <2>4. Pots'[q] = 0
    BY <2>2, <2>3, GainNothing
  <2> QED BY <2>4, PotsType
<1> QED BY <1>1, RotatesIs, PotsLess

LEMMA PotAsks ==
    ASSUME Traffic!TrafficConstants, TrafficShape, TrafficShape', PotInv, NEW n \in Metered, Traffic!Asks(n)
    PROVE  PotInv'
<1>0. ~Pending(n) /\ job \in Pass /\ job # Idle /\ n \in job.ask
      /\ UNCHANGED <<vless, user, node, served>>
  BY AsksIs DEF Pending, TrafficShape, PassFits
<1>1. PICK ans : ans = [uuid |-> vless.uuid, epoch |-> node[n].epoch, count |-> node[n].count]
  OBVIOUS
<1>2. CASE job'.rest = job.rest /\ job'.got = job.got
  <2>1. \A q \in Metered : ~Pending(q)' \/ (Pending(q) /\ Pending(q)' /\ Said(q)' = Said(q))
    BY <1>0, <1>2 DEF Pending, Said
  <2>2. \A q \in Metered : Pots'[q] <= Pots[q]
    BY <1>0, <2>1, PotKept
  <2> QED BY <1>0, <2>2, PotsLess
<1>3. CASE job'.rest = job.rest \cup {n} /\ job'.got = [job.got EXCEPT ![n] = ans]
  <2>0. job'.got[n] = ans /\ \A q \in Metered \ {n} : job'.got[q] = job.got[q]
    BY <1>0, <1>3 DEF Pass
  <2>1. \A q \in Metered \ {n} : ~Pending(q)' \/ (Pending(q) /\ Pending(q)' /\ Said(q)' = Said(q))
    BY <1>0, <1>3, <2>0 DEF Pending, Said
  <2>2. \A q \in Metered \ {n} : Pots'[q] <= Pots[q]
    BY <1>0, <2>1, PotKept
  <2>3. Pots'[n] <= Pots[n]
    <3>1. Said(n)' = node[n] /\ node[n] \in Reading
      BY <1>1, <2>0, ShapeParts DEF Said, Reading
    <3>2. Pots[n] = Gain(vless.fresh, vless.snaps[n], node[n]) /\ Pots[n] \in Nat
      BY <1>0, PotsType DEF Pots
    <3>3. CASE Pending(n)'
      <4>1. Pots'[n] = Gain(vless.fresh, vless.snaps[n], node[n]) + Gain(vless.fresh, node[n], node[n])
        BY <1>0, <3>1, <3>3 DEF Pots, Both
      <4>2. Gain(vless.fresh, node[n], node[n]) = 0
        BY ShapeParts, GainNothing
      <4> QED BY <3>2, <4>1, <4>2
    <3>4. CASE ~Pending(n)'
      BY <1>0, <3>4, PotKept
    <3> QED BY <3>3, <3>4
  <2> QED BY <1>0, <2>2, <2>3, PotsLess
<1> QED BY <1>1, <1>2, <1>3, AsksIs

LEMMA PotRecords ==
    ASSUME Traffic!TrafficConstants, TrafficShape, TrafficShape', PotInv, NEW n \in Metered, Traffic!Records(n)
    PROVE  PotInv'
<1>0. /\ job # Idle /\ job \in Pass /\ n \in job.rest /\ job'.rest = job.rest \ {n} /\ job'.got = job.got
      /\ UNCHANGED <<node, served>> /\ job.got[n] \in Answer /\ Due(n) \in Nat /\ ~Pending(n)'
      /\ vless \in TrafficRow /\ user \in Account /\ user.month <= user.total
  BY RecordsIs DEF Answer, Pending, TrafficShape
<1>1. PICK s : s = Said(n)
  OBVIOUS
<1>2. CASE UNCHANGED <<vless, user>>
  <2>1. \A q \in Metered : ~Pending(q)' \/ (Pending(q) /\ Pending(q)' /\ Said(q)' = Said(q))
    BY <1>0, <1>2 DEF Pending, Said
  <2>2. \A q \in Metered : Pots'[q] <= Pots[q]
    BY <1>0, <1>2, <2>1, PotKept
  <2> QED BY <1>0, <1>2, <2>2, PotsLess
<1>3. CASE ~Traffic!SameUuid(job.got[n]) /\ vless' = vless /\ user' = Traffic!Charged(0)
  <2>1. user'.total = user.total
    BY <1>0, <1>3, ChargedIs DEF Account
  <2>2. \A q \in Metered : ~Pending(q)' \/ (Pending(q) /\ Pending(q)' /\ Said(q)' = Said(q))
    BY <1>0, <1>3 DEF Pending, Said
  <2>3. \A q \in Metered : Pots'[q] <= Pots[q]
    BY <1>0, <1>3, <2>2, PotKept
  <2> QED BY <1>0, <2>1, <2>3, PotsLess
<1>4. CASE /\ Traffic!SameUuid(job.got[n]) /\ vless' = [vless EXCEPT !.snaps[n] = s]
           /\ user' = Traffic!Charged(Due(n))
  <2>0. Pending(n) /\ s \in Reading
    BY <1>0, <1>1, <1>4 DEF Pending, Traffic!SameUuid, Said, Answer, Reading
  <2>1. user'.total = user.total + Due(n)
    BY <1>0, <1>4, ChargedIs
  <2>2. /\ vless'.fresh = vless.fresh /\ vless'.uuid = vless.uuid /\ vless'.snaps[n] = s
        /\ \A q \in Metered \ {n} : vless'.snaps[q] = vless.snaps[q]
    BY <1>0, <1>4 DEF TrafficRow
  <2>3. ASSUME NEW q \in Metered \ {n} PROVE Pots'[q] <= Pots[q]
    <3>1. ~Pending(q)' \/ (Pending(q) /\ Pending(q)' /\ Said(q)' = Said(q))
      BY <1>0, <2>2 DEF Pending, Said
    <3> QED BY <1>0, <2>2, <3>1, PotKept
  <2>4. Pots[n] = Gain(vless.fresh, vless.snaps[n], s) + Gain(vless.fresh, s, node[n])
    BY <1>1, <2>0 DEF Pots, Both
  <2>5. Pots'[n] = Gain(vless.fresh, s, node[n])
    BY <1>0, <2>2 DEF Pots
  <2>6. Due(n) = Gain(vless.fresh, vless.snaps[n], s)
    <3>1. Due(n) = Traffic!Delta(vless.snaps[n], job.got[n])
      BY <1>4 DEF Due
    <3>2. /\ vless.fresh \in BOOLEAN /\ vless.snaps[n] \in Reading \cup {None}
          /\ job.got[n].epoch \in Nat /\ job.got[n].count \in Nat
          /\ s.epoch = job.got[n].epoch /\ s.count = job.got[n].count
      BY <1>0, <1>1, ShapeParts DEF Answer, Said
    <3> QED BY <3>1, <3>2, DeltaIs, NoReading DEF Gain, Reading
  <2>7. Pots[n] = Pots'[n] + Due(n) /\ Pots'[n] \in Nat
    BY <2>0, <2>4, <2>5, <2>6, ShapeParts, GainIs
  <2>8. PICK p \in [Metered -> Nat] : p = Pots'
    BY PotsNat
  <2>9. PICK r : r = [Pots EXCEPT ![n] = p[n]]
    OBVIOUS
  <2>10. /\ Pots \in [Metered -> Nat] /\ Pots \in [Metered -> 0..Wide] /\ r \in [Metered -> Nat]
         /\ r[n] = p[n] /\ (\A q \in Metered \ {n} : r[q] = Pots[q])
    <3>1. MaxServed \in Nat /\ Wide = 2 * MaxServed + 1
      BY DEF Traffic!TrafficConstants, Wide
    <3>2. Pots \in [Metered -> Nat] /\ \A q \in Metered : Pots[q] <= 2 * MaxServed
      BY PotsType
    <3>3. \A q \in Metered : Pots[q] \in 0..Wide
      BY <3>1, <3>2
    <3> QED BY <2>9, <3>2, <3>3
  <2>11. Cardinality(Between(Zero, Pots)) = Cardinality(Between(Zero, r)) + Due(n)
    <3>1. /\ Zero \in [Metered -> Nat] /\ Zero[n] <= r[n] /\ r[n] <= Pots[n]
          /\ (\A q \in Metered \ {n} : Pots[q] = r[q]) /\ Pots[n] - r[n] = Due(n)
      BY <1>0, <2>7, <2>8, <2>10 DEF Zero
    <3> QED BY <2>10, <3>1, Raised
  <2>12. Cardinality(Between(Zero, p)) <= Cardinality(Between(Zero, r))
    <3>1. Zero \in [Metered -> Nat] /\ \A q \in Metered : p[q] <= r[q]
      BY <2>3, <2>8, <2>10 DEF Zero
    <3> QED BY <2>8, <2>10, <3>1, BetweenMono
  <2>13. user.total \in Nat /\ served \in Nat
    BY ShapeParts
  <2> QED BY <1>0, <2>1, <2>8, <2>11, <2>12, <2>13, BetweenFinite DEF PotInv
<1>5. /\ ~Traffic!SameUuid(job.got[n]) => Due(n) = 0
      /\ s = [epoch |-> job.got[n].epoch, count |-> job.got[n].count]
  BY <1>1 DEF Due, Said
<1> QED BY <1>2, <1>3, <1>4, <1>5, RecordsIs

LEMMA PotStep ==
    ASSUME Traffic!TrafficConstants, TrafficShape, TrafficShape', PotInv, [Traffic!Next]_Traffic!vars
    PROVE  PotInv'
<1>1. ASSUME UNCHANGED <<vless, user, node, served>>, job' = Idle PROVE PotInv'
  <2>1. \A q \in Metered : ~Pending(q)'
    BY <1>1 DEF Pending
  <2>2. \A q \in Metered : Pots'[q] <= Pots[q]
    BY <1>1, <2>1, PotKept
  <2> QED BY <1>1, <2>2, PotsLess
<1>2. ASSUME UNCHANGED <<vless, user, node, served>>, job # Idle, job'.rest = job.rest, job'.got = job.got
      PROVE PotInv'
  <2>1. \A q \in Metered : ~Pending(q)' \/ (Pending(q) /\ Pending(q)' /\ Said(q)' = Said(q))
    BY <1>2 DEF Pending, Said
  <2>2. \A q \in Metered : Pots'[q] <= Pots[q]
    BY <1>2, <2>1, PotKept
  <2> QED BY <1>2, <2>2, PotsLess
<1>3. ASSUME UNCHANGED <<vless, user, node, served, job>> PROVE PotInv'
  BY <1>3 DEF PotInv, Pots, Pending, Said
<1>4. CASE Traffic!PassBegins
  <2>1. \A q \in Metered : ~Pending(q)'
    BY <1>4, BeginsIs DEF Pending
  <2>2. \A q \in Metered : Pots'[q] <= Pots[q]
    BY <1>4, <2>1, BeginsIs, PotKept
  <2> QED BY <1>4, <2>2, BeginsIs, PotsLess
<1>5. CASE Traffic!PassEnds \/ Traffic!Crash
  BY <1>1, <1>5 DEF Traffic!PassEnds, Traffic!Crash
<1>6. CASE Traffic!SumsUp
  BY <1>2, <1>6, SumsUpIs
<1>7. CASE Traffic!LooksAtQuota
  BY <1>2, <1>7, LooksIs
<1>8. CASE Traffic!MonthTurns \/ \E a \in sending : Traffic!SendsAlert(a)
  BY <1>3, <1>8 DEF Traffic!MonthTurns, Traffic!SendsAlert
<1>9. CASE UNCHANGED Traffic!vars
  BY <1>3, <1>9 DEF Traffic!vars
<1> QED BY <1>4, <1>5, <1>6, <1>7, <1>8, <1>9, PotServes, PotAnew, PotRotates, PotAsks, PotRecords
    DEF Traffic!Next

-----------------------------------------------------------------------------
\* While nothing has started anew, the last snapshot, the answer under way and
\* the counter of a node follow one another in one epoch.
Counts == [n \in Metered |-> node[n].count]
Marks == [n \in Metered |-> Traffic!Recorded(n)]
InLine(n) ==
    /\ node[n].epoch = 1 /\ Marks[n] <= Counts[n]
    /\ vless.snaps[n] # None => vless.snaps[n].epoch = 1
    /\ job # Idle /\ n \in job.rest =>
         /\ job.got[n].uuid = vless.uuid /\ job.got[n].epoch = 1
         /\ Marks[n] <= job.got[n].count /\ job.got[n].count <= Counts[n]
LossInv ==
    ~broke => /\ vless.fresh /\ \A n \in Metered : InLine(n)
              /\ user.total + Cardinality(Between(Marks, Counts)) = served

LEMMA MarksType ==
    ASSUME Traffic!TrafficConstants, TrafficShape
    PROVE  /\ Marks \in [Metered -> Nat] /\ Counts \in [Metered -> 0..MaxServed]
           /\ Counts \in [Metered -> Nat] /\ Counts \in [Metered -> 0..Wide]
<1>1. MaxServed \in Nat /\ Wide = 2 * MaxServed + 1
  BY DEF Traffic!TrafficConstants, Wide
<1>2. ASSUME NEW n \in Metered PROVE Traffic!Recorded(n) \in Nat /\ node[n].count \in 0..MaxServed
  BY <1>1, ShapeParts DEF Traffic!Recorded, Reading
<1> QED BY <1>1, <1>2 DEF Marks, Counts

\* Steps that change neither a snapshot nor a counter.
LEMMA LossKept ==
    ASSUME LossInv, UNCHANGED <<vless, node, served, broke>>, user'.total = user.total,
           \A n \in Metered : InLine(n) => InLine(n)'
    PROVE  LossInv'
<1>1. Marks' = Marks /\ Counts' = Counts
  BY DEF Marks, Counts, Traffic!Recorded
<1> QED BY <1>1 DEF LossInv

LEMMA LossServes ==
    ASSUME Traffic!TrafficConstants, TrafficShape, TrafficShape', LossInv,
           NEW n \in Metered, Traffic!Serves(n)
    PROVE  LossInv'
<1> SUFFICES ASSUME ~broke' PROVE LossInv'
  BY DEF LossInv
<1>1. /\ ~broke /\ vless' = vless /\ user' = user /\ job' = job /\ served' = served + 1 /\ served < MaxServed
      /\ node'[n].epoch = node[n].epoch /\ node'[n].count = node[n].count + 1
      /\ \A q \in Metered \ {n} : node'[q] = node[q]
  BY ServesIs
<1>2. Marks' = Marks /\ Counts'[n] = Counts[n] + 1 /\ \A q \in Metered \ {n} : Counts'[q] = Counts[q]
  BY <1>1 DEF Marks, Counts, Traffic!Recorded
<1>3. PICK c \in [Metered -> 0..Wide] : c = Counts'
  <2>1. MaxServed \in Nat /\ Wide = 2 * MaxServed + 1
    BY DEF Traffic!TrafficConstants, Wide
  <2>2. \A q \in Metered : node'[q].count \in Nat /\ node'[q].count <= served' /\ served' \in 0..MaxServed
    BY DEF TrafficShape, Reading
  <2>3. \A q \in Metered : node'[q].count \in 0..Wide
    BY <2>1, <2>2
  <2> QED BY <2>3 DEF Counts
<1>4. Marks \in [Metered -> Nat] /\ Counts \in [Metered -> Nat] /\ Marks[n] \in Nat /\ Counts[n] \in Nat
  BY MarksType
<1>5. vless.fresh /\ (\A q \in Metered : InLine(q)) /\ user.total + Cardinality(Between(Marks, Counts)) = served
  BY <1>1 DEF LossInv
<1>6. Marks[n] <= Counts[n]
  BY <1>5 DEF InLine
<1>7. Cardinality(Between(Marks, c)) = Cardinality(Between(Marks, Counts)) + 1
  <2>1. Marks[n] <= Counts[n] /\ Counts[n] <= c[n] /\ c[n] - Counts[n] = 1
        /\ \A q \in Metered \ {n} : c[q] = Counts[q]
    BY <1>2, <1>3, <1>4, <1>6
  <2> QED BY <1>3, <1>4, <2>1, Raised
<1>8. ASSUME NEW q \in Metered PROVE InLine(q)'
  <2>1. CASE q # n
    BY <1>1, <1>2, <1>5, <2>1 DEF InLine
  <2>2. CASE q = n
    <3>1. job # Idle /\ n \in job.rest => job.got[n].count \in Nat
      BY DEF TrafficShape, PassFits, Answer
    <3> QED BY <1>1, <1>2, <1>4, <1>5, <2>2, <3>1 DEF InLine
  <2> QED BY <2>1, <2>2
<1>9. user.total \in Nat /\ served \in Nat /\ Cardinality(Between(Marks, Counts)) \in Nat
  BY ShapeParts, BetweenFinite
<1>10. user'.total + Cardinality(Between(Marks', Counts')) = served'
  BY <1>1, <1>2, <1>3, <1>5, <1>7, <1>9
<1> QED BY <1>1, <1>5, <1>8, <1>10 DEF LossInv

LEMMA LossAsks ==
    ASSUME Traffic!TrafficConstants, TrafficShape, LossInv, NEW n \in Metered, Traffic!Asks(n)
    PROVE  LossInv'
<1>0. job \in Pass /\ job # Idle /\ n \in job.ask /\ UNCHANGED <<vless, user, node, served, broke>>
  BY AsksIs
<1>1. PICK ans : ans = [uuid |-> vless.uuid, epoch |-> node[n].epoch, count |-> node[n].count]
  OBVIOUS
<1>2. ASSUME NEW q \in Metered, InLine(q) PROVE InLine(q)'
  <2>0. Marks' = Marks /\ Counts' = Counts /\ Counts[q] \in Nat
    BY <1>0, MarksType DEF Marks, Counts, Traffic!Recorded
  <2>1. CASE job'.rest = job.rest /\ job'.got = job.got
    BY <1>0, <1>2, <2>0, <2>1 DEF InLine
  <2>2. CASE job'.rest = job.rest \cup {n} /\ job'.got = [job.got EXCEPT ![n] = ans]
    <3>0. job'.got[n] = ans /\ \A r \in Metered \ {n} : job'.got[r] = job.got[r]
      BY <1>0, <2>2 DEF Pass
    <3>1. CASE q # n
      BY <1>0, <1>2, <2>0, <2>2, <3>0, <3>1 DEF InLine
    <3>2. CASE q = n
      <4>1. ans.uuid = vless.uuid /\ ans.epoch = node[n].epoch /\ ans.count = Counts[n]
        BY <1>1 DEF Counts
      <4> QED BY <1>0, <1>2, <2>0, <2>2, <3>0, <3>2, <4>1 DEF InLine
    <3> QED BY <3>1, <3>2
  <2> QED BY <1>1, <2>1, <2>2, AsksIs
<1> QED BY <1>0, <1>2, LossKept

LEMMA LossRecords ==
    ASSUME Traffic!TrafficConstants, TrafficShape, TrafficShape', LossInv, NEW n \in Metered, Traffic!Records(n)
    PROVE  LossInv'
<1>0. /\ job # Idle /\ job \in Pass /\ n \in job.rest /\ job'.rest = job.rest \ {n} /\ job'.got = job.got
      /\ UNCHANGED <<node, served, broke>> /\ job.got[n] \in Answer /\ Due(n) \in Nat
      /\ vless \in TrafficRow /\ user \in Account /\ user.month <= user.total
  BY RecordsIs DEF Answer, TrafficShape
<1>1. CASE UNCHANGED <<vless, user>>
  <2>0. Marks' = Marks /\ Counts' = Counts
    BY <1>0, <1>1 DEF Marks, Counts, Traffic!Recorded
  <2>1. ASSUME NEW q \in Metered, InLine(q) PROVE InLine(q)'
    BY <1>0, <1>1, <2>0, <2>1 DEF InLine
  <2> QED BY <1>0, <1>1, <2>1, LossKept
<1>2. CASE ~UNCHANGED <<vless, user>>
  <2> SUFFICES ASSUME ~broke PROVE LossInv'
    BY <1>0 DEF LossInv
  <2>1. vless.fresh /\ (\A q \in Metered : InLine(q)) /\ user.total + Cardinality(Between(Marks, Counts)) = served
    BY DEF LossInv
  <2>2. PICK s : s = [epoch |-> job.got[n].epoch, count |-> job.got[n].count]
    OBVIOUS
  <2>3. /\ job.got[n].uuid = vless.uuid /\ job.got[n].epoch = 1 /\ Marks[n] <= s.count /\ s.count <= Counts[n]
        /\ s \in Reading /\ s.epoch = 1
    BY <1>0, <2>1, <2>2 DEF InLine, Answer, Reading
  <2>4. vless' = [vless EXCEPT !.snaps[n] = s] /\ user' = Traffic!Charged(Due(n))
    BY <1>2, <2>2, <2>3, RecordsIs DEF Traffic!SameUuid
  <2>5. /\ vless'.fresh /\ vless'.uuid = vless.uuid /\ vless'.snaps[n] = s
        /\ \A q \in Metered \ {n} : vless'.snaps[q] = vless.snaps[q]
    BY <1>0, <2>1, <2>4 DEF TrafficRow
  <2>6. user'.total = user.total + Due(n)
    BY <1>0, <2>4, ChargedIs
  <2>7. Counts' = Counts /\ Marks'[n] = s.count /\ \A q \in Metered \ {n} : Marks'[q] = Marks[q]
    BY <1>0, <2>3, <2>5, NoReading DEF Counts, Marks, Traffic!Recorded
  <2>8. Due(n) = s.count - Marks[n]
    <3>1. Due(n) = Traffic!Delta(vless.snaps[n], job.got[n])
      BY <2>3 DEF Due, Traffic!SameUuid
    <3>2. /\ vless.fresh = TRUE /\ vless.fresh \in BOOLEAN /\ vless.snaps[n] \in Reading \cup {None}
          /\ job.got[n].epoch \in Nat
          /\ job.got[n].epoch = 1 /\ job.got[n].count \in Nat /\ s.count = job.got[n].count
      BY <1>0, <2>1, <2>2, <2>3, ShapeParts DEF Answer
    <3>3. CASE vless.snaps[n] = None
      <4>1. Marks[n] = 0
        BY <3>3 DEF Marks, Traffic!Recorded
      <4>2. Traffic!Delta(vless.snaps[n], job.got[n]) = job.got[n].count
        BY <3>2, <3>3, DeltaIs
      <4> QED BY <3>1, <3>2, <4>1, <4>2
    <3>4. CASE vless.snaps[n] # None
      <4>1. Marks[n] = vless.snaps[n].count /\ vless.snaps[n].epoch = 1
        BY <2>1, <3>4 DEF Marks, Traffic!Recorded, InLine
      <4>2. Traffic!Delta(vless.snaps[n], job.got[n]) = job.got[n].count - vless.snaps[n].count
        BY <2>3, <3>2, <3>4, <4>1, DeltaIs
      <4> QED BY <3>1, <3>2, <4>1, <4>2
    <3> QED BY <3>3, <3>4
  <2>9. PICK m \in [Metered -> Nat] : m = Marks'
    <3>1. \A q \in Metered : Marks'[q] \in Nat
      BY <2>3, <2>7, MarksType DEF Reading
    <3> QED BY <3>1 DEF Marks
  <2>10. Cardinality(Between(Marks, Counts)) = Cardinality(Between(m, Counts)) + Due(n)
    <3>1. /\ Marks[n] <= m[n] /\ m[n] <= Counts[n] /\ m[n] - Marks[n] = Due(n)
          /\ (\A q \in Metered \ {n} : m[q] = Marks[q])
      BY <2>3, <2>7, <2>8, <2>9
    <3> QED BY <2>9, <3>1, MarksType, Lowered
  <2>11. user.total \in Nat /\ served \in Nat /\ Cardinality(Between(m, Counts)) \in Nat
    BY ShapeParts, BetweenFinite
  <2>12. user'.total + Cardinality(Between(Marks', Counts')) = served'
    BY <1>0, <2>1, <2>6, <2>7, <2>9, <2>10, <2>11
  <2>13. ASSUME NEW q \in Metered PROVE InLine(q)'
    <3>1. CASE q # n
      BY <1>0, <2>1, <2>5, <2>7, <3>1 DEF InLine
    <3>2. CASE q = n
      BY <1>0, <2>1, <2>3, <2>5, <2>7, <3>2 DEF InLine
    <3> QED BY <3>1, <3>2
  <2> QED BY <1>0, <2>5, <2>12, <2>13 DEF LossInv
<1> QED BY <1>1, <1>2

LEMMA LossStep ==
    ASSUME Traffic!TrafficConstants, TrafficShape, TrafficShape', LossInv, [Traffic!Next]_Traffic!vars
    PROVE  LossInv'
<1>1. ASSUME UNCHANGED <<vless, user, node, served, broke>>,
             \/ job' = Idle
             \/ job'.rest = {}
             \/ job # Idle /\ job'.rest = job.rest /\ job'.got = job.got
      PROVE LossInv'
  <2>1. Marks' = Marks /\ Counts' = Counts
    BY <1>1 DEF Marks, Counts, Traffic!Recorded
  <2>2. ASSUME NEW q \in Metered, InLine(q) PROVE InLine(q)'
    BY <1>1, <2>1, <2>2 DEF InLine
  <2> QED BY <1>1, <2>2, LossKept
<1>2. ASSUME UNCHANGED <<vless, user, node, served, broke, job>> PROVE LossInv'
  BY <1>2 DEF LossInv, InLine, Marks, Counts, Traffic!Recorded
<1>3. ASSUME broke' = TRUE PROVE LossInv'
  BY <1>3 DEF LossInv
<1>4. CASE Traffic!Rotates \/ \E n \in Metered : Traffic!StartsAnew(n)
  BY <1>3, <1>4 DEF Traffic!Rotates, Traffic!StartsAnew
<1>5. CASE Traffic!PassBegins
  <2>1. job'.rest = {}
    BY <1>5, BeginsIs
  <2> QED BY <1>1, <1>5, <2>1, BeginsIs
<1>6. CASE Traffic!PassEnds \/ Traffic!Crash
  BY <1>1, <1>6 DEF Traffic!PassEnds, Traffic!Crash
<1>7. CASE Traffic!SumsUp
  BY <1>1, <1>7, SumsUpIs
<1>8. CASE Traffic!LooksAtQuota
  BY <1>1, <1>8, LooksIs
<1>9. CASE Traffic!MonthTurns \/ \E a \in sending : Traffic!SendsAlert(a)
  BY <1>2, <1>9 DEF Traffic!MonthTurns, Traffic!SendsAlert
<1>10. CASE UNCHANGED Traffic!vars
  BY <1>2, <1>10 DEF Traffic!vars
<1> QED BY <1>4, <1>5, <1>6, <1>7, <1>8, <1>9, <1>10, LossServes, LossAsks, LossRecords
    DEF Traffic!Next

\* Before anything is served nothing is due.
LEMMA SumsInit ==
    ASSUME Traffic!TrafficConstants, Traffic!Init PROVE PotInv /\ LossInv
<1>0. /\ TrafficShape /\ user.total = 0 /\ served = 0 /\ job = Idle
      /\ \A n \in Metered : node[n] = [epoch |-> 1, count |-> 0] /\ vless.snaps[n] = None
  BY ShapeInit DEF Traffic!Init, Traffic!NoSnaps
<1>1. ASSUME NEW high \in [Metered -> Nat], NEW low \in [Metered -> Nat], \A n \in Metered : high[n] = 0
      PROVE Cardinality(Between(low, high)) = 0
  <2>1. Between(low, high) = {}
    BY <1>1, WideIs DEF Between
  <2> QED BY <2>1, FS_EmptySet
<1>2. \A n \in Metered : Pots[n] = 0 /\ Counts[n] = 0 /\ Marks[n] = 0
  <2>1. ASSUME NEW n \in Metered PROVE Pots[n] = 0
    <3>1. Pots[n] = Gain(vless.fresh, vless.snaps[n], node[n])
      BY <1>0 DEF Pots, Pending
    <3>2. node[n] \in Reading /\ node[n].count = 0
      BY <1>0, ShapeParts
    <3> QED BY <1>0, <3>1, <3>2, ShapeParts, GainNothing
  <2> QED BY <1>0, <2>1 DEF Counts, Marks, Traffic!Recorded
<1>3. PotInv
  <2>1. Zero \in [Metered -> Nat] /\ Pots \in [Metered -> Nat]
    BY <1>0, PotsType DEF Zero
  <2>2. Cardinality(Between(Zero, Pots)) = 0
    BY <1>1, <1>2, <2>1
  <2> QED BY <1>0, <2>2 DEF PotInv
<1>4. Cardinality(Between(Marks, Counts)) = 0
  BY <1>0, <1>1, <1>2, MarksType
<1>5. ~broke => vless.fresh
  <2>1. PICK f \in BOOLEAN : vless = [uuid |-> 1, fresh |-> f, snaps |-> Traffic!NoSnaps] /\ broke = ~f
    BY DEF Traffic!Init
  <2>2. CASE f = TRUE
    BY <2>1, <2>2
  <2>3. CASE f = FALSE
    BY <2>1, <2>3
  <2> QED BY <2>1, <2>2, <2>3
<1>6. \A n \in Metered : InLine(n)
  BY <1>0, <1>2 DEF InLine
<1> QED BY <1>0, <1>3, <1>4, <1>5, <1>6 DEF LossInv

TrafficInv == TrafficShape /\ AlertsFit /\ PotInv /\ LossInv

LEMMA TrafficMeans ==
    ASSUME Traffic!TrafficConstants, TrafficInv
    PROVE  Traffic!TypeOK /\ Traffic!NeverOvercounted /\ Traffic!NothingLost /\ Traffic!ToldOnce
<1>1. Traffic!TypeOK
  <2>1. user \in Account /\ user.month <= user.total
        /\ sums \in [Metered -> [cycle : 0..MaxMonth, bytes : Nat]]
    BY DEF TrafficInv, TrafficShape
  <2>2. alerted \subseteq Traffic!Months /\ sending \subseteq Traffic!Months \X Metered
    BY DEF TrafficInv, AlertsFit
  <2> QED BY <2>1, <2>2 DEF Traffic!TypeOK, Account
<1>2. Traffic!NeverOvercounted
  <2>1. user.total \in Nat /\ served \in Nat /\ Cardinality(Between(Zero, Pots)) \in Nat
    BY ShapeParts, BetweenFinite DEF TrafficInv
  <2> QED BY <2>1 DEF TrafficInv, PotInv, Traffic!NeverOvercounted
<1>3. Traffic!NothingLost
  <2>1. Between(Marks, Counts) = Traffic!Unrecorded
    <3>1. MaxServed \in Nat /\ Wide = 2 * MaxServed + 1
      BY DEF Traffic!TrafficConstants, Wide
    <3>2. Counts \in [Metered -> 0..MaxServed]
      BY MarksType DEF TrafficInv
    <3>3. \A q \in Metered : Marks[q] = Traffic!Recorded(q) /\ Counts[q] = node[q].count
      BY DEF Marks, Counts
    <3>4. ASSUME NEW b \in Metered \X (1..Wide), b[2] <= Counts[b[1]] PROVE b \in Metered \X (1..MaxServed)
      BY <3>1, <3>2, <3>4
    <3>5. Metered \X (1..MaxServed) \subseteq Metered \X (1..Wide)
      BY <3>1
    <3> QED BY <3>3, <3>4, <3>5 DEF Between, Traffic!Unrecorded
  <2> QED BY <2>1, SetsCount DEF TrafficInv, LossInv, Traffic!NothingLost
<1>4. Traffic!ToldOnce
  BY DEF TrafficInv, AlertsFit, Traffic!ToldOnce
<1> QED BY <1>1, <1>2, <1>3, <1>4

\* record_vless_traffic_atomic and _send_quota_alert: no byte of a user is counted
\* twice, none is lost while the credential and the counters stay, and the alert
\* of a month goes out once between two restarts: whatever nodes start anew,
\* requests fail and passes die, for any nodes and any number of bytes.
THEOREM TrafficCounted ==
    ASSUME Traffic!TrafficConstants
    PROVE  /\ Traffic!Spec => [](Traffic!TypeOK /\ Traffic!NeverOvercounted /\ Traffic!NothingLost
                                 /\ Traffic!ToldOnce)
           /\ Traffic!Spec => []TrafficExact
<1>1. Traffic!Init => TrafficInv
  BY ShapeInit, SumsInit DEF TrafficInv
<1>2. TrafficInv /\ [Traffic!Next]_Traffic!vars => TrafficInv'
  BY ShapeStep, AlertsStep, PotStep, LossStep DEF TrafficInv
<1>3. TrafficInv => /\ Traffic!TypeOK /\ Traffic!NeverOvercounted /\ Traffic!NothingLost /\ Traffic!ToldOnce
                    /\ TrafficExact
  BY TrafficMeans DEF TrafficExact
<1> QED BY <1>1, <1>2, <1>3, PTL DEF Traffic!Spec
=============================================================================
