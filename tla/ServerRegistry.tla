---------------------------- MODULE ServerRegistry ---------------------------
(***************************************************************************)
(* The servers as admins keep them, and the White Internet subscriptions   *)
(* that live on them.  An edit of the address or the key reads the row,    *)
(* asks the node over the network whether it answers there, and only then  *)
(* locks and writes the row; the locked row is the object the session read *)
(* before, so the write rests on that copy.  Servers are added, drained,   *)
(* deleted in two transactions, and purged when the node is lost.          *)
(***************************************************************************)
EXTENDS Integers, FiniteSets

CONSTANTS
    Servers,   \* rows, in the order of their ids
    Subs,      \* White Internet subscriptions
    Admins,    \* admins at work at a time
    Urls,      \* addresses
    Keys,      \* api keys
    Maxes,     \* max_clients
    Kinds,     \* operations of an instance
    MaxEvents, \* bound on their number
    Nowhere, Idle

VARIABLES
    row,     \* per server: exists, active, life, url, key, domain, max
    sub,     \* per subscription: origin and whether it takes a place
    admin,   \* what each admin is doing, with the row that was read for it
    checked, \* history: addresses with the key under which a node has answered
    events

vars == <<row, sub, admin, checked, events>>

Exists(s) == row[s].life \notin {"none", "deleted"}
Count(s) == Cardinality({b \in Subs : sub[b].origin = s /\ sub[b].takes})
Event(kind) == kind \in Kinds /\ events < MaxEvents /\ events' = events + 1
Ends(a) == admin' = [admin EXCEPT ![a] = Idle]
Asks(a, job) == admin[a] = Idle /\ admin' = [admin EXCEPT ![a] = job]
Does(a, kind) == admin[a] # Idle /\ admin[a].kind = kind

-----------------------------------------------------------------------------
\* ServerHealthService: the node answers at the address with the key.
Answers(url, key) == checked' = checked \cup {<<url, key>>}

\* process_add_server: an address that is free, then a key with which the
\* node answers there; the row is made if the address is still free.
AddAsks(a, s, url) ==
    /\ Event("add") /\ row[s].life = "none"
    /\ \A b \in Admins : ~(Does(b, "add") /\ admin[b].server = s)
    /\ \A t \in Servers : Exists(t) => row[t].url # url
    /\ Asks(a, [kind |-> "add", server |-> s, url |-> url])
    /\ UNCHANGED <<row, sub, checked>>

AddServer(a, key) ==
    /\ Does(a, "add")
    /\ LET s == admin[a].server
           url == admin[a].url
       IN  /\ Answers(url, key)
           /\ \E max \in Maxes :
                row' = IF \E t \in Servers : Exists(t) /\ row[t].url = url THEN row
                       ELSE [row EXCEPT ![s] = [active |-> TRUE, life |-> "active", url |-> url, key |-> key,
                                                domain |-> url, max |-> max]]
    /\ Ends(a) /\ UNCHANGED <<sub, events>>

\* An edit of address or key reads the row; the node answers at the new
\* address with the key of the row, or at its address with the new key.
EditUrlReads(a, s, url) ==
    /\ Event("url") /\ Exists(s)
    /\ \A t \in Servers \ {s} : Exists(t) => row[t].url # url
    /\ Answers(url, row[s].key)
    /\ Asks(a, [kind |-> "url", server |-> s, copy |-> row[s], url |-> url])
    /\ UNCHANGED <<row, sub>>

EditKeyReads(a, s, key) ==
    /\ Event("key") /\ Exists(s)
    /\ Answers(row[s].url, key)
    /\ Asks(a, [kind |-> "key", server |-> s, copy |-> row[s], key |-> key])
    /\ UNCHANGED <<row, sub>>

\* Address and key stay while customers are on the server.
MayMove(s) == \A b \in Subs : ~(sub[b].origin = s /\ sub[b].takes)

\* The new address, and the domains that go with it in extra_data, which is
\* written whole, from the copy.
EditUrlWrites(a) ==
    /\ Does(a, "url")
    /\ LET s == admin[a].server
           copy == admin[a].copy
           url == admin[a].url
       IN  IF Exists(s) /\ MayMove(s) /\ \A t \in Servers \ {s} : Exists(t) => row[t].url # url
           THEN row' = [row EXCEPT ![s].url = IF url = copy.url THEN @ ELSE url,
                                   ![s].domain = IF copy.domain = url THEN @ ELSE url]
           ELSE UNCHANGED row
    /\ Ends(a) /\ UNCHANGED <<sub, checked, events>>

EditKeyWrites(a) ==
    /\ Does(a, "key")
    /\ LET s == admin[a].server
       IN  row' = IF Exists(s) /\ MayMove(s) /\ admin[a].key # admin[a].copy.key
                  THEN [row EXCEPT ![s].key = admin[a].key] ELSE row
    /\ Ends(a) /\ UNCHANGED <<sub, checked, events>>

SetMaxClients(s, max) ==
    /\ Event("max") /\ Exists(s) /\ row[s].max # max
    /\ row' = [row EXCEPT ![s].max = max]
    /\ UNCHANGED <<sub, admin, checked>>

\* The screen asks whether to switch on or off; the answer flips what is there.
ToggleAsks(a, s) ==
    /\ Event("toggle") /\ Exists(s)
    /\ Asks(a, [kind |-> "toggle", server |-> s, on |-> ~row[s].active])
    /\ UNCHANGED <<row, sub, checked>>

ToggleApplies(a) ==
    /\ Does(a, "toggle")
    /\ row' = IF Exists(admin[a].server) THEN [row EXCEPT ![admin[a].server].active = ~@] ELSE row
    /\ Ends(a) /\ UNCHANGED <<sub, checked, events>>

-----------------------------------------------------------------------------
\* Room for n more under the server's lock.
Room(s, n) == Count(s) + n <= row[s].max

\* allocate_origin_server_atomic: a server in service with a place.
Allocate(b, s) ==
    /\ ~sub[b].takes
    /\ row[s].active /\ row[s].life = "active" /\ Room(s, 1)
    /\ sub' = [sub EXCEPT ![b] = [origin |-> s, takes |-> TRUE]]
    /\ UNCHANGED <<row, admin, checked, events>>

\* A subscription is over and the node has confirmed it.
Expire(b) ==
    /\ Event("expire") /\ sub[b].takes
    /\ sub' = [sub EXCEPT ![b].takes = FALSE]
    /\ UNCHANGED <<row, admin, checked>>

\* The admin has chosen a target from the servers in service.
MigrateAsks(a, from, to) ==
    /\ Event("migrate") /\ Exists(from) /\ from # to /\ Count(from) > 0
    /\ row[to].active /\ row[to].life = "active"
    /\ Asks(a, [kind |-> "migrate", from |-> from, to |-> to])
    /\ UNCHANGED <<row, sub, checked>>

\* migrate_origin_subscriptions: the target's places are counted under its
\* lock, all subscriptions move and the source is drained.
MayMigrate(from, to) == Exists(from) /\ row[to].active /\ Count(from) > 0 /\ Room(to, Count(from))

Migrate(a) ==
    /\ Does(a, "migrate")
    /\ LET from == admin[a].from
           to == admin[a].to
       IN  IF MayMigrate(from, to)
           THEN /\ row' = [row EXCEPT ![from].life = "draining"]
                /\ sub' = [b \in Subs |-> IF sub[b].origin = from /\ sub[b].takes
                                          THEN [origin |-> to, takes |-> TRUE] ELSE sub[b]]
           ELSE UNCHANGED <<row, sub>>
    /\ Ends(a) /\ UNCHANGED <<checked, events>>

\* Variant: the first transaction leaves the server in service.
LeftInService(r) == r

TakenOut(r) == [r EXCEPT !.active = FALSE, !.life = "draining"]

\* confirm_delete_server, first transaction: nobody may be on the server.
DeleteBegins(a, s) ==
    /\ Event("delete") /\ Exists(s) /\ Count(s) = 0
    /\ row' = [row EXCEPT ![s] = TakenOut(@)]
    /\ Asks(a, [kind |-> "delete", server |-> s])
    /\ UNCHANGED <<sub, checked>>

NoServer(life) == [active |-> FALSE, life |-> life, url |-> Nowhere, key |-> Nowhere, 
                   domain |-> Nowhere, max |-> 0]

\* The second removes it and lets its subscriptions go.
DeleteEnds(a) ==
    /\ Does(a, "delete")
    /\ LET s == admin[a].server
       IN  /\ row' = [row EXCEPT ![s] = NoServer("deleted")]
           /\ sub' = [b \in Subs |-> IF sub[b].origin = s THEN [sub[b] EXCEPT !.origin = Nowhere] ELSE sub[b]]
    /\ Ends(a) /\ UNCHANGED <<checked, events>>

\* confirm_purge_server: the node is lost, and with it its subscriptions.
Purge(s) ==
    /\ Event("purge") /\ Exists(s)
    /\ row' = [row EXCEPT ![s].active = FALSE, ![s].life = "gone"]
    /\ sub' = [b \in Subs |-> IF sub[b].origin = s THEN [origin |-> Nowhere, takes |-> FALSE] ELSE sub[b]]
    /\ UNCHANGED <<admin, checked>>

\* The process stops; what an admin was doing is lost.
Crash(a) == Event("crash") /\ admin[a] # Idle /\ Ends(a) /\ UNCHANGED <<row, sub, checked>>

Init ==
    /\ row = [s \in Servers |-> NoServer("none")]
    /\ sub = [b \in Subs |-> [origin |-> Nowhere, takes |-> FALSE]]
    /\ admin = [a \in Admins |-> Idle] /\ checked = {} /\ events = 0

Next ==
    \/ \E a \in Admins, s \in Servers :
         \/ \E url \in Urls : EditUrlReads(a, s, url) \/ AddAsks(a, s, url)
         \/ \E key \in Keys : EditKeyReads(a, s, key)
         \/ ToggleAsks(a, s) \/ DeleteBegins(a, s)
         \/ \E to \in Servers : MigrateAsks(a, s, to)
    \/ \E a \in Admins :
         \/ EditUrlWrites(a) \/ EditKeyWrites(a) \/ \E key \in Keys : AddServer(a, key)
         \/ ToggleApplies(a) \/ Migrate(a) \/ DeleteEnds(a) \/ Crash(a)
    \/ \E s \in Servers : Purge(s) \/ \E max \in Maxes : SetMaxClients(s, max)
    \/ \E b \in Subs : Expire(b) \/ \E s \in Servers : Allocate(b, s)

Spec == Init /\ [][Next]_vars

-----------------------------------------------------------------------------
\* A server that is not there keeps nothing; the others have an address.
TypeOK ==
    \A s \in Servers :
        IF Exists(s) THEN row[s].url \in Urls /\ row[s].key \in Keys /\ row[s].max \in Maxes
        ELSE row[s] = NoServer(row[s].life)

\* A server never gets more subscriptions than it has places: not by
\* allocations and migrations that overlap.
PlacesHold == \A s \in Servers : Count(s)' > Count(s) => Count(s)' <= row'[s].max

\* Who has a place is on a server that exists, also when one is deleted in
\* two steps between which customers come.
NobodyStranded == \A b \in Subs : sub[b].takes => sub[b].origin \in Servers /\ Exists(sub[b].origin)

\* The address and key of every server have been tried together.
EndpointChecked == \A s \in Servers : Exists(s) => <<row[s].url, row[s].key>> \in checked
=============================================================================
