------------------------------ MODULE MCAdmin ------------------------------
(* What administrators do and what it meets, on small instances of           *)
(* Administration, ServerRegistry and NodeHealth.  Each scene is one         *)
(* component on its own, with the operations whose interplay it is about:    *)
(* the product of the scenes would show nothing more.  In the scenes of the  *)
(* others the user of AdminAccess rests.                                     *)
EXTENDS Administration, TLC

CONSTANTS a1, a2,    \* administrators
          s1, s2,    \* servers
          u1, u2,    \* subscriptions and users
          Nowhere

VARIABLES scene,
          row,                            \* of ServerRegistry or NodeHealth
          sub, admin, checked,            \* ServerRegistry
          st, check, toggle, told, streak \* NodeHealth

\* The standard subscription of a user and what else changes it; White Internet;
\* and the bonus balance, with two administrators.
StandardCards == INSTANCE AdminAccess WITH
  Admins <- {a1}, MaxEvents <- 5, Kinds <- {"std", "tap", "ban", "device", "renewal", "fail"}
WhiteCards == INSTANCE AdminAccess WITH
  Admins <- {a1}, MaxEvents <- 5, Kinds <- {"wi", "tap"}
BalanceCards == INSTANCE AdminAccess WITH
  Numbers <- {1, 2}, Kinds <- {"bal", "tap"}
NoWhite == wi.kind = "none"
NoStandard == user.end = 0 /\ user.limit = 2 /\ user.devices = 0

\* One administrator and everything that may happen; two administrators.
OneAdmin == INSTANCE ServerRegistry WITH
  Servers <- {s1, s2}, Subs <- {u1, u2}, Admins <- {a1}, Urls <- {"url", "url2"},
  Keys <- {"key", "key2"}, Maxes <- {1, 2}, MaxEvents <- 5,
  Kinds <- {"add", "url", "key", "max", "toggle", "expire", "migrate", "delete", "purge", "crash"},
  events <- faults
TwoAdmins == INSTANCE ServerRegistry WITH
  Servers <- {s1, s2}, Subs <- {u1, u2}, Admins <- {a1, a2}, Urls <- {"url", "url2"},
  Keys <- {"key", "key2"}, Maxes <- {1, 2}, MaxEvents <- 5,
  Kinds <- {"add", "max", "toggle", "expire", "migrate", "delete"},
  events <- faults

Health == INSTANCE NodeHealth WITH
  Kinds <- {"toggle", "crash", "lost", "dberror", "flip"}, MaxEvents <- 6, Cap <- 3, Required <- 3,
  events <- faults

Hiding == INSTANCE FeedSettings WITH
  Admins <- Staff, MaxEvents <- 4, Kinds <- {"open", "toggle", "reset", "relays", "url"},
  form <- prompt, events <- faults

Bonus == INSTANCE MassGrants WITH
  Users <- People, Admins <- Staff, Numbers <- {0, 1, 3}, MaxEvents <- 4,
  Kinds <- {"open", "pick", "bonus", "refuse", "crash"},
  form <- prompt, talks <- begun, events <- faults
Extend == INSTANCE MassGrants WITH
  Users <- People, Admins <- Staff, Numbers <- {0, 1, 3}, MaxEvents <- 5,
  Kinds <- {"open", "pick", "again", "apply", "cancel", "refuse", "crash", "person"},
  form <- prompt, talks <- begun, events <- faults

Mailing == INSTANCE Broadcast WITH
  Admins <- Staff, Audiences <- {"all"}, MaxEvents <- 7,
  Kinds <- {"form", "launch", "dbfail", "fail", "crash", "error", "user"},
  user <- member, form <- prompt, row <- progress, due <- dueAll, events <- faults

-----------------------------------------------------------------------------
ASSUME InstancesFit == News!BroadcastConstants /\ Mass!GrantConstants

ofServers == <<sub, admin, checked>>
ofHealth == <<st, check, toggle, told, streak>>
ofFeed == <<extra, job, hid, dropped>>
ofMass == <<person, click, busy, lock, run, chosen, begun>>
ofNews == <<member, progress, claim, owned, worker, launch, got, tried, dueAll, breaks>>
shared == <<row, up, prompt, faults>>
allVars == <<scene, vars, ofServers, ofHealth, ofFeed, ofMass, ofNews, shared>>

NoServers == sub = Idle /\ admin = Idle /\ checked = Idle
NoHealth == st = Idle /\ check = Idle /\ toggle = Idle /\ told = Idle /\ streak = Idle
NoFeed == extra = Idle /\ job = Idle /\ hid = Idle /\ dropped = Idle
NoMass ==
  /\ person = Idle /\ click = Idle /\ busy = Idle /\ lock = Idle
  /\ run = Idle /\ chosen = Idle /\ begun = Idle
NoNews ==
  /\ member = Idle /\ progress = Idle /\ claim = Idle /\ owned = Idle /\ worker = Idle /\ launch = Idle
  /\ got = Idle /\ tried = Idle /\ dueAll = Idle /\ breaks = Idle

\* A user with a card in one scene; nobody's in the others.
CardsInit ==
  /\ NoServers /\ NoHealth /\ NoFeed /\ NoMass /\ NoNews
  /\ row = Idle /\ up = Idle /\ prompt = Idle /\ faults = Idle
  /\ \/ scene = "standard" /\ NoWhite
     \/ scene = "white" /\ NoStandard
     \/ scene = "balance" /\ NoWhite /\ NoStandard

OthersInit ==
  \/ /\ \/ scene = "oneAdmin" /\ OneAdmin!Init
        \/ scene = "twoAdmins" /\ TwoAdmins!Init
     /\ NoHealth /\ NoFeed /\ NoMass /\ NoNews /\ up = Idle /\ prompt = Idle
  \/ /\ scene = "health" /\ Health!Init
     /\ NoServers /\ NoFeed /\ NoMass /\ NoNews /\ prompt = Idle
  \/ /\ scene = "feed" /\ Hiding!Init
     /\ NoServers /\ NoHealth /\ NoMass /\ NoNews /\ row = Idle /\ up = Idle
  \/ /\ scene \in {"bonus", "extend"} /\ Bonus!Init
     /\ \A u \in People : person[u].std /\ person[u].seen /\ ~person[u].out
     /\ NoServers /\ NoHealth /\ NoFeed /\ NoNews /\ row = Idle /\ up = Idle
  \/ /\ scene = "news" /\ Mailing!Init
     /\ NoServers /\ NoHealth /\ NoFeed /\ NoMass /\ row = Idle

AdminInit ==
  /\ Init
  /\ \/ CardsInit
     \/ OthersInit /\ NoWhite /\ NoStandard

notServers == <<vars, ofHealth, ofFeed, ofMass, ofNews, up, prompt>>
notHealth == <<vars, ofServers, ofFeed, ofMass, ofNews, prompt>>
notFeed == <<vars, ofServers, ofHealth, ofMass, ofNews, row, up>>
notMass == <<vars, ofServers, ofHealth, ofFeed, ofNews, row, up>>
notNews == <<vars, ofServers, ofHealth, ofFeed, ofMass, row>>

CardsNext ==
  \/ scene = "standard" /\ StandardCards!Next
  \/ scene = "white" /\ WhiteCards!Next
  \/ scene = "balance" /\ BalanceCards!Next

AdminNext ==
  /\ UNCHANGED scene
  /\ \/ CardsNext /\ UNCHANGED <<ofServers, ofHealth, ofFeed, ofMass, ofNews, shared>>
     \/ scene = "oneAdmin" /\ OneAdmin!Next /\ UNCHANGED notServers
     \/ scene = "twoAdmins" /\ TwoAdmins!Next /\ UNCHANGED notServers
     \/ scene = "health" /\ Health!Next /\ UNCHANGED notHealth
     \/ scene = "feed" /\ Hiding!Next /\ UNCHANGED notFeed
     \/ scene = "bonus" /\ Bonus!Next /\ UNCHANGED notMass
     \/ scene = "extend" /\ Extend!Next /\ UNCHANGED notMass
     \/ scene = "news" /\ Mailing!Next /\ UNCHANGED notNews

AdminSpec == AdminInit /\ [][AdminNext]_allVars

Alike == Permutations({s1, s2}) \cup Permutations({u1, u2}) \cup Permutations(Sessions)

-----------------------------------------------------------------------------
\* Who has a place is on a server that exists, the address and key of a server
\* have been tried together if edits come one at a time, and no check in flight
\* brings a server back that an administrator has switched off; a server never gets more subscriptions
\* than it has places, is declared down only after two failed probes in a row,
\* and administrators are told only of a state the row has just taken
\* (ServerRegistry, NodeHealth).
ServersHold ==
  /\ [](/\ scene = "oneAdmin" =>
             OneAdmin!TypeOK /\ OneAdmin!NobodyStranded /\ OneAdmin!EndpointChecked
        /\ scene = "twoAdmins" => TwoAdmins!TypeOK /\ TwoAdmins!NobodyStranded
        /\ scene = "health" => Health!TypeOK /\ Health!DisabledStays)
  /\ [][/\ scene = "oneAdmin" => OneAdmin!PlacesHold
        /\ scene = "twoAdmins" => TwoAdmins!PlacesHold
        /\ scene = "health" => Health!OutageIsConfirmed /\ Health!TellsWhatIsSaved]_allVars
=============================================================================
