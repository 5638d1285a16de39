----------------------------- MODULE FeedSettings ----------------------------
(***************************************************************************)
(* What admins set for the feed of one White Internet server: the title    *)
(* and announcement, the name, badge and visibility of the origin and of   *)
(* each relay.  All of it lies in the server's extra_data beside the relay *)
(* list that the node reports, and every writer writes extra_data whole.   *)
(***************************************************************************)
EXTENDS Naturals

CONSTANTS
    Codes,     \* relays
    Admins,
    Texts,     \* what an admin may type: / - none own bad and "" (no text)
    Params,    \* title announce announce_url origin_name origin_badge
    Kinds,     \* operations of an instance
    MaxEvents, \* bound on their number
    Idle

VARIABLES
    extra, \* extra_data
    form,  \* per admin: the prompt that waits for a text
    job,   \* a screen that has asked the node, with the row it read before
    hid,   \* history: what admins have hidden
    dropped, \* history: settings have been overwritten by a copy from before them
    events

vars == <<extra, form, job, hid, dropped, events>>

Event(kind) == kind \in Kinds /\ events < MaxEvents /\ events' = events + 1

\* Nothing set: defaults everywhere.
Default == [param |-> [p \in Params |-> ""], originHidden |-> FALSE,
            names |-> [c \in Codes |-> "unset"], badges |-> [c \in Codes |-> "unset"], hidden |-> {}]

\* extra_data as an admin's handler finds it under the row's lock.
Keeping(e) == extra' = [extra EXCEPT !.set = e]

-----------------------------------------------------------------------------
\* The prompts; the open form says what the next text is for.
OpenParam(a, p) ==
    /\ Event("open") /\ form' = [form EXCEPT ![a] = [what |-> p, code |-> Idle]]
    /\ UNCHANGED <<extra, job, hid, dropped>>

OpenRelayName(a, c) ==
    /\ Event("open") /\ form' = [form EXCEPT ![a] = [what |-> "name", code |-> c]]
    /\ UNCHANGED <<extra, job, hid, dropped>>

OpenRelayBadge(a, c) ==
    /\ Event("open") /\ form' = [form EXCEPT ![a] = [what |-> "badge", code |-> c]]
    /\ UNCHANGED <<extra, job, hid, dropped>>

\* What a text makes of a parameter.
Parsed(p, text) ==
    CASE text = "-" -> ""
      [] text = "none" -> IF p = "origin_badge" THEN "none" ELSE ""
      [] OTHER -> text

\* process_server_incy_param_input: an address that is none is asked for again.
InputParam(a, text) ==
    /\ form[a] # Idle /\ form[a].what \in Params
    /\ \/ /\ text = "/" /\ form' = [form EXCEPT ![a] = Idle] /\ UNCHANGED extra
       \/ /\ form[a].what = "announce_url" /\ text \in {"bad", ""} /\ UNCHANGED <<extra, form>>
       \/ /\ text # "/" /\ ~(form[a].what = "announce_url" /\ text \in {"bad", ""})
          /\ Keeping([extra.set EXCEPT !.param[form[a].what] = Parsed(form[a].what, text)])
          /\ form' = [form EXCEPT ![a] = Idle]
    /\ UNCHANGED <<job, hid, dropped, events>>

\* process_server_incy_relay_name_input.
InputRelayName(a, text) ==
    /\ form[a] # Idle /\ form[a].what = "name"
    /\ IF text = "/" THEN UNCHANGED extra
       ELSE Keeping([extra.set EXCEPT !.names[form[a].code] = IF text = "-" THEN "unset" ELSE text])
    /\ form' = [form EXCEPT ![a] = Idle]
    /\ UNCHANGED <<job, hid, dropped, events>>

\* process_server_incy_relay_badge_input.
InputRelayBadge(a, text) ==
    /\ form[a] # Idle /\ form[a].what = "badge"
    /\ IF text = "/" THEN UNCHANGED extra
       ELSE Keeping([extra.set EXCEPT !.badges[form[a].code] = IF text = "-" THEN "unset" ELSE text])
    /\ form' = [form EXCEPT ![a] = Idle]
    /\ UNCHANGED <<job, hid, dropped, events>>

ToggleOrigin ==
    /\ Event("toggle")
    /\ Keeping([extra.set EXCEPT !.originHidden = ~@])
    /\ hid' = [hid EXCEPT !.origin = ~extra.set.originHidden]
    /\ UNCHANGED <<form, job, dropped>>

Flipped(c, set) == IF c \in set THEN set \ {c} ELSE set \cup {c}

ToggleRelay(c) ==
    /\ Event("toggle")
    /\ Keeping([extra.set EXCEPT !.hidden = Flipped(c, @)])
    /\ hid' = [hid EXCEPT !.relays = IF c \in extra.set.hidden THEN @ \ {c} ELSE @ \cup {c}]
    /\ UNCHANGED <<form, job, dropped>>

Reset ==
    /\ Event("reset") /\ Keeping(Default)
    /\ hid' = [origin |-> FALSE, relays |-> {}] /\ dropped' = FALSE
    /\ UNCHANGED <<form, job>>

-----------------------------------------------------------------------------
\* show_server_relays asks the node for its relays and their health ...
RelaysAsks ==
    /\ Event("relays") /\ job = Idle
    /\ job' = [kind |-> "relays", copy |-> extra]
    /\ UNCHANGED <<extra, form, hid, dropped>>

\* Variant: the list goes into the row as it was read before the node was asked.
OntoCopy(list) == [job.copy EXCEPT !.relays = list]

\* The row is locked and read anew.
OntoRow(list) == [extra EXCEPT !.relays = list]

\* ... and stores what the node says: each relay with or without a badge.
RelaysStores(list) ==
    /\ job # Idle /\ job.kind = "relays"
    /\ extra' = OntoRow(list) /\ job' = Idle
    /\ UNCHANGED <<form, hid, dropped, events>>

\* An edit of the server's address asks the node, too, and writes the domains
\* into the extra_data it has read before.
UrlReads ==
    /\ Event("url") /\ job = Idle
    /\ job' = [kind |-> "url", copy |-> extra]
    /\ UNCHANGED <<extra, form, hid, dropped>>

UrlWrites ==
    /\ job # Idle /\ job.kind = "url"
    /\ extra' = job.copy /\ job' = Idle
    /\ dropped' = (dropped \/ job.copy.set # extra.set)
    /\ UNCHANGED <<form, hid, events>>

Init ==
    /\ extra = [set |-> Default, relays |-> [c \in Codes |-> "plain"]]
    /\ form = [a \in Admins |-> Idle] /\ job = Idle
    /\ hid = [origin |-> FALSE, relays |-> {}] /\ dropped = FALSE /\ events = 0

Next ==
    \/ \E a \in Admins :
         \/ \E p \in Params : OpenParam(a, p)
         \/ \E c \in Codes : OpenRelayName(a, c) \/ OpenRelayBadge(a, c)
         \/ \E text \in Texts : InputParam(a, text) \/ InputRelayName(a, text) \/ InputRelayBadge(a, text)
    \/ ToggleOrigin \/ Reset \/ RelaysAsks \/ UrlReads \/ UrlWrites
    \/ \E c \in Codes : ToggleRelay(c)
    \/ \E list \in [Codes -> {"absent", "plain", "badged"}] : RelaysStores(list)

Spec == Init /\ [][Next]_vars

-----------------------------------------------------------------------------
\* What the cards show.
OriginCard ==
    CASE extra.set.param["origin_badge"] = "none" -> "off"
      [] extra.set.param["origin_badge"] = "" -> "default"
      [] OTHER -> "own"

RelayCard(c) ==
    CASE extra.set.badges[c] = "none" -> "off"
      [] extra.set.badges[c] \in {"unset", ""} -> IF extra.relays[c] = "badged" THEN "node" ELSE "default"
      [] OTHER -> "own"

\* What a feed delivers: the badge of the origin and of each relay; a badge
\* that nobody set comes from the node or the environment.
OriginServed == CASE extra.set.param["origin_badge"] = "none" -> "no"
                  [] extra.set.param["origin_badge"] = "" -> "environment"
                  [] OTHER -> "own"

RelayServed(c) ==
    CASE extra.set.badges[c] \in {"none", ""} -> "no"
      [] extra.set.badges[c] = "unset" -> IF extra.relays[c] = "badged" THEN "node" ELSE "environment"
      [] OTHER -> "own"

ServedRelays == {c \in Codes : extra.relays[c] # "absent" /\ c \notin extra.set.hidden}

\* What is set is one of the things that can be typed.
TypeOK ==
    /\ extra.set.param \in [Params -> {"", "none", "own"} \cup Texts]
    /\ extra.set.hidden \subseteq Codes /\ extra.relays \in [Codes -> {"absent", "plain", "badged"}]
    /\ \A a \in Admins : form[a] = Idle \/ form[a].what \in Params \cup {"name", "badge"}
    /\ dropped \in BOOLEAN

\* What an admin has hidden stays out of the feed until it is shown again or
\* all is reset, whoever else writes the row meanwhile; only an edit of the
\* server's address brings back what was set before it asked the node.
HiddenIsNotServed ==
    ~dropped => hid.relays \cap ServedRelays = {} /\ (hid.origin => extra.set.originHidden)

\* A badge that the card calls switched off is in no feed.
OffIsOff ==
    /\ OriginCard = "off" => OriginServed = "no"
    /\ \A c \in Codes : RelayCard(c) = "off" => RelayServed(c) = "no"
=============================================================================
