------------------------------ MODULE NodeHealth -----------------------------
(***************************************************************************)
(* The health of one server as node_monitor keeps it: in memory (st) and   *)
(* in the server's row, which also the bot's other processes and admins    *)
(* see.  A check probes the node without a transaction, works on the       *)
(* memory, and saves by compare-and-swap against what the memory held      *)
(* when the probe began.  Only a check whose save was applied tells the    *)
(* admins.  Meanwhile an admin may switch the server off and on.           *)
(***************************************************************************)
EXTENDS Integers, TLC

CONSTANTS
    Kinds,     \* disturbances of an instance: toggle crash lost dberror flip
    MaxEvents, \* bound on their number
    Cap,       \* counters count no further
    Required,  \* REQUIRED_STABLE_SUCCESSES
    Idle       \* nothing

VARIABLES
    row,    \* the server's row
    st,     \* ServerMonitorState
    check,  \* the check under way
    toggle, \* the row an admin's transaction has written and not committed
    up,     \* does the node answer
    told,   \* history: what the admins were last told of an outage
    streak, \* history: failed probes since the last success that was saved
    events  \* disturbances so far

vars == <<row, st, check, toggle, up, told, streak, events>>

Fresh == [health |-> "ONLINE", fails |-> 0, succ |-> 0, alert |-> "none"]
Counts(n) == IF n < Cap THEN n + 1 ELSE n

Event(kind) == kind \in Kinds /\ events < MaxEvents /\ events' = events + 1

\* sync_from_db_server.
Synced(r) ==
    [health |-> IF r.active THEN r.health ELSE "DISABLED",
     fails |-> r.fails, succ |-> r.succ, alert |-> r.alert]

-----------------------------------------------------------------------------
\* The state after a probe that the node answered.
Healthy(m) ==
    CASE m.health = "WAITING" -> [m EXCEPT !.health = "ONLINE", !.fails = 0, !.succ = 0]
      [] m.health = "ONLINE" -> [m EXCEPT !.fails = 0, !.succ = Counts(@)]
      [] m.health = "PROBLEM" ->
           [m EXCEPT !.fails = 0, !.succ = Counts(@),
                     !.health = IF m.succ + 1 >= Required THEN "ONLINE" ELSE @]
      [] OTHER -> m

\* The state after one it did not answer.
Failed(m) ==
    CASE m.health = "ONLINE" -> [m EXCEPT !.health = "WAITING", !.fails = 1, !.succ = 0]
      [] m.health = "WAITING" -> [m EXCEPT !.health = "PROBLEM", !.fails = 2, !.succ = 0]
      [] m.health = "PROBLEM" -> [m EXCEPT !.fails = Counts(@), !.succ = 0]
      [] OTHER -> [m EXCEPT !.succ = 0]

\* What the admins are to be told when the check takes m to n.  A note is a
\* reminder or a full disk: it says nothing new of the outage.
Alerts(m, n, ok) ==
    IF n.health = "PROBLEM"
    THEN IF n.alert # "problem" \/ m.health = "WAITING" THEN {"problem"} ELSE {"none", "note"}
    ELSE IF ok /\ n.health = "ONLINE" /\ (m.health = "PROBLEM" \/ (m.health = "ONLINE" /\ m.alert = "problem"))
    THEN {"restored"}
    ELSE IF ok /\ m.health = "ONLINE" THEN {"none", "note"} ELSE {"none"}

\* update_server_health_snapshot: is the snapshot still that of the row?
Applies(expected) ==
    /\ row.active /\ row.health # "DISABLED"
    /\ row.health = expected.health
    /\ row.fails = expected.fails /\ row.succ = expected.succ

-----------------------------------------------------------------------------
\* The cycle lists the servers; a server it sees first gets its state.
ListServers ==
    /\ check = Idle
    /\ st' = IF st = Idle THEN Synced(row) ELSE st
    /\ check' = [phase |-> "listed", active |-> row.active]
    /\ UNCHANGED <<row, toggle, up, told, streak, events>>

\* A disabled server is skipped.
SkipDisabled ==
    /\ check # Idle /\ check.phase = "listed" /\ ~check.active
    /\ st' = [st EXCEPT !.health = "DISABLED"]
    /\ check' = Idle
    /\ UNCHANGED <<row, toggle, up, told, streak, events>>

\* The probe begins: what the memory holds now is what the save expects.
BeginProbe ==
    /\ check # Idle /\ check.phase = "listed" /\ check.active
    /\ st' = IF st.health = "DISABLED" THEN Fresh ELSE st
    /\ check' = [phase |-> "probing", expected |-> st']
    /\ UNCHANGED <<row, toggle, up, told, streak, events>>

\* The node has answered or not, and the memory follows.
Evaluate ==
    /\ check # Idle /\ check.phase = "probing"
    /\ LET new == IF up THEN Healthy(st) ELSE Failed(st)
       IN  \E alert \in Alerts(st, new, up) :
             /\ st' = new
             /\ check' = [phase |-> "save", expected |-> check.expected, new |-> new, alert |-> alert]
    /\ streak' = IF up THEN streak ELSE Counts(streak)
    /\ UNCHANGED <<row, toggle, up, told, events>>

Saved(done) == IF done /\ check.alert # "none" THEN [phase |-> "tell", alert |-> check.alert] ELSE Idle

\* The compare-and-swap; one that is refused takes the row's state over.
Save ==
    /\ check # Idle /\ check.phase = "save" /\ toggle = Idle
    /\ IF Applies(check.expected)
       THEN /\ row' = check.new @@ [active |-> TRUE]
            /\ streak' = IF check.new.fails = 0 THEN 0 ELSE streak
            /\ UNCHANGED st
       ELSE st' = Synced(row) /\ UNCHANGED <<row, streak>>
    /\ check' = Saved(Applies(check.expected))
    /\ UNCHANGED <<toggle, up, told, events>>

\* The transaction fails: the memory is ahead of the row.
SaveFails ==
    /\ Event("dberror") /\ check # Idle /\ check.phase = "save"
    /\ check' = Idle
    /\ UNCHANGED <<row, st, toggle, up, told, streak>>

Tell ==
    /\ check # Idle /\ check.phase = "tell"
    /\ told' = IF check.alert = "note" THEN told ELSE check.alert
    /\ st' = CASE check.alert = "note" -> st
               [] check.alert = "problem" -> [st EXCEPT !.alert = "problem"]
               [] check.alert = "restored" -> [st EXCEPT !.alert = "restored"]
    /\ check' = [phase |-> "record"]
    /\ UNCHANGED <<row, toggle, up, streak, events>>

TellFails ==
    /\ Event("lost") /\ check # Idle /\ check.phase = "tell"
    /\ check' = Idle
    /\ UNCHANGED <<row, st, toggle, up, told, streak>>

\* What was delivered goes to the row, unless the server is disabled.
Record ==
    /\ check # Idle /\ check.phase = "record" /\ toggle = Idle
    /\ row' = IF row.health = "DISABLED" THEN row ELSE [row EXCEPT !.alert = st.alert]
    /\ check' = Idle
    /\ UNCHANGED <<st, toggle, up, told, streak, events>>

-----------------------------------------------------------------------------
\* toggle_server_apply: the row is written, the memory reset, then the
\* transaction commits.
ToggleWrites ==
    /\ Event("toggle") /\ toggle = Idle
    /\ toggle' = IF row.active
                 THEN [row EXCEPT !.active = FALSE, !.health = "DISABLED"]
                 ELSE Fresh @@ [active |-> TRUE]
    /\ st' = [Fresh EXCEPT !.health = toggle'.health]
    /\ told' = "none"
    /\ UNCHANGED <<row, check, up, streak>>

ToggleCommits ==
    /\ toggle # Idle
    /\ row' = toggle /\ toggle' = Idle
    /\ UNCHANGED <<st, check, up, told, streak, events>>

\* The bot stops and starts again.
Crash ==
    /\ Event("crash")
    /\ st' = Idle /\ check' = Idle /\ toggle' = Idle
    /\ UNCHANGED <<row, up, told, streak>>

\* The node goes down or comes back.
Flip == Event("flip") /\ up' = ~up /\ UNCHANGED <<row, st, check, toggle, told, streak>>

Init ==
    /\ row = Fresh @@ [active |-> TRUE]
    /\ st = Idle /\ check = Idle /\ toggle = Idle
    /\ up = TRUE /\ told = "none" /\ streak = 0 /\ events = 0

Monitor == ListServers \/ SkipDisabled \/ BeginProbe \/ Evaluate \/ Save \/ Tell \/ Record

Next == Monitor \/ SaveFails \/ TellFails \/ ToggleWrites \/ ToggleCommits \/ Crash \/ Flip

Spec == Init /\ [][Next]_vars

-----------------------------------------------------------------------------
Memory == [health : {"ONLINE", "WAITING", "PROBLEM", "DISABLED"}, fails : 0..Cap, succ : 0..Cap,
           alert : {"none", "problem", "restored"}]

\* Rows and memory are well formed.
TypeOK ==
    /\ [h \in DOMAIN row \ {"active"} |-> row[h]] \in Memory /\ row.active \in BOOLEAN
    /\ st = Idle \/ st \in Memory
    /\ told \in {"none", "problem", "restored"} /\ streak \in 0..Cap

\* No check in flight brings a server back that an admin has switched off.
DisabledStays == ~row.active => row.health = "DISABLED"

\* A server is declared down only after two probes in a row have failed,
\* whatever checks, switches, crashes and failed saves overlap.
OutageIsConfirmed == row'.health = "PROBLEM" /\ row.health # "PROBLEM" => streak' >= 2

\* The admins are told only of a state that the row has just taken: a check
\* that another overtook is silent.
TellsWhatIsSaved ==
    (check' # Idle /\ check'.phase = "tell" /\ check' # check) =>
      CASE check'.alert = "problem" -> row'.health = "PROBLEM"
        [] check'.alert = "restored" -> row'.health = "ONLINE"
        [] OTHER -> row'.active
=============================================================================
