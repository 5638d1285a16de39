---------------------------- MODULE IngressAlerts ----------------------------
(***************************************************************************)
(* The other outages node_monitor watches on a server that carries White   *)
(* Internet: its public address (ingress), the CDN before it, and the      *)
(* relays behind it.  Each has a flag "outage told" and counters, in       *)
(* memory and in the server's extra_data.  They are evaluated in one       *)
(* transaction under the server's lock, the alerts are sent after it, and  *)
(* a further transaction writes what was delivered.  The flag of ingress   *)
(* and CDN is set once the alert is delivered; that of a relay before, and *)
(* put back when the delivery fails.                                       *)
(***************************************************************************)
EXTENDS Integers

CONSTANTS
    Relay,     \* TRUE: a relay; FALSE: ingress or CDN
    Fails,     \* failed probes that confirm an outage
    Successes, \* successful ones that confirm its end
    Kinds,     \* disturbances: crash lost toggle reminder flip
    MaxEvents, \* bound on their number
    Idle       \* nothing

VARIABLES
    mem,    \* the monitor's state of it
    db,     \* extra_data of the row
    alert,  \* the alert to deliver: none, problem, reminder or restored, or recorded
    up,     \* does the address answer
    told,   \* history: what the admins were last told
    cut,    \* history: what they were told went unrecorded, and nothing was recorded since
    events  \* disturbances so far

vars == <<mem, db, alert, up, told, cut, events>>

Fresh == [flag |-> FALSE, fails |-> 0, succ |-> 0]
Event(kind) == kind \in Kinds /\ events < MaxEvents /\ events' = events + 1
Upto(n, most) == IF n < most THEN n + 1 ELSE most

-----------------------------------------------------------------------------
\* What the evaluation starts from.  A flag set in either place counts; the
\* counters of ingress and CDN are the row's, those of a relay the row's only
\* when the memory has none.
Held == IF mem = Idle THEN db ELSE mem

EndpointMerged == [flag |-> Held.flag \/ db.flag, fails |-> db.fails, succ |-> db.succ]

RelayMerged ==
    [flag |-> Held.flag \/ db.flag,
     fails |-> IF Held.fails > 0 THEN Held.fails ELSE db.fails,
     succ |-> IF Held.succ > 0 THEN Held.succ ELSE db.succ]

Merged == IF Relay THEN RelayMerged ELSE EndpointMerged

Counted(m) ==
    IF up THEN [m EXCEPT !.succ = Upto(@, Successes + 1), !.fails = 0]
    ELSE [m EXCEPT !.fails = Upto(@, Fails + 1), !.succ = 0]

\* Variant: an alert is due only when its count is reached exactly.
DueOnce(m, c) ==
    CASE ~up /\ ~m.flag /\ c.fails = Fails -> {"problem"}
      [] ~up /\ m.flag -> {"none", "reminder"}
      [] up /\ m.flag /\ c.succ = Successes -> {"restored"}
      [] OTHER -> {"none"}

\* The alert that the counters call for.  A reminder comes every hour.
EndpointDue(m, c) ==
    CASE ~up /\ ~m.flag /\ c.fails >= Fails -> {"problem"}
      [] ~up /\ m.flag -> {"none", "reminder"}
      [] up /\ m.flag /\ c.succ >= Successes -> {"restored"}
      [] OTHER -> {"none"}

RelayDue(m, c) ==
    CASE ~up /\ ~m.flag /\ c.fails >= Fails -> {"problem"}
      [] ~up /\ m.flag /\ c.fails >= Fails -> {"none", "reminder"}
      [] up /\ m.flag /\ c.succ >= Successes -> {"restored"}
      [] OTHER -> {"none"}

Due(m, c) == IF Relay THEN RelayDue(m, c) ELSE EndpointDue(m, c)

\* The evaluation under the lock of the server's row.
Evaluate ==
    /\ alert = "none"
    /\ \E due \in Due(Merged, Counted(Merged)) :
         LET flag == IF Relay THEN (Merged.flag \/ due = "problem") /\ due # "restored" ELSE Merged.flag
             new == [Counted(Merged) EXCEPT !.flag = flag]
         IN  /\ due = "reminder" => "reminder" \in Kinds
             /\ mem' = new
             /\ db' = IF Relay THEN new ELSE [new EXCEPT !.flag = db.flag]
             /\ alert' = due
    /\ UNCHANGED <<up, told, cut, events>>

\* The admins get the alert.
Deliver ==
    /\ alert \in {"problem", "reminder", "restored"}
    /\ told' = IF alert = "restored" THEN "restored" ELSE "problem"
    /\ mem' = [mem EXCEPT !.flag = (alert # "restored")]
    /\ alert' = IF alert = "restored" THEN "saveclear" ELSE "saveset"
    /\ UNCHANGED <<db, up, cut, events>>

\* What was delivered is written to the row.
Record ==
    /\ alert \in {"saveset", "saveclear"}
    /\ db' = [db EXCEPT !.flag = (alert = "saveset")]
    /\ alert' = "none" /\ cut' = FALSE
    /\ UNCHANGED <<mem, up, told, events>>

\* A relay's flag after an alert that was not delivered.
PutBack(flag) == IF Relay THEN alert = "restored" ELSE flag

\* The delivery fails.  A relay's reminder that is not delivered clears the flag
\* as if the outage had never been told.
DeliverFails ==
    /\ Event("lost") /\ alert \in {"problem", "reminder", "restored"}
    /\ mem' = [mem EXCEPT !.flag = PutBack(@)]
    /\ db' = [db EXCEPT !.flag = PutBack(@)]
    /\ cut' = (cut \/ (Relay /\ alert = "reminder"))
    /\ alert' = "none"
    /\ UNCHANGED <<up, told>>

\* The server is switched off and on: the memory starts over, the row's
\* extra_data stays.
Toggle == Event("toggle") /\ mem' = Fresh /\ UNCHANGED <<db, alert, up, told, cut>>

\* The process dies: between a message and its record it forgets the message; a
\* relay's flag is cleared before the end is delivered.
Crash ==
    /\ Event("crash") /\ mem' = Idle /\ alert' = "none"
    /\ cut' = (cut \/ alert = IF Relay THEN "restored" ELSE "saveset")
    /\ UNCHANGED <<db, up, told>>

Flip == Event("flip") /\ up' = ~up /\ UNCHANGED <<mem, db, alert, told, cut>>

Init ==
    /\ mem = Idle /\ db = Fresh /\ alert = "none"
    /\ up = TRUE /\ told = "none" /\ cut = FALSE /\ events = 0

Next == Evaluate \/ Deliver \/ Record \/ DeliverFails \/ Toggle \/ Crash \/ Flip

Spec == Init /\ [][Next]_vars

-----------------------------------------------------------------------------
State == [flag : BOOLEAN, fails : 0..(Fails + 1), succ : 0..(Successes + 1)]

\* What an instance has to satisfy: the counts of the two confirmations.
AlertConstants == Fails \in Nat /\ Successes \in Nat /\ Relay \in BOOLEAN

\* Memory and row are well formed; the row never counts both ways.
TypeOK ==
    /\ mem \in State \cup {Idle} /\ db \in State
    /\ db.fails = 0 \/ db.succ = 0
    /\ alert \in {"none", "problem", "reminder", "restored", "saveset", "saveclear"}
    /\ cut \in BOOLEAN

\* While the admins' last news is an outage, memory or row still knows, so
\* that its end will be told, also after messages are lost and restarts; unless
\* a crash came between the message and its record, or a relay's reminder was
\* not delivered.
OutageIsRemembered ==
    ~cut /\ told = "problem" /\ alert = "none" => db.flag \/ (mem # Idle /\ mem.flag)
=============================================================================
