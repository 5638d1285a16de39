------------------------------- MODULE Reminders -------------------------------
(***************************************************************************)
(* The reminders of one user's two subscriptions.  Time is counted in the  *)
(* windows of the reminders, and a reminder is named by what is left when  *)
(* its window opens: 3, 2 and 1 are three days, one day and two hours      *)
(* before the end, 0 is the end, -1 the last twelve hours of the grace.    *)
(* A cycle of the worker judges by the time at which it began; each        *)
(* message is sent with the row locked.                                    *)
(***************************************************************************)
EXTENDS Integers

CONSTANTS
    MaxTries,   \* MAX_RETRY_COUNT
    MaxNow, Kinds, MaxEvents, Idle

VARIABLES
    sub,      \* the rows: end, notified_* flags, retries, backoff not over, trial
    user,     \* is_bot_blocked and is_banned
    walled,   \* the user has blocked the bot, as Telegram answers
    last,     \* _last_notification_type, in the process
    now,
    w,        \* the worker: the time of its cycle and what is left of it
    copy,     \* the row as the handler of an administrator has loaded it
    told,     \* history: the last reminder of this period, 4 when there is none
    events

vars == <<sub, user, walled, last, now, w, copy, told, events>>
Parts == {"vpn", "wi"}
None == 4
Event(kind) == kind \in Kinds /\ events < MaxEvents /\ events' = events + 1
Least(S) == CHOOSE r \in S : \A q \in S : r <= q

Left(p, t) == sub[p].end - t

\* The reminders one cycle may send: the queries before and after the end look
\* for the most urgent that is missing, White Internet only for its window.
Windows(p, left) ==
    CASE left \notin -1..3 -> {}
      [] left \in -1..3 /\ p = "wi" ->
           {IF left < 0 THEN 0 ELSE left} \ (IF sub[p].trial THEN {3} ELSE {})
      [] OTHER -> IF left > 0 THEN left..3 ELSE left..0

\* A reminder marks the lesser ones.
Marks(p, r) == IF r > 0 \/ p = "wi" THEN r..3 ELSE r..0

-----------------------------------------------------------------------------
\* The rows whose end is fourteen days ago are marked once for all.
Swept == [sub EXCEPT !["wi"].flags = @ \cup (IF Left("wi", now) < -1 THEN 0..3 ELSE {})]

CycleBegins ==
    /\ w = Idle /\ w' = [at |-> now, todo |-> Parts] /\ sub' = Swept
    /\ UNCHANGED <<user, walled, last, now, copy, told, events>>

\* "vpn" is looked at first.
Turn(p) == w # Idle /\ p \in w.todo /\ (p = "wi" => "vpn" \notin w.todo)
Over(p) == w' = IF p = "wi" THEN Idle ELSE [w EXCEPT !.todo = @ \ {p}]

Pending(p) == Windows(p, Left(p, w.at)) \ sub[p].flags
Passed(p) == user.blocked \/ user.banned \/ Left(p, w.at) \notin -1..3
Exhausted(p) == p = "vpn" /\ sub[p].tries >= MaxTries

Renewed(s) == [s EXCEPT !.tries = 0, !.held = FALSE]

\* Nothing is sent: not a receiver, no message due, the row is locked by
\* another, the budget is spent, or the backoff is not over.
Skips(p) ==
    /\ Turn(p)
    /\ \/ Event("locked") /\ UNCHANGED sub
       \/ Passed(p) /\ UNCHANGED <<sub, events>>
       \/ ~Passed(p) /\ Exhausted(p) /\ sub' = [sub EXCEPT ![p] = Renewed(@)] /\ UNCHANGED events
       \/ ~Passed(p) /\ ~Exhausted(p) /\ sub[p].held /\ UNCHANGED <<sub, events>>
       \/ /\ ~Passed(p) /\ ~Exhausted(p) /\ ~sub[p].held /\ Pending(p) = {}
          /\ sub' = [sub EXCEPT ![p].flags = @ \cup (IF p = "wi" /\ Left(p, w.at) <= 0 THEN 0..3 ELSE {})
                                              \cup (IF sub[p].trial THEN {3} ELSE {})]
          /\ UNCHANGED events
    /\ Over(p)
    /\ UNCHANGED <<user, walled, last, now, copy, told>>

\* _maybe_reset_retry_on_type_change: what the process remembers, or the flags say.
Before(p) == IF last # None THEN last ELSE IF sub[p].flags = {} THEN None ELSE Least(sub[p].flags)
OfType(p, r) ==
    IF p = "vpn" /\ Before(p) \notin {None, r} THEN [sub[p] EXCEPT !.tries = 0] ELSE sub[p]

Accepted(p, r, s) == [s EXCEPT !.flags = @ \cup Marks(p, r), !.tries = 0]
Failed(p, s) == IF p = "wi" THEN s ELSE [s EXCEPT !.tries = @ + 1, !.held = TRUE]

Sends(p) ==
    /\ Turn(p) /\ ~Passed(p) /\ ~Exhausted(p) /\ ~sub[p].held /\ Pending(p) # {}
    /\ LET r == Least(Pending(p))
           s == [OfType(p, r) EXCEPT !.flags = @ \cup IF sub[p].trial THEN {3} ELSE {}] IN
         /\ last' = IF p = "vpn" THEN r ELSE last
         /\ \/ /\ ~walled /\ told' = [told EXCEPT ![p] = r]
               /\ sub' = [sub EXCEPT ![p] = Accepted(p, r, s)]
               /\ Over(p) /\ UNCHANGED <<user, events>>
            \/ /\ ~walled /\ told' = [told EXCEPT ![p] = r]
               /\ Event("crash") /\ w' = Idle /\ UNCHANGED <<sub, user>>
            \/ /\ walled /\ user' = [user EXCEPT !.blocked = TRUE]
               /\ sub' = [sub EXCEPT ![p] = s]
               /\ Over(p) /\ UNCHANGED <<told, events>>
            \/ /\ Event("fails")
               /\ sub' = [sub EXCEPT ![p] = Failed(p, s)] /\ Over(p) /\ UNCHANGED <<user, told>>
    /\ UNCHANGED <<walled, now, copy>>

BackoffEnds ==
    /\ sub["vpn"].held /\ sub' = [sub EXCEPT !["vpn"].held = FALSE]
    /\ UNCHANGED <<user, walled, last, now, w, copy, told, events>>

Crash ==
    /\ Event("crash") /\ w' = Idle /\ last' = None /\ copy' = Idle
    /\ UNCHANGED <<sub, user, walled, now, told>>

-----------------------------------------------------------------------------
\* A new period, or the same with new terms: every flag is taken back.
Extends(p) ==
    /\ Event("extend")
    /\ \E end \in (now + 1)..(now + 4) :
         /\ end >= sub[p].end
         /\ sub' = [sub EXCEPT ![p] = [Renewed(@) EXCEPT !.end = end, !.flags = {}]]
    /\ told' = [told EXCEPT ![p] = None]
    /\ UNCHANGED <<user, walled, last, now, w, copy>>

\* The handlers of an administrator set the flags of a row loaded before the
\* lock: a flag that is FALSE in the copy is not written.
AdminReads ==
    /\ Event("admin") /\ copy = Idle /\ copy' = sub["vpn"]
    /\ UNCHANGED <<sub, user, walled, last, now, w, told>>

AdminExtends ==
    /\ copy # Idle /\ copy' = Idle
    /\ sub' = [sub EXCEPT !["vpn"].end = now + 4, !["vpn"].flags = @ \ copy.flags,
                          !["vpn"].tries = IF copy.tries = 0 THEN @ ELSE 0]
    /\ told' = [told EXCEPT !["vpn"] = None]
    /\ UNCHANGED <<user, walled, last, now, w, events>>

Bans ==
    /\ Event("ban") /\ user' = [user EXCEPT !.banned = ~@]
    /\ UNCHANGED <<sub, walled, last, now, w, copy, told>>

Blocks ==
    /\ Event("block") /\ walled' = ~walled
    /\ user' = IF walled THEN [user EXCEPT !.blocked = FALSE] ELSE user
    /\ UNCHANGED <<sub, last, now, w, copy, told>>

Tick ==
    /\ now < MaxNow /\ now' = now + 1
    /\ UNCHANGED <<sub, user, walled, last, w, copy, told, events>>

Row == [end |-> 4, flags |-> {}, tries |-> 0, held |-> FALSE, trial |-> FALSE]

Init ==
    /\ \E trial \in BOOLEAN : sub = [vpn |-> Row, wi |-> [Row EXCEPT !.trial = trial]]
    /\ user = [blocked |-> FALSE, banned |-> FALSE] /\ walled = FALSE /\ last = None
    /\ now = 0 /\ w = Idle /\ copy = Idle /\ told = [p \in Parts |-> None] /\ events = 0

Worker == CycleBegins \/ \E p \in Parts : Skips(p) \/ Sends(p)

Next ==
    \/ Worker \/ BackoffEnds \/ Crash \/ AdminReads \/ AdminExtends \/ Bans \/ Blocks \/ Tick
    \/ \E p \in Parts : Extends(p)

Spec == Init /\ [][Next]_vars

-----------------------------------------------------------------------------
TypeOK ==
    /\ \A p \in Parts : /\ sub[p].flags \subseteq -1..3 /\ sub[p].tries \in 0..MaxTries
                        /\ told[p] \in -1..4
    /\ user.blocked \in BOOLEAN /\ walled \in BOOLEAN /\ now \in 0..MaxNow

\* Within a period reminders become more urgent: no lesser one follows a
\* greater one, whatever is repeated after a crash.
GrowsUrgent == \A p \in Parts : told'[p] \in {told[p], None} \/ told'[p] < told[p]

\* The reminder whose window is open has not been sent in this period.
Due(p) ==
    LET left == sub[p].end - now IN
    /\ left \in -1..3 /\ ~user.blocked /\ ~user.banned /\ ~walled
    /\ p = "vpn" => told[p] > left
    /\ p = "wi"  => told[p] > (IF left < 0 THEN 0 ELSE left) /\ ~(sub[p].trial /\ left = 3)

==============================================================================
