------------------------------ MODULE Supervisor ------------------------------
(***************************************************************************)
(* The supervisor of the background workers: it looks at them one after    *)
(* the other, restarts the dead after a backoff, lets a worker that is not *)
(* critical rest when its budget is spent, and stops the bot for a         *)
(* critical one.                                                           *)
(***************************************************************************)
EXTENDS Naturals, FiniteSets

CONSTANTS
    Workers, Critical,
    MaxFailures,   \* max_consecutive_failures
    MaxDeaths      \* deaths of tasks that are explored

ASSUME SupervisorAssumption ==
    MaxFailures \in Nat /\ MaxDeaths \in Nat /\ Critical \subseteq Workers

VARIABLES
    health,     \* WorkerHealth: state and consecutive_failures
    alive,      \* the tasks that are not done
    over,       \* whose stability window or delay, whichever is running, has elapsed
    todo,       \* what is left of the supervisor's round
    boss,       \* the supervisor's task: "up", "dead" or "stopped"
    shutdown,   \* shutdown_event
    fatal,      \* _fatal_shutdown
    keys,       \* _alert_keys of crashes
    series,     \* history: deaths since the last stable run
    told,       \* history: whose crash was told to the administrators in this series
    deaths

vars == <<health, alive, over, todo, boss, shutdown, fatal, keys, series, told, deaths>>

Resting == {"backoff", "cooldown"}
Looks(w) == boss = "up" /\ ~shutdown /\ w \in todo /\ todo' = todo \ {w}

-----------------------------------------------------------------------------
\* A worker raises, returns or is cancelled.
Dies(w) ==
    /\ w \in alive /\ ~shutdown /\ deaths < MaxDeaths /\ deaths' = deaths + 1
    /\ alive' = alive \ {w} /\ series' = [series EXCEPT ![w] = @ + 1]
    /\ UNCHANGED <<health, over, todo, boss, shutdown, fatal, keys, told>>

\* The clock passes the stability window since a start, or the end of a delay.
Elapses(w) ==
    /\ w \notin over /\ over' = over \cup {w}
    /\ series' = IF w \in alive THEN [series EXCEPT ![w] = 0] ELSE series
    /\ told' = IF w \in alive THEN told \ {w} ELSE told
    /\ UNCHANGED <<health, alive, todo, boss, shutdown, fatal, keys, deaths>>

RoundBegins ==
    /\ boss = "up" /\ ~shutdown /\ todo = {} /\ todo' = Workers
    /\ UNCHANGED <<health, alive, over, boss, shutdown, fatal, keys, series, told, deaths>>

\* _spawn after a backoff or a cooldown; the count of failures stays.
Restarts(w) ==
    /\ Looks(w) /\ health[w].state \in Resting /\ w \in over
    /\ health' = [health EXCEPT ![w].state = "running"]
    /\ alive' = alive \cup {w} /\ over' = over \ {w}
    /\ UNCHANGED <<boss, shutdown, fatal, keys, series, told, deaths>>

Waits(w) ==
    /\ Looks(w) /\ health[w].state \in Resting /\ w \notin over
    /\ UNCHANGED <<health, alive, over, boss, shutdown, fatal, keys, series, told, deaths>>

\* A worker that runs is forgiven when it has been stable.
SeesRunning(w) ==
    /\ Looks(w) /\ health[w].state = "running" /\ w \in alive
    /\ LET stable == health[w].failures > 0 /\ w \in over IN
         /\ health' = IF stable THEN [health EXCEPT ![w].failures = 0] ELSE health
         /\ keys' = IF stable THEN keys \ {w} ELSE keys
    /\ UNCHANGED <<alive, over, boss, shutdown, fatal, series, told, deaths>>

\* Variant: a run that was stable counts like any other.
CountAll(w) == health[w].failures + 1

\* A run that lasted the stability window starts a new count.
Count(w) == IF w \in over THEN 1 ELSE health[w].failures + 1

\* Variant: who has spent the budget is not taken up again.
NoCooldown(w) == IF Count(w) <= MaxFailures THEN "backoff" ELSE "failed"

AfterDeath(w) ==
    IF Count(w) <= MaxFailures THEN "backoff" ELSE IF w \in Critical THEN "failed" ELSE "cooldown"

\* Variant: the key of the crash is kept.
KeptKeys(w) == keys

\* A stable run lets the next crash be told.
KeysBefore(w) == IF w \in over THEN keys \ {w} ELSE keys

\* A dead worker is counted, told of and put off; a critical one without
\* budget is fatal.
SeesDead(w) ==
    /\ Looks(w) /\ health[w].state = "running" /\ w \notin alive
    /\ health' = [health EXCEPT ![w] = [state |-> AfterDeath(w), failures |-> Count(w)]]
    /\ keys' = KeysBefore(w) \cup {w}
    /\ told' = IF w \in KeysBefore(w) THEN told ELSE told \cup {w}
    /\ over' = over \ {w}
    /\ fatal' = (w \in Critical /\ Count(w) > MaxFailures) /\ shutdown' = fatal'
    /\ UNCHANGED <<alive, boss, series, deaths>>

\* _supervisor_done: the supervisor itself raises.
SupervisorDies ==
    /\ boss = "up" /\ ~shutdown /\ deaths < MaxDeaths /\ deaths' = deaths + 1
    /\ boss' = "dead" /\ fatal' = TRUE /\ shutdown' = TRUE
    /\ UNCHANGED <<health, alive, over, todo, keys, series, told>>

\* stop_background_workers, at a fatal failure or by a signal.
Stops ==
    /\ boss # "stopped" /\ boss' = "stopped" /\ shutdown' = TRUE
    /\ alive' = {} /\ todo' = {}
    /\ health' = [w \in Workers |-> IF health[w].state = "failed" THEN health[w]
                                    ELSE [health[w] EXCEPT !.state = "stopped"]]
    /\ UNCHANGED <<over, fatal, keys, series, told, deaths>>

\* start_background_workers
Init ==
    /\ health = [w \in Workers |-> [state |-> "running", failures |-> 0]]
    /\ alive = Workers /\ over = {} /\ todo = {} /\ boss = "up"
    /\ shutdown = FALSE /\ fatal = FALSE /\ keys = {}
    /\ series = [w \in Workers |-> 0] /\ told = {} /\ deaths = 0

Supervises(w) == Restarts(w) \/ Waits(w) \/ SeesRunning(w) \/ SeesDead(w)

Next ==
    \/ RoundBegins \/ SupervisorDies \/ Stops
    \/ \E w \in Workers : Supervises(w) \/ Dies(w) \/ Elapses(w)

\* The supervisor's loop goes on and looks at all of its list; time passes.
Fairness ==
    /\ WF_vars(RoundBegins)
    /\ \A w \in Workers : WF_vars(Supervises(w)) /\ WF_vars(Elapses(w))

Spec == Init /\ [][Next]_vars /\ Fairness

-----------------------------------------------------------------------------
TypeOK ==
    /\ health \in [Workers -> [state : Resting \cup {"running", "failed", "stopped"},
                               failures : 0..MaxDeaths]]
    /\ alive \subseteq Workers /\ over \subseteq Workers /\ todo \subseteq Workers
    /\ boss \in {"up", "dead", "stopped"} /\ shutdown \in BOOLEAN /\ fatal \in BOOLEAN

\* _fatal: the bot stops only when the supervisor itself has died, or a
\* critical worker has died more often than allowed without a stable run.
FatalForAReason == fatal => boss # "up" \/ \E w \in Critical : series[w] > MaxFailures

\* _alert_keys: of every series of crashes the administrators are told.
SeriesIsTold == \A w \in Workers : health[w].state \in Resting => w \in told

\* A worker that has died runs again, unless the bot stops.
DeadComeBack == \A w \in Workers : w \notin alive ~> w \in alive \/ shutdown

==============================================================================
