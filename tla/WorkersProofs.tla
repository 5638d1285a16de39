------------------------- MODULE WorkersProofs -------------------------
(* The workers: those that are supervised die for a reason only and are told *)
(* of (Supervisor), nobody's debt of a message is lost (CreditNotify), and   *)
(* an outage that was told is remembered (IngressAlerts): for any workers,   *)
(* budgets, numbers of attempts and counts of probes.                        *)
EXTENDS BackgroundWorkers, TLAPS

-----------------------------------------------------------------------------
\* The supervision.

\* The history of a worker: deaths are counted, and bound every series.
HistoryOK ==
  /\ deaths \in 0..MaxDeaths
  /\ series \in [Workers -> 0..deaths]
  /\ keys \subseteq Workers /\ told \subseteq Workers

\* A task that is alive is one the supervisor takes for running.
AliveInv(w) == w \in alive => health[w].state = "running"

\* A death that the supervisor has not seen yet is in the series.
UnseenInv(w) == health[w].state = "running" /\ w \notin alive => series[w] >= 1

\* Until a run has been stable, the count never exceeds the series, and leaves
\* room for a death not seen yet.
CountInv(w) ==
  /\ health[w].state \in Resting => health[w].failures <= series[w]
  /\ health[w].state = "running" /\ w \notin over =>
       health[w].failures + (IF w \in alive THEN 0 ELSE 1) <= series[w]

\* Who rests has been told of; and a key that will suppress the next alert
\* stands for an alert of this series.
ToldInv(w) ==
  /\ health[w].state \in Resting => w \in told
  /\ w \in keys /\ w \notin over => w \in told

\* A fatal failure stops the supervision, so the worker that caused it stays
\* dead and keeps its series.
ReasonInv ==
  fatal => /\ shutdown
           /\ \/ boss # "up"
              \/ \E w \in Critical : series[w] > MaxFailures /\ w \notin alive

WorkerInv(w) == AliveInv(w) /\ UnseenInv(w) /\ CountInv(w) /\ ToldInv(w)

IInv == TypeOK /\ HistoryOK /\ ReasonInv /\ \A w \in Workers : WorkerInv(w)

-----------------------------------------------------------------------------
\* start_background_workers establishes the invariant.
LEMMA InitIInv == ASSUME Init PROVE IInv
  <1> USE SupervisorAssumption DEF Init
  <1>1. TypeOK
    <2>1. [state |-> "running", failures |-> 0]
            \in [state : Resting \cup {"running", "failed", "stopped"}, failures : 0..MaxDeaths]
      OBVIOUS
    <2> QED BY <2>1 DEF TypeOK
  <1>2. HistoryOK BY DEF HistoryOK
  <1>3. ReasonInv BY DEF ReasonInv
  <1>4. ASSUME NEW w \in Workers PROVE WorkerInv(w)
    BY <1>4 DEF WorkerInv, AliveInv, UnseenInv, CountInv, ToldInv, Resting
  <1> QED BY <1>1, <1>2, <1>3, <1>4 DEF IInv

\* What the count becomes when a death is seen is at most the series.
LEMMA CountBounded ==
  ASSUME IInv, NEW w \in Workers, health[w].state = "running", w \notin alive
  PROVE  Count(w) \in 0..MaxDeaths /\ Count(w) <= series[w]
  <1>1. WorkerInv(w) /\ series[w] \in 0..deaths /\ deaths \in 0..MaxDeaths
    BY DEF IInv, HistoryOK
  <1>2. health[w].failures \in Nat /\ MaxDeaths \in Nat
    BY SupervisorAssumption DEF IInv, TypeOK
  <1>3. Count(w) \in Nat /\ Count(w) <= series[w]
    BY <1>1, <1>2 DEF WorkerInv, UnseenInv, CountInv, Count
  <1> QED BY <1>1, <1>2, <1>3

\* A task that dies adds to its own series and to nothing else.
LEMMA DiesIInv == ASSUME IInv, NEW w \in Workers, Dies(w) PROVE IInv'
  <1> USE SupervisorAssumption DEF IInv, Dies
  <1>1. TypeOK' BY DEF TypeOK
  <1>2. deaths' = deaths + 1 /\ deaths' \in 0..MaxDeaths /\ deaths \in Nat
    BY DEF HistoryOK
  <1>3. \A v \in Workers : series'[v] = IF v = w THEN series[v] + 1 ELSE series[v]
    BY DEF HistoryOK
  <1>4. HistoryOK'
    <2>1. series' \in [Workers -> 0..deaths']
      BY <1>2 DEF HistoryOK
    <2> QED BY <1>2, <2>1 DEF HistoryOK
  <1>5. ReasonInv'
    <2>1. ASSUME NEW v \in Critical, series[v] > MaxFailures, v \notin alive
          PROVE  series'[v] > MaxFailures /\ v \notin alive'
      BY <2>1, <1>3
    <2> QED BY <2>1 DEF ReasonInv
  <1>6. ASSUME NEW v \in Workers PROVE WorkerInv(v)'
    <2>1. WorkerInv(v) /\ series[v] \in Nat /\ series'[v] \in Nat /\ health[v].failures \in Nat
      BY <1>2, <1>4, SMT DEF HistoryOK, TypeOK
    <2> QED BY <2>1, <1>3 DEF WorkerInv, AliveInv, UnseenInv, CountInv, ToldInv
  <1> QED BY <1>1, <1>4, <1>5, <1>6

\* The clock forgives a task that is alive, and only such a task: the dead
\* keep their series.
LEMMA ElapsesIInv == ASSUME IInv, NEW w \in Workers, Elapses(w) PROVE IInv'
  <1> USE SupervisorAssumption DEF IInv, Elapses
  <1>1. TypeOK' BY DEF TypeOK
  <1>2. \A v \in Workers : series'[v] = IF v = w /\ w \in alive THEN 0 ELSE series[v]
    BY DEF HistoryOK
  <1>3. HistoryOK'
    BY DEF HistoryOK
  <1>4. ReasonInv'
    <2>1. ASSUME NEW v \in Critical, series[v] > MaxFailures, v \notin alive
          PROVE  series'[v] > MaxFailures /\ v \notin alive'
      BY <2>1, <1>2
    <2> QED BY <2>1 DEF ReasonInv
  <1>5. ASSUME NEW v \in Workers PROVE WorkerInv(v)'
    <2>1. WorkerInv(v) BY <1>5
    <2> QED BY <2>1, <1>2, <1>5 DEF WorkerInv, AliveInv, UnseenInv, CountInv, ToldInv, Resting
  <1> QED BY <1>1, <1>3, <1>4, <1>5

\* A restart follows a rest, in which the worker was told of and its count was
\* within the series.
LEMMA RestartsIInv == ASSUME IInv, NEW w \in Workers, Restarts(w) PROVE IInv'
  <1> USE SupervisorAssumption DEF IInv, Restarts, Looks
  <1>0. health[w] \in [state : Resting \cup {"running", "failed", "stopped"},
                       failures : 0..MaxDeaths]
    BY DEF TypeOK
  <1>1. TypeOK' BY <1>0 DEF TypeOK
  <1>2. HistoryOK' BY DEF HistoryOK
  <1>3. ReasonInv' BY DEF ReasonInv
  <1>4. ASSUME NEW v \in Workers PROVE WorkerInv(v)'
    <2>1. WorkerInv(v) /\ series[v] \in Nat
      BY <1>4 DEF HistoryOK
    <2>2. CASE v = w
      <3>1. health'[v] = [state |-> "running", failures |-> health[v].failures]
        BY <2>2, <1>0 DEF TypeOK
      <3> QED BY <2>1, <2>2, <3>1
              DEF WorkerInv, AliveInv, UnseenInv, CountInv, ToldInv, Resting, TypeOK
    <2>3. CASE v # w
      <3>1. health'[v] = health[v] BY <2>3 DEF TypeOK
      <3> QED BY <2>1, <2>3, <3>1 DEF WorkerInv, AliveInv, UnseenInv, CountInv, ToldInv
    <2> QED BY <2>2, <2>3
  <1> QED BY <1>1, <1>2, <1>3, <1>4

\* A round, a look at a task that rests still, and the supervisor's own death
\* change nothing the invariant relates.
LEMMA IdleIInv ==
  ASSUME IInv, RoundBegins \/ (\E w \in Workers : Waits(w)) \/ UNCHANGED vars
  PROVE  IInv'
  <1> USE DEF IInv, RoundBegins, Waits, Looks, vars
  <1>1. TypeOK' BY DEF TypeOK
  <1>2. HistoryOK' /\ ReasonInv' BY DEF HistoryOK, ReasonInv
  <1>3. ASSUME NEW v \in Workers PROVE WorkerInv(v)'
    BY <1>3 DEF WorkerInv, AliveInv, UnseenInv, CountInv, ToldInv
  <1> QED BY <1>1, <1>2, <1>3

\* Forgiveness lowers the count and removes a key.
LEMMA SeesRunningIInv == ASSUME IInv, NEW w \in Workers, SeesRunning(w) PROVE IInv'
  <1> USE SupervisorAssumption DEF IInv, SeesRunning, Looks
  <1>0. health[w] \in [state : Resting \cup {"running", "failed", "stopped"},
                       failures : 0..MaxDeaths]
    BY DEF TypeOK
  <1>1. TypeOK'
    <2>1. [health[w] EXCEPT !.failures = 0]
            \in [state : Resting \cup {"running", "failed", "stopped"}, failures : 0..MaxDeaths]
      BY <1>0
    <2> QED BY <2>1 DEF TypeOK
  <1>2. HistoryOK' /\ ReasonInv' BY DEF HistoryOK, ReasonInv
  <1>3. ASSUME NEW v \in Workers PROVE WorkerInv(v)'
    <2>1. WorkerInv(v) /\ series[v] \in Nat /\ health[v].failures \in Nat
      BY <1>3 DEF HistoryOK, TypeOK
    <2>2. /\ health'[v].state = health[v].state
          /\ health'[v].failures \in {0, health[v].failures}
      BY <1>0, <1>3 DEF TypeOK
    <2>3. keys' \subseteq keys
      OBVIOUS
    <2> QED BY <2>1, <2>2, <2>3 DEF WorkerInv, AliveInv, UnseenInv, CountInv, ToldInv
  <1> QED BY <1>1, <1>2, <1>3

\* A death is counted within its series, told of unless its key says it has
\* been, and fatal only beyond the budget.
LEMMA SeesDeadIInv == ASSUME IInv, NEW w \in Workers, SeesDead(w) PROVE IInv'
  <1> USE SupervisorAssumption DEF IInv, SeesDead, Looks
  <1>1. Count(w) \in 0..MaxDeaths /\ Count(w) <= series[w]
    BY CountBounded
  <1>2. AfterDeath(w) \in {"backoff", "cooldown", "failed"}
    BY DEF AfterDeath
  <1>3. TypeOK'
    <2>1. [state |-> AfterDeath(w), failures |-> Count(w)]
            \in [state : Resting \cup {"running", "failed", "stopped"}, failures : 0..MaxDeaths]
      BY <1>1, <1>2 DEF Resting
    <2> QED BY <2>1 DEF TypeOK
  <1>4. HistoryOK' BY DEF HistoryOK, KeysBefore
  <1>5. ReasonInv'
    <2>1. SUFFICES ASSUME fatal'
                   PROVE  shutdown' /\ \E v \in Critical : series'[v] > MaxFailures /\ v \notin alive'
      BY DEF ReasonInv
    <2>2. w \in Critical /\ Count(w) > MaxFailures
      BY <2>1
    <2>3. series'[w] > MaxFailures /\ w \notin alive'
      BY <1>1, <2>2 DEF HistoryOK
    <2> QED BY <2>1, <2>2, <2>3
  <1>6. ASSUME NEW v \in Workers PROVE WorkerInv(v)'
    <2>1. WorkerInv(v)
      BY <1>6
    <2>2. CASE v = w
      <3>1. health'[v] = [state |-> AfterDeath(w), failures |-> Count(w)]
        BY <2>2 DEF TypeOK
      <3>2. v \in told'
        BY <2>1, <2>2 DEF WorkerInv, ToldInv, KeysBefore
      <3> QED BY <1>1, <1>2, <2>1, <2>2, <3>1, <3>2
              DEF WorkerInv, AliveInv, UnseenInv, CountInv, ToldInv
    <2>3. CASE v # w
      <3>1. health'[v] = health[v] /\ (v \in keys' <=> v \in keys) /\ told \subseteq told'
        BY <2>3 DEF TypeOK, KeysBefore
      <3> QED BY <2>1, <2>3, <3>1 DEF WorkerInv, AliveInv, UnseenInv, CountInv, ToldInv
    <2> QED BY <2>2, <2>3
  <1> QED BY <1>3, <1>4, <1>5, <1>6

\* The supervisor's own death is its own reason.
LEMMA SupervisorDiesIInv == ASSUME IInv, SupervisorDies PROVE IInv'
  <1> USE SupervisorAssumption DEF IInv, SupervisorDies
  <1>1. TypeOK' BY DEF TypeOK
  <1>2. HistoryOK'
    <2>1. deaths' \in 0..MaxDeaths /\ deaths \in 0..deaths'
      BY DEF HistoryOK
    <2> QED BY <2>1 DEF HistoryOK
  <1>3. ReasonInv' BY DEF ReasonInv
  <1>4. ASSUME NEW v \in Workers PROVE WorkerInv(v)'
    BY <1>4 DEF WorkerInv, AliveInv, UnseenInv, CountInv, ToldInv
  <1> QED BY <1>1, <1>2, <1>3, <1>4

\* After the stop no worker runs or rests.
LEMMA StopsIInv == ASSUME IInv, Stops PROVE IInv'
  <1> USE SupervisorAssumption DEF IInv, Stops
  <1>1. ASSUME NEW w \in Workers
        PROVE  /\ health'[w].state \in {"failed", "stopped"}
               /\ health'[w] \in [state : Resting \cup {"running", "failed", "stopped"},
                                  failures : 0..MaxDeaths]
    BY <1>1 DEF TypeOK
  <1>2. TypeOK' BY <1>1 DEF TypeOK
  <1>3. HistoryOK' /\ ReasonInv' BY DEF HistoryOK, ReasonInv
  <1>4. ASSUME NEW v \in Workers PROVE WorkerInv(v)'
    BY <1>1, <1>4 DEF WorkerInv, AliveInv, UnseenInv, CountInv, ToldInv, Resting
  <1> QED BY <1>2, <1>3, <1>4

-----------------------------------------------------------------------------
\* Every step preserves the invariant.
LEMMA NextIInv == ASSUME IInv, [Next]_vars PROVE IInv'
  <1>1. CASE \E w \in Workers : Dies(w) BY <1>1, DiesIInv
  <1>2. CASE \E w \in Workers : Elapses(w) BY <1>2, ElapsesIInv
  <1>3. CASE \E w \in Workers : Restarts(w) BY <1>3, RestartsIInv
  <1>4. CASE \E w \in Workers : SeesRunning(w) BY <1>4, SeesRunningIInv
  <1>5. CASE \E w \in Workers : SeesDead(w) BY <1>5, SeesDeadIInv
  <1>6. CASE \E w \in Workers : Waits(w) BY <1>6, IdleIInv
  <1>7. CASE RoundBegins \/ UNCHANGED vars BY <1>7, IdleIInv
  <1>8. CASE SupervisorDies BY <1>8, SupervisorDiesIInv
  <1>9. CASE Stops BY <1>9, StopsIInv
  <1> QED BY <1>1, <1>2, <1>3, <1>4, <1>5, <1>6, <1>7, <1>8, <1>9 DEF Next, Supervises

LEMMA Inductive == Spec => []IInv
  <1> QED BY InitIInv, NextIInv, PTL DEF Spec

\* Every state of the supervision is well-formed, for any workers and budgets.
THEOREM SupervisorTypes == Spec => []TypeOK
  <1>1. IInv => TypeOK BY DEF IInv
  <1> QED BY <1>1, Inductive, PTL

\* _fatal (services/workers/__init__.py): the bot is stopped for its workers
\* only when the supervisor has died or a critical worker has died more often
\* than allowed without a stable run in between, for any workers and budgets.
THEOREM FatalHasReason == Spec => []FatalForAReason
  <1>1. IInv => FatalForAReason BY DEF IInv, ReasonInv, FatalForAReason
  <1> QED BY <1>1, Inductive, PTL

\* _alert_keys: suppressing the alerts of a series never suppresses the first
\* one, for any workers and budgets.
THEOREM SeriesTold == Spec => []SeriesIsTold
  <1>1. IInv => SeriesIsTold BY DEF IInv, WorkerInv, ToldInv, SeriesIsTold
  <1> QED BY <1>1, Inductive, PTL

-----------------------------------------------------------------------------
\* Debts of a message to the owner of an order and to the referrer.
Metas == [debt : [Credit!Who -> BOOLEAN], tries : [Credit!Who -> 0..MaxTries], review : BOOLEAN]
Turns == [step : {"idle", "picked", "work", "attempt"},
          kind : [Credit!Who -> {"none", "drop", "anomaly", "send"}],
          ok : [Credit!Who -> {"none", "yes", "forbidden", "no"}]]

DebtShape ==
    /\ meta \in Metas /\ status \in {"pending", "paid", "refunded"}
    /\ turn \in Turns /\ sent \in [Credit!Who -> Nat]
    /\ req # Idle => req \in [copy : Metas, sent : BOOLEAN]

\* What the worker, or the request, has seen accepted was told.
DebtInv ==
    /\ DebtShape /\ Credit!NoDebtLost
    /\ turn.ok["owner"] = "yes" => sent.owner > 0
    /\ req # Idle /\ req.sent => sent.owner > 0

-----------------------------------------------------------------------------
\* What clearing, arming and counting a debt make of the metadata.
LEMMA ClearedIs ==
    ASSUME NEW m \in Metas, NEW p \in Credit!Who, MaxTries \in Nat
    PROVE  /\ Credit!Cleared(m, p) \in Metas /\ ~Credit!Cleared(m, p).debt[p]
           /\ \A q \in Credit!Who : q # p => /\ Credit!Cleared(m, p).debt[q] = m.debt[q]
                                             /\ Credit!Cleared(m, p).tries[q] = m.tries[q]
<1> DEFINE d == [m.debt EXCEPT ![p] = FALSE]
           t == [m.tries EXCEPT ![p] = 0]
<1>1. Credit!Cleared(m, p) = [m EXCEPT !.debt = d, !.tries = t]  BY DEF Credit!Cleared, Metas
<1>2. d \in [Credit!Who -> BOOLEAN] /\ d[p] = FALSE /\ \A q \in Credit!Who : q # p => d[q] = m.debt[q]
    BY DEF Metas
<1>3. t \in [Credit!Who -> 0..MaxTries] /\ \A q \in Credit!Who : q # p => t[q] = m.tries[q]  BY DEF Metas
<1> HIDE DEF d, t
<1>4. Credit!Cleared(m, p) \in Metas /\ Credit!Cleared(m, p).debt = d /\ Credit!Cleared(m, p).tries = t
    BY <1>1, <1>2, <1>3 DEF Metas
<1> QED  BY <1>2, <1>3, <1>4

LEMMA ArmedIs ==
    ASSUME NEW m \in Metas, NEW p \in Credit!Who, MaxTries \in Nat
    PROVE  /\ Credit!Armed(m, p) \in Metas /\ Credit!Armed(m, p).debt[p]
           /\ \A q \in Credit!Who : q # p => Credit!Armed(m, p).debt[q] = m.debt[q]
<1> DEFINE d == [m.debt EXCEPT ![p] = TRUE]
           t == [m.tries EXCEPT ![p] = 0]
<1>1. Credit!Armed(m, p) = [m EXCEPT !.debt = d, !.tries = t]  BY DEF Credit!Armed, Metas
<1>2. d \in [Credit!Who -> BOOLEAN] /\ d[p] = TRUE /\ \A q \in Credit!Who : q # p => d[q] = m.debt[q]  BY DEF Metas
<1>3. t \in [Credit!Who -> 0..MaxTries] /\ \A q \in Credit!Who : q # p => t[q] = m.tries[q]  BY DEF Metas
<1> HIDE DEF d, t
<1>4. Credit!Armed(m, p) \in Metas /\ Credit!Armed(m, p).debt = d /\ Credit!Armed(m, p).tries = t
    BY <1>1, <1>2, <1>3 DEF Metas
<1> QED  BY <1>2, <1>3, <1>4

LEMMA CountedIs ==
    ASSUME NEW m \in Metas, NEW p \in Credit!Who, MaxTries \in Nat
    PROVE  /\ Credit!Counted(m, p) \in Metas
           /\ Credit!Counted(m, p).debt[p] # m.debt[p] => m.tries[p] + 1 >= MaxTries
           /\ \A q \in Credit!Who : q # p => /\ Credit!Counted(m, p).debt[q] = m.debt[q]
                                             /\ Credit!Counted(m, p).tries[q] = m.tries[q]
<1>1. CASE m.tries[p] + 1 >= MaxTries  BY <1>1, ClearedIs DEF Credit!Counted
<1>2. CASE ~(m.tries[p] + 1 >= MaxTries)
    <2>1. m.tries[p] + 1 \in 0..MaxTries  BY <1>2 DEF Metas
    <2> QED  BY <1>2, <2>1 DEF Credit!Counted, Metas
<1> QED  BY <1>1, <1>2

LEMMA AfterIs ==
    ASSUME NEW m \in Metas, NEW p \in Credit!Who, MaxTries \in Nat, turn \in Turns
    PROVE  /\ Credit!After(m, p) \in Metas
           /\ m.debt[p] /\ ~Credit!After(m, p).debt[p] =>
                 turn.kind[p] = "send" /\ (turn.ok[p] = "yes" \/ m.tries[p] + 1 >= MaxTries)
           /\ Credit!After(m, p).debt[p] => m.debt[p]
           /\ \A q \in Credit!Who : q # p => /\ Credit!After(m, p).debt[q] = m.debt[q]
                                             /\ Credit!After(m, p).tries[q] = m.tries[q]
<1>1. CASE ~m.debt[p] \/ turn.kind[p] # "send" \/ turn.ok[p] = "forbidden"  BY <1>1
    DEF Credit!After
<1>2. CASE ~(~m.debt[p] \/ turn.kind[p] # "send" \/ turn.ok[p] = "forbidden") /\ turn.ok[p] = "yes"
    BY <1>2, ClearedIs DEF Credit!After
<1>3. CASE ~(~m.debt[p] \/ turn.kind[p] # "send" \/ turn.ok[p] = "forbidden") /\ turn.ok[p] # "yes"
    BY <1>3, CountedIs DEF Credit!After
<1> QED  BY <1>1, <1>2, <1>3

LEMMA RestingIs == Credit!Resting \in Turns /\ Credit!Resting.ok["owner"] = "none" /\ Credit!Resting.step = "idle"
BY DEF Credit!Resting, Turns, Credit!Who

-----------------------------------------------------------------------------
LEMMA DebtStart == ASSUME MaxTries \in Nat, Credit!Init PROVE DebtInv
<1>1. DebtShape  BY RestingIs DEF Credit!Init, DebtShape, Metas
<1> QED  BY <1>1, RestingIs DEF Credit!Init, DebtInv, Credit!NoDebtLost

\* Others than the worker.
LEMMA OrderStep ==
    ASSUME MaxTries \in Nat, DebtInv, Credit!Settles \/ Credit!Refunds
    PROVE  DebtInv'
<1> USE DEF DebtInv, DebtShape
<1>1. "owner" \in Credit!Who /\ "ref" \in Credit!Who  BY DEF Credit!Who
<1>2. CASE Credit!Settles
    <2>1. meta' \in Metas /\ meta'.debt["owner"]
        <3>1. Credit!Armed(meta, "owner") \in Metas /\ Credit!Armed(meta, "owner").debt["owner"]
            BY <1>1, ArmedIs
        <3>2. Credit!Armed(Credit!Armed(meta, "owner"), "ref") \in Metas
              /\ Credit!Armed(Credit!Armed(meta, "owner"), "ref").debt["owner"]
                 = Credit!Armed(meta, "owner").debt["owner"]
            BY <1>1, <3>1, ArmedIs
        <3> QED  BY <1>2, <3>1, <3>2 DEF Credit!Settles
    <2> QED  BY <1>2, <2>1 DEF Credit!Settles, Credit!NoDebtLost
<1>3. CASE Credit!Refunds
    <2>1. meta' \in Metas /\ meta'.debt = meta.debt  BY <1>3 DEF Credit!Refunds, Metas
    <2> QED  BY <1>3, <2>1 DEF Credit!Refunds, Credit!NoDebtLost
<1> QED  BY <1>2, <1>3

LEMMA RequestStep ==
    ASSUME MaxTries \in Nat, DebtInv, Credit!RequestReads \/ Credit!RequestSends \/ Credit!RequestMarks
    PROVE  DebtInv'
<1> USE DEF DebtInv, DebtShape
<1>1. "owner" \in Credit!Who  BY DEF Credit!Who
<1>2. CASE Credit!RequestReads
    <2>1. req' = [copy |-> meta, sent |-> FALSE]  BY <1>2 DEF Credit!RequestReads
    <2>2. req' \in [copy : Metas, sent : BOOLEAN] /\ ~req'.sent  BY <2>1
    <2> QED  BY <1>2, <2>2 DEF Credit!RequestReads, Credit!world, Credit!NoDebtLost
<1>3. CASE Credit!RequestSends
    <2>1. CASE req' = [req EXCEPT !.sent = TRUE] /\ sent' = [sent EXCEPT !.owner = @ + 1]
        <3>1. req' \in [copy : Metas, sent : BOOLEAN]  BY <1>3, <2>1 DEF Credit!RequestSends
        <3>2. sent' \in [Credit!Who -> Nat] /\ sent'.owner > 0  BY <1>1, <2>1
        <3> QED  BY <1>3, <3>1, <3>2 DEF Credit!RequestSends, Credit!world, Credit!NoDebtLost
    <2>2. CASE req' = Idle /\ UNCHANGED sent
        BY <1>3, <2>2 DEF Credit!RequestSends, Credit!world, Credit!NoDebtLost
    <2> QED  BY <1>3, <2>1, <2>2 DEF Credit!RequestSends
<1>4. CASE Credit!RequestMarks
    <2>1. sent.owner > 0 /\ req.copy \in Metas  BY <1>4 DEF Credit!RequestMarks
    <2>2. meta' \in Metas  BY <1>1, <1>4, <2>1, ClearedIs DEF Credit!RequestMarks,
        Credit!WrittenBack
    <2> QED  BY <1>4, <2>1, <2>2 DEF Credit!RequestMarks, Credit!world, Credit!NoDebtLost
<1> QED  BY <1>2, <1>3, <1>4

LEMMA SnapshotStep ==
    ASSUME MaxTries \in Nat, DebtInv, Credit!Picks \/ Credit!Snapshot
    PROVE  DebtInv'
<1> USE DEF DebtInv, DebtShape
<1>1. UNCHANGED <<meta, status, req, sent, dropped>>  BY DEF Credit!Picks, Credit!Snapshot,
    Credit!world
<1>2. turn' \in Turns /\ turn'.ok["owner"] = "none"
    <2>1. CASE Credit!Picks
        <3>1. turn' = [Credit!Resting EXCEPT !.step = "picked"]  BY <2>1 DEF Credit!Picks
        <3> QED  BY <3>1 DEF Credit!Resting, Turns, Credit!Who
    <2>2. CASE Credit!Snapshot
        <3> DEFINE kind == [p \in Credit!Who |-> Credit!KindOf(p)]
        <3>1. kind \in [Credit!Who -> {"none", "drop", "anomaly", "send"}]
            <4>1. \A p \in Credit!Who : Credit!KindOf(p) \in {"none", "drop", "anomaly", "send"}
                BY DEF Credit!KindOf
            <4> QED  BY <4>1
        <3>2. turn' \in {Credit!Resting, [Credit!Resting EXCEPT !.step = "attempt"], [Credit!Resting EXCEPT !.step = "work", !.kind = kind]}
            BY <2>2 DEF Credit!Snapshot
        <3> HIDE DEF kind
        <3>3. [Credit!Resting EXCEPT !.step = "attempt"] \in Turns
            /\ [Credit!Resting EXCEPT !.step = "attempt"].ok = Credit!Resting.ok
            BY RestingIs DEF Turns
        <3>4. /\ [Credit!Resting EXCEPT !.step = "work", !.kind = kind] \in Turns
              /\ [Credit!Resting EXCEPT !.step = "work", !.kind = kind].ok = Credit!Resting.ok
            BY <3>1, RestingIs DEF Turns
        <3> QED  BY <3>2, <3>3, <3>4, RestingIs
    <2> QED  BY <2>1, <2>2
<1> QED  BY <1>1, <1>2 DEF Credit!NoDebtLost

LEMMA DropStep ==
    ASSUME MaxTries \in Nat, DebtInv, NEW p \in Credit!Who, Credit!Drops(p)
    PROVE  DebtInv'
<1> USE DEF DebtInv, DebtShape
<1>1. UNCHANGED <<status, req, sent>> /\ dropped' = dropped \cup {p} /\ meta' = Credit!Cleared(meta, p)
    BY DEF Credit!Drops, Credit!world
<1>2. meta' \in Metas /\ (p # "owner" => meta'.debt["owner"] = meta.debt["owner"])
    BY <1>1, ClearedIs DEF Credit!Who
<1>3. turn' \in Turns /\ turn'.ok["owner"] \in {"none", turn.ok["owner"]}
    <2>1. [turn EXCEPT !.kind[p] = "none"] \in Turns /\ [turn EXCEPT !.kind[p] = "none"].ok = turn.ok
        BY DEF Turns
    <2> QED  BY <2>1, RestingIs DEF Credit!Drops
<1> QED  BY <1>1, <1>2, <1>3 DEF Credit!NoDebtLost

LEMMA SendStep ==
    ASSUME MaxTries \in Nat, DebtInv, NEW p \in Credit!Who, Credit!Sends(p)
    PROVE  DebtInv'
<1> USE DEF DebtInv, DebtShape
<1>1. UNCHANGED <<meta, status, req, dropped>>  BY DEF Credit!Sends, Credit!world
<1>2. PICK ok \in {"forbidden", "yes", "no"} :
         /\ turn' = [turn EXCEPT !.ok[p] = ok]
         /\ sent' = IF ok = "yes" THEN [sent EXCEPT ![p] = @ + 1] ELSE sent
    BY DEF Credit!Sends
<1>3. /\ turn' \in Turns /\ turn'.ok[p] = ok /\ \A q \in Credit!Who : q # p => turn'.ok[q] = turn.ok[q]
    BY <1>2 DEF Turns
<1>4. /\ sent' \in [Credit!Who -> Nat] /\ \A q \in Credit!Who : sent'[q] >= sent[q]
      /\ ok = "yes" => sent'[p] > 0
    BY <1>2
<1>5. "owner" \in Credit!Who  BY DEF Credit!Who
<1>6. sent.owner > 0 => sent'.owner > 0  BY <1>4, <1>5
<1>7. turn'.ok["owner"] = "yes" => sent'.owner > 0  BY <1>3, <1>4, <1>5, <1>6
<1> QED  BY <1>1, <1>3, <1>4, <1>6, <1>7 DEF Credit!NoDebtLost

LEMMA FinalStep ==
    ASSUME MaxTries \in Nat, DebtInv, Credit!Finalizes
    PROVE  DebtInv'
<1> USE DEF DebtInv, DebtShape
<1>1. UNCHANGED <<status, req, sent>> /\ turn' = Credit!Resting  BY DEF Credit!Finalizes,
    Credit!world
<1>2. "owner" \in Credit!Who /\ "ref" \in Credit!Who /\ "owner" # "ref"  BY DEF Credit!Who
<1>3. CASE status # "paid"
    <2>1. meta' = Credit!Cleared(Credit!Cleared(meta, "owner"), "ref")  BY <1>3
        DEF Credit!Finalizes
    <2>2. meta' \in Metas  BY <1>2, <2>1, ClearedIs
    <2> QED  BY <1>1, <1>3, <2>2, RestingIs DEF Credit!NoDebtLost
<1>4. CASE status = "paid"
    <2> DEFINE m == Credit!After(Credit!After(meta, "owner"), "ref")
    <2>1. meta' = m /\ dropped' = dropped \cup Credit!GivenUp(m)  BY <1>4 DEF Credit!Finalizes
    <2>2. Credit!After(meta, "owner") \in Metas  BY <1>2, AfterIs
    <2>3. m \in Metas /\ m.debt["owner"] = Credit!After(meta, "owner").debt["owner"]
        BY <1>2, <2>2, AfterIs
    <2>4. meta.debt["owner"] /\ ~Credit!After(meta, "owner").debt["owner"] =>
             turn.kind["owner"] = "send" /\ (turn.ok["owner"] = "yes" \/ meta.tries["owner"] + 1 >= MaxTries)
        BY <1>2, AfterIs
    <2>5. meta.debt["owner"] /\ ~Credit!After(meta, "owner").debt["owner"] =>
             turn.ok["owner"] # "forbidden" /\ turn.ok["owner"] # "none"
        BY <1>2 DEF Credit!Finalizes, Credit!After
    <2> HIDE DEF m
    <2>6. meta.debt["owner"] /\ ~m.debt["owner"] => sent.owner > 0 \/ "owner" \in Credit!GivenUp(m)
        <3>1. SUFFICES ASSUME meta.debt["owner"], ~m.debt["owner"], turn.ok["owner"] # "yes"
                       PROVE  "owner" \in Credit!GivenUp(m)
            OBVIOUS
        <3>2. turn.ok["owner"] \in {"none", "yes", "forbidden", "no"}  BY <1>2 DEF Turns
        <3> QED  BY <1>2, <2>3, <2>4, <2>5, <3>1, <3>2 DEF Credit!GivenUp
    <2>7. Credit!NoDebtLost'  BY <1>1, <1>4, <2>1, <2>3, <2>4, <2>6, <1>2 DEF Credit!NoDebtLost
    <2> QED  BY <1>1, <2>1, <2>3, <2>7, RestingIs
<1> QED  BY <1>3, <1>4

LEMMA AnomalyStep ==
    ASSUME MaxTries \in Nat, DebtInv, Credit!CountsAnomaly
    PROVE  DebtInv'
<1> USE DEF DebtInv, DebtShape
<1>1. UNCHANGED <<status, req, sent>> /\ turn' = Credit!Resting  BY DEF Credit!CountsAnomaly,
    Credit!world
<1>2. meta' \in Metas  BY CountedIs DEF Credit!CountsAnomaly, Credit!Who
<1>3. Credit!NoDebtLost'  BY <1>1 DEF Credit!CountsAnomaly, Credit!NoDebtLost
<1> QED  BY <1>1, <1>2, <1>3, RestingIs

LEMMA DebtKept == ASSUME MaxTries \in Nat, DebtInv, [Credit!Next]_Credit!vars PROVE DebtInv'
<1>1. CASE UNCHANGED Credit!vars  BY <1>1 DEF Credit!vars, DebtInv, DebtShape, Credit!NoDebtLost
<1>2. CASE Credit!CacheExpires \/ Credit!Ages \/ \E p \in Credit!Who : Credit!Blocks(p) \/ Credit!Returns(p)
    <2>1. UNCHANGED <<meta, status, turn, req, sent, dropped>>
        BY <1>2 DEF Credit!CacheExpires, Credit!Ages, Credit!Blocks, Credit!Returns,
           Credit!world
    <2> QED  BY <2>1 DEF DebtInv, DebtShape, Credit!NoDebtLost
<1>3. CASE Credit!Crash
    BY <1>3, RestingIs DEF Credit!Crash, Credit!world, DebtInv, DebtShape, Credit!NoDebtLost
<1>4. CASE Credit!Next
    BY <1>2, <1>3, <1>4, OrderStep, RequestStep, SnapshotStep, DropStep, SendStep, FinalStep,
       AnomalyStep DEF Credit!Next, Credit!Worker
<1> QED  BY <1>1, <1>4

\* credit_notifications.py: a debt is gone only when a message was accepted or
\* it was given up for a reason the worker knows, whatever refunds, requests,
\* blocks and crashes come in between, for any number of attempts.
THEOREM DebtsKept == ASSUME MaxTries \in Nat PROVE Credit!Spec => [](Credit!TypeOK /\ Credit!NoDebtLost)
<1>1. Credit!Init => DebtInv  BY DebtStart
<1>2. DebtInv /\ [Credit!Next]_Credit!vars => DebtInv'  BY DebtKept
<1>3. DebtInv => Credit!TypeOK /\ Credit!NoDebtLost  BY DEF DebtInv, DebtShape, Metas, Turns,
    Credit!TypeOK
<1> QED  BY <1>1, <1>2, <1>3, PTL DEF Credit!Spec

-----------------------------------------------------------------------------
\* Alerts of an ingress, a CDN or a relay.
AlertShape ==
    /\ Alerts!TypeOK /\ news \in {"none", "problem", "restored"}
    /\ alert # "none" => mem \in Alerts!State

\* What is being recorded is what was told last; a relay's outage is recorded
\* before it is told.
RecordFollows ==
    /\ alert = "saveset" => news = "problem"
    /\ alert = "saveclear" => news = "restored"
    /\ Relay /\ alert \in {"problem", "reminder", "saveset"} => db.flag

\* The row knows of an outage that was told, unless the record is under way or
\* the end of it is; a relay's flag is put back when the end is not delivered.
RowKnows ==
    ~cut /\ news = "problem" =>
        /\ alert # "problem"
        /\ alert \in {"none", "reminder"} => db.flag
        /\ alert = "restored" => Relay \/ db.flag

AlertInv == AlertShape /\ RecordFollows /\ RowKnows

LEMMA AlertStart == ASSUME Alerts!AlertConstants, Alerts!Init PROVE AlertInv
<1>1. db \in Alerts!State /\ db.fails = 0
    BY DEF Alerts!Init, Alerts!Fresh, Alerts!State, Alerts!AlertConstants
<1>2. mem = Idle /\ alert = "none" /\ news = "none" /\ cut = FALSE  BY DEF Alerts!Init
<1>3. AlertShape  BY <1>1, <1>2 DEF AlertShape, Alerts!TypeOK
<1> QED  BY <1>2, <1>3 DEF AlertInv, RecordFollows, RowKnows

\* What an evaluation counts.
LEMMA MergedIs ==
    ASSUME Alerts!AlertConstants, AlertShape
    PROVE  Alerts!Merged \in Alerts!State /\ (db.flag => Alerts!Merged.flag)
<1>1. Alerts!Held \in Alerts!State /\ db \in Alerts!State  BY DEF Alerts!Held, AlertShape,
    Alerts!TypeOK
<1>2. Alerts!EndpointMerged \in Alerts!State /\ (db.flag => Alerts!EndpointMerged.flag)
    BY <1>1 DEF Alerts!EndpointMerged, Alerts!State
<1>3. Alerts!RelayMerged \in Alerts!State /\ (db.flag => Alerts!RelayMerged.flag)
    BY <1>1 DEF Alerts!RelayMerged, Alerts!State
<1> QED  BY <1>2, <1>3 DEF Alerts!Merged

LEMMA ProbesCountedIs ==
    ASSUME Alerts!AlertConstants, NEW m \in Alerts!State
    PROVE  /\ Alerts!Counted(m) \in Alerts!State /\ Alerts!Counted(m).flag = m.flag
           /\ Alerts!Counted(m).fails = 0 \/ Alerts!Counted(m).succ = 0
<1>1. CASE up
    <2> DEFINE n == Alerts!Upto(m.succ, Successes + 1)
    <2>1. n \in 0..(Successes + 1)  BY DEF Alerts!Upto, Alerts!State, Alerts!AlertConstants
    <2>2. Alerts!Counted(m) = [m EXCEPT !.succ = n, !.fails = 0]  BY <1>1 DEF Alerts!Counted
    <2>3. 0 \in 0..(Fails + 1) /\ 0 \in 0..(Successes + 1)  BY DEF Alerts!AlertConstants
    <2>4. m \in [flag : BOOLEAN, fails : 0..(Fails + 1), succ : 0..(Successes + 1)]  BY DEF Alerts!State
    <2> HIDE DEF n
    <2> QED  BY <2>1, <2>2, <2>3, <2>4 DEF Alerts!State
<1>2. CASE ~up
    <2> DEFINE n == Alerts!Upto(m.fails, Fails + 1)
    <2>1. n \in 0..(Fails + 1)  BY DEF Alerts!Upto, Alerts!State, Alerts!AlertConstants
    <2>2. Alerts!Counted(m) = [m EXCEPT !.fails = n, !.succ = 0]  BY <1>2 DEF Alerts!Counted
    <2>3. 0 \in 0..(Fails + 1) /\ 0 \in 0..(Successes + 1)  BY DEF Alerts!AlertConstants
    <2>4. m \in [flag : BOOLEAN, fails : 0..(Fails + 1), succ : 0..(Successes + 1)]  BY DEF Alerts!State
    <2> HIDE DEF n
    <2> QED  BY <2>1, <2>2, <2>3, <2>4 DEF Alerts!State
<1> QED  BY <1>1, <1>2

\* No outage is announced that was announced before, and only those are recalled.
LEMMA DueIs ==
    ASSUME NEW m, NEW c, NEW due \in Alerts!Due(m, c)
    PROVE  /\ due \in {"none", "problem", "reminder", "restored"}
           /\ m.flag => due # "problem"
           /\ due = "reminder" => m.flag
BY DEF Alerts!Due, Alerts!EndpointDue, Alerts!RelayDue

LEMMA EvaluateStep ==
    ASSUME Alerts!AlertConstants, AlertInv, Alerts!Evaluate
    PROVE  AlertInv'
<1> DEFINE c == Alerts!Counted(Alerts!Merged)
<1>1. PICK due \in Alerts!Due(Alerts!Merged, c) :
        LET flag == IF Relay THEN (Alerts!Merged.flag \/ due = "problem") /\ due # "restored"
            ELSE Alerts!Merged.flag
            new == [c EXCEPT !.flag = flag]
        IN  /\ due = "reminder" => "reminder" \in AlertKinds
            /\ mem' = new /\ db' = IF Relay THEN new ELSE [new EXCEPT !.flag = db.flag]
            /\ alert' = due
    BY DEF Alerts!Evaluate
<1>2. Alerts!Merged \in Alerts!State /\ (db.flag => Alerts!Merged.flag)  BY MergedIs
    DEF AlertInv
<1>3. c \in Alerts!State /\ c.flag = Alerts!Merged.flag /\ (c.fails = 0 \/ c.succ = 0)  BY <1>2, ProbesCountedIs
<1>4. /\ due \in {"none", "problem", "reminder", "restored"}
      /\ Alerts!Merged.flag => due # "problem"
      /\ due = "reminder" => Alerts!Merged.flag
    BY DueIs
<1> HIDE DEF c
<1> DEFINE flag == IF Relay THEN (Alerts!Merged.flag \/ due = "problem") /\ due # "restored"
    ELSE Alerts!Merged.flag
           new == [c EXCEPT !.flag = flag]
<1>5. flag \in BOOLEAN  BY <1>2 DEF Alerts!State
<1>6. mem' = new /\ (Relay => db' = new) /\ (~Relay => db' = [new EXCEPT !.flag = db.flag])
    BY <1>1
<1> HIDE DEF flag
<1>7. new \in Alerts!State /\ new.flag = flag /\ new.fails = c.fails /\ new.succ = c.succ
    BY <1>3, <1>5 DEF Alerts!State
<1> HIDE DEF new
<1>8. /\ mem' \in Alerts!State /\ db' \in Alerts!State /\ (db'.fails = 0 \/ db'.succ = 0)
      /\ Relay => db'.flag = flag
      /\ ~Relay => db'.flag = db.flag
    <2>1. CASE Relay  BY <1>3, <1>6, <1>7, <2>1
    <2>2. CASE ~Relay
        <3>1. db.flag \in BOOLEAN  BY DEF AlertInv, AlertShape, Alerts!TypeOK, Alerts!State
        <3>2. [new EXCEPT !.flag = db.flag] \in Alerts!State
              /\ [new EXCEPT !.flag = db.flag].flag = db.flag
              /\ [new EXCEPT !.flag = db.flag].fails = new.fails
              /\ [new EXCEPT !.flag = db.flag].succ = new.succ
            BY <1>7, <3>1 DEF Alerts!State
        <3> QED  BY <1>3, <1>6, <1>7, <2>2, <3>2
    <2> QED  BY <2>1, <2>2
<1>9. alert = "none" /\ alert' = due /\ news' = news /\ cut' = cut  BY <1>1 DEF Alerts!Evaluate
<1>10. AlertShape'  BY <1>4, <1>8, <1>9 DEF AlertInv, AlertShape, Alerts!TypeOK
<1>11. RecordFollows'
    BY <1>4, <1>8, <1>9 DEF RecordFollows, flag
<1>12. ASSUME ~cut, news = "problem"
       PROVE  due # "problem" /\ (due \in {"none", "reminder"} => db'.flag)
              /\ (due = "restored" => Relay \/ db'.flag)
    <2>1. db.flag /\ Alerts!Merged.flag  BY <1>2, <1>9, <1>12 DEF AlertInv, RowKnows
    <2> QED  BY <1>4, <1>8, <2>1 DEF flag
<1>13. RowKnows'  BY <1>4, <1>9, <1>12 DEF RowKnows, Alerts!Evaluate
<1> QED  BY <1>10, <1>11, <1>13 DEF AlertInv

LEMMA DeliverStep ==
    ASSUME Alerts!AlertConstants, AlertInv, Alerts!Deliver \/ Alerts!Record \/ Alerts!DeliverFails
    PROVE  AlertInv'
<1> USE DEF AlertInv, AlertShape, RecordFollows, RowKnows
<1>1. CASE Alerts!Deliver
    <2>1. mem \in Alerts!State  BY <1>1 DEF Alerts!Deliver
    <2>2. mem' \in Alerts!State  BY <1>1, <2>1 DEF Alerts!Deliver, Alerts!State
    <2> QED  BY <1>1, <2>2 DEF Alerts!Deliver, Alerts!TypeOK
<1>2. CASE Alerts!Record
    <2>1. db' \in Alerts!State /\ db'.fails = db.fails /\ db'.succ = db.succ /\ (db'.flag <=> alert = "saveset")
        BY <1>2 DEF Alerts!Record, Alerts!State, Alerts!TypeOK
    <2> QED  BY <1>2, <2>1 DEF Alerts!Record, Alerts!TypeOK
<1>3. CASE Alerts!DeliverFails
    <2>0. mem \in Alerts!State /\ db \in Alerts!State  BY <1>3 DEF Alerts!DeliverFails,
        Alerts!TypeOK
    <2>1. \A f \in BOOLEAN : Alerts!PutBack(f) \in BOOLEAN  BY DEF Alerts!PutBack,
        Alerts!AlertConstants
    <2>2. mem' \in Alerts!State  BY <1>3, <2>0, <2>1 DEF Alerts!DeliverFails, Alerts!State
    <2>3. db' \in Alerts!State /\ db'.fails = db.fails /\ db'.succ = db.succ /\ db'.flag = Alerts!PutBack(db.flag)
        BY <1>3, <2>0, <2>1 DEF Alerts!DeliverFails, Alerts!State
    <2>4. ~cut' /\ news = "problem" => db'.flag
        BY <1>3, <2>3 DEF Alerts!DeliverFails, Alerts!PutBack
    <2> QED  BY <1>3, <2>2, <2>3, <2>4 DEF Alerts!DeliverFails, Alerts!TypeOK
<1> QED  BY <1>1, <1>2, <1>3

LEMMA AlertKept == ASSUME Alerts!AlertConstants, AlertInv, [Alerts!Next]_Alerts!vars PROVE AlertInv'
<1> USE DEF AlertInv, AlertShape, RecordFollows, RowKnows
<1>1. CASE UNCHANGED Alerts!vars  BY <1>1 DEF Alerts!vars, Alerts!TypeOK
<1>2. CASE Alerts!Toggle
    <2>1. Alerts!Fresh \in Alerts!State  BY DEF Alerts!Fresh, Alerts!State,
        Alerts!AlertConstants
    <2> QED  BY <1>2, <2>1 DEF Alerts!Toggle, Alerts!TypeOK
<1>3. CASE Alerts!Crash  BY <1>3 DEF Alerts!Crash, Alerts!TypeOK
<1>4. CASE Alerts!Flip  BY <1>4 DEF Alerts!Flip, Alerts!TypeOK
<1>5. CASE Alerts!Next  BY <1>2, <1>3, <1>4, <1>5, EvaluateStep, DeliverStep DEF Alerts!Next
<1> QED  BY <1>1, <1>5

\* evaluate_ingress and its relatives: while the last news of an outage is the
\* outage, memory or row knows of it, so that its end is told, for any counts
\* of probes, although messages are lost, servers switched off and on, and the
\* bot restarts; unless a crash fell between the message and its record, or a
\* relay's reminder was not delivered.
THEOREM OutageRemembered ==
    ASSUME Alerts!AlertConstants
    PROVE  Alerts!Spec => [](Alerts!TypeOK /\ Alerts!OutageIsRemembered)
<1>1. Alerts!Init => AlertInv  BY AlertStart
<1>2. AlertInv /\ [Alerts!Next]_Alerts!vars => AlertInv'  BY AlertKept
<1>3. AlertInv => Alerts!TypeOK /\ Alerts!OutageIsRemembered
    BY DEF AlertInv, AlertShape, RowKnows, Alerts!OutageIsRemembered
<1> QED  BY <1>1, <1>2, <1>3, PTL DEF Alerts!Spec

\* credit_notifications.py and node_monitor.py: both workers, each on its own
\* and in any interleaving of their steps, keep the news they owe.
THEOREM NewsKeptAlways ==
    ASSUME MaxTries \in Nat, Alerts!AlertConstants
    PROVE  Credit!Spec /\ Alerts!Spec => []NewsIsKept
<1>1. Credit!TypeOK /\ Credit!NoDebtLost /\ Alerts!TypeOK /\ Alerts!OutageIsRemembered => NewsIsKept
    BY DEF NewsIsKept
<1> QED  BY <1>1, DebtsKept, OutageRemembered, PTL
=============================================================================
