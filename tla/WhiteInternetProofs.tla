------------------------- MODULE WhiteInternetProofs -------------------------
(* For any nodes, any number of moves, failures, crashes and operations: no  *)
(* origin node keeps a credential that neither a row nor the clean-up outbox *)
(* knows of, and what a settled row says of its origin is true.              *)
EXTENDS WhiteInternet, TLAPS

At(n) == HasRow /\ sub.origin = n

\* The copies in flight: the session's always asks for service, the task's if
\* the row it was read from was to be served.
TaskServes == task # Idle /\ ShouldServe(task.copy)

\* The outbox is durable and carries the version of the move.
Listed(n) == \E o \in orphans : o.node = n
ListedAbove(n, v) == \E o \in orphans : o.node = n /\ o.ver > v

\* A call that is still to come finds its node the origin, ahead of it, or listed.
Covered(n, v) == n \in Rows => At(n) \/ node[n].ver > v \/ ListedAbove(n, v)
CallsCovered ==
    /\ inline # Idle /\ inline.reply = "none" => Covered(inline.node, inline.copy.desired)
    /\ TaskServes /\ task.phase # "called" => Covered(task.node, task.copy.desired)

\* No copy is ahead of the row, and those that ask for service are behind it
\* once it is DISABLED.
CopiesBehind ==
    HasRow =>
        /\ inline # Idle => inline.copy.desired <= sub.desired
        /\ task # Idle => task.copy.desired <= sub.desired
        /\ sub.status = "DISABLED" =>
             /\ inline # Idle => inline.copy.desired < sub.desired
             /\ TaskServes => task.copy.desired < sub.desired

\* A row that may be deleted is a trial's; it comes back for nobody, and before
\* the first row there is nothing in flight.
OneRow ==
    /\ HasRow => ~hardGone /\ (sub.hard => sub.trial)
    /\ ~HasRow /\ ~hardGone => inline = Idle /\ task = Idle

\* A trial never moves under a task.
TrialStays ==
    HasRow /\ sub.trial /\ task # Idle => sub.origin \in {task.node, NoNode}

\* What the task was told of the node.
AnswerKept ==
    task # Idle /\ task.phase = "called" =>
        /\ task.reply \in {"applied", "already_newer"} =>
               node[task.node].ver >= task.copy.desired
        /\ /\ task.reply = "applied" /\ ~ShouldServe(task.copy)
           /\ HasRow /\ sub.trial /\ sub.status = "DISABLED"
           /\ sub.origin = task.node /\ sub.desired = task.copy.desired
           => ~node[task.node].on

\* What a disabled trial row says of its node.
DisabledIsTrue ==
    HasRow /\ sub.trial /\ sub.status = "DISABLED" /\ sub.origin # NoNode
    /\ sub.actual = sub.desired =>
        /\ node[sub.origin].ver >= sub.desired
        /\ sub.prov = "SYNCED_INACTIVE" => ~node[sub.origin].on

OrphanInv ==
    /\ TypeOK
    /\ OneRow /\ CopiesBehind /\ TrialStays
    /\ AnswerKept /\ DisabledIsTrue
    /\ CallsCovered /\ NoCredentialOrphaned

-----------------------------------------------------------------------------
\* What the callers rely on of a node's answer: versions never fall; what is told
\* applied or already newer has the version; only a call that asks for service
\* and is not behind turns the client on; an applied call does what it asks.
LEMMA AnswersAre ==
    ASSUME NEW n \in Nodes, NEW v \in Nat, NEW active \in BOOLEAN, NEW e \in Nat,
           node \in [Nodes -> [ver : Nat, on : BOOLEAN, gen : Nat]],
           NEW a \in NodeAnswers(n, v, active, e) \cup LostAnswers(n, v, active, e)
    PROVE  /\ a.after \in [ver : Nat, on : BOOLEAN, gen : Nat]
           /\ a.after.ver >= node[n].ver
           /\ a.reply \in {"applied", "already_newer", "fenced", "failed"}
           /\ a.reply \in {"applied", "already_newer"} => a.after.ver >= v
           /\ a.reply = "applied" => a.after.on = active
           /\ a.reply = "already_newer" => a.after = node[n]
           /\ a.after.on /\ ~node[n].on => active /\ node[n].ver <= v
           /\ a.after.on # node[n].on => a.after.on = active /\ node[n].ver <= v
           /\ a.after.gen = node[n].gen
<1> DEFINE now == node[n]
           done == [now EXCEPT !.ver = v, !.on = active]
<1>1. /\ now \in [ver : Nat, on : BOOLEAN, gen : Nat]
      /\ done \in [ver : Nat, on : BOOLEAN, gen : Nat]
      /\ done.ver = v /\ done.on = active /\ done.gen = now.gen
    OBVIOUS
<1>2. ASSUME NEW b \in NodeAnswers(n, v, active, e)
      PROVE  \/ b = [reply |-> "fenced", after |-> now]
             \/ v <= now.ver /\ b = [reply |-> "already_newer", after |-> now]
             \/ v >= now.ver /\ b = [reply |-> "applied", after |-> done]
    BY <1>1 DEF NodeAnswers
<1>3. \/ a = [reply |-> "fenced", after |-> now]
      \/ v <= now.ver /\ a = [reply |-> "already_newer", after |-> now]
      \/ v >= now.ver /\ a = [reply |-> "applied", after |-> done]
      \/ a.reply = "failed" /\ a.after = now
      \/ v >= now.ver /\ a.reply = "failed" /\ a.after = done
    <2>1. CASE a \in NodeAnswers(n, v, active, e)
        BY <1>2, <2>1
    <2>2. CASE a = [reply |-> "failed", after |-> node[n]]
        BY <2>2
    <2>3. ASSUME NEW b \in NodeAnswers(n, v, active, e), a = [b EXCEPT !.reply = "failed"]
          PROVE  \/ a.reply = "failed" /\ a.after = now
                 \/ v >= now.ver /\ a.reply = "failed" /\ a.after = done
        <3> HIDE DEF now, done
        <3> QED
            BY <1>2, <2>3
    <2> QED
        BY <2>1, <2>2, <2>3 DEF LostAnswers
<1> HIDE DEF done
<1> QED
    BY <1>1, <1>3

NodeStates == [Nodes -> [ver : Nat, on : BOOLEAN, gen : Nat]]

\* Every node keeps its version or rises, and none starts to serve.
Quieter ==
    /\ node' \in NodeStates
    /\ \A n \in Nodes : node'[n].ver >= node[n].ver /\ (node'[n].on => node[n].on)

-----------------------------------------------------------------------------
\* The fields that the argument uses, and their types.
LEMMA RowFields ==
    ASSUME NEW s \in Subscriptions
    PROVE  /\ s.desired \in Nat /\ s.actual \in Nat /\ s.left \in 0..MaxLeft
           /\ s.origin \in Nodes \cup {NoNode}
           /\ s.trial \in BOOLEAN /\ s.hard \in BOOLEAN
           /\ s.status \in Statuses /\ s.prov \in Provisioning
BY DEF Subscriptions

LEMMA SessionFields ==
    ASSUME NEW i \in Sessions
    PROVE  /\ i.node \in Nodes /\ i.copy \in Subscriptions /\ i.copy.desired \in Nat
           /\ i.expected \in Nat
BY DEF Sessions, Subscriptions

LEMMA TaskFields ==
    ASSUME NEW t \in Tasks
    PROVE  /\ t.node \in Nodes /\ t.copy \in Subscriptions /\ t.copy.desired \in Nat
           /\ t.copy.left \in Nat /\ t.expected \in Nat
BY DEF Tasks, Subscriptions

LEMMA NodeFields ==
    ASSUME NEW w \in NodeStates, NEW n \in Nodes
    PROVE  w[n].ver \in Nat /\ w[n].on \in BOOLEAN /\ w[n].gen \in Nat
BY DEF NodeStates

\* All of it, for the state.
Typed ==
    /\ node \in NodeStates
    /\ inline # Idle => inline \in Sessions
    /\ task # Idle => task \in Tasks
    /\ HasRow => sub \in Subscriptions /\ sub.actual <= sub.desired

LEMMA TypesAre == ASSUME TypeOK PROVE Typed
BY DEF TypeOK, Typed, HasRow, NodeStates

-----------------------------------------------------------------------------
\* What the operations do to the sessions: nothing, or one starts with the new
\* row, on its origin; one that ends is gone.
SessionMay ==
    \/ inline' \in {inline, Idle}
    \/ /\ inline'.copy.desired <= sub'.desired /\ sub'.status # "DISABLED"
       /\ HasRow' /\ sub'.origin = inline'.node

\* And to the task: nothing, it ends, or it goes on with a copy that is to be
\* served only if the one it had was.
TaskMay ==
    \/ task' \in {task, Idle}
    \/ /\ task # Idle /\ task.phase = "read" /\ task'.phase = "planned"
       /\ task'.node = task.node
       /\ HasRow' => task'.copy.desired <= sub'.desired
       /\ ShouldServe(task'.copy) => task'.copy = task.copy

\* A change of the row that keeps what is in flight behind it.
RowMay ==
    /\ HasRow /\ HasRow'
    /\ sub'.desired >= sub.desired
    /\ sub'.hard => sub'.trial
    /\ sub'.trial => sub.trial /\ sub'.origin \in {sub.origin, NoNode}
    /\ sub'.status = "DISABLED" => sub.status = "DISABLED" \/ sub'.desired > sub.desired

LEMMA QuietIfSame == ASSUME TypeOK, UNCHANGED node PROVE Quieter
BY TypesAre, NodeFields DEF Typed, Quieter

LEMMA RowStep ==
    ASSUME OrphanInv, TypeOK', RowMay, SessionMay, TaskMay, Quieter, UNCHANGED hardGone
    PROVE  OneRow' /\ CopiesBehind' /\ TrialStays' /\ AnswerKept'
<1> USE DEF OrphanInv, RowMay
<1>1. Typed /\ sub.desired \in Nat
    BY TypesAre, RowFields DEF Typed
<1>2. /\ sub' \in Subscriptions /\ sub'.desired \in Nat /\ sub'.trial \in BOOLEAN
      /\ inline' # Idle => inline'.copy.desired \in Nat
      /\ task' # Idle => task'.copy.desired \in Nat
    BY SessionFields, TaskFields, RowFields DEF TypeOK, HasRow
<1>3. /\ inline # Idle => inline.copy.desired \in Nat
      /\ task # Idle => task.copy.desired \in Nat
    BY <1>1, SessionFields, TaskFields DEF Typed
<1>4. OneRow'
    BY DEF OneRow
<1>5. CopiesBehind'
    <2>1. inline' # Idle => /\ inline'.copy.desired <= sub'.desired
                            /\ sub'.status = "DISABLED" => inline'.copy.desired < sub'.desired
        BY <1>1, <1>2, <1>3 DEF CopiesBehind, SessionMay
    <2>2. task' # Idle => task'.copy.desired <= sub'.desired
        BY <1>1, <1>2, <1>3 DEF CopiesBehind, TaskMay
    <2>3. ASSUME task' # Idle, ShouldServe(task'.copy), sub'.status = "DISABLED"
          PROVE  task'.copy.desired < sub'.desired
        <3>1. task # Idle /\ task'.copy = task.copy
            BY <2>3 DEF TaskMay
        <3> QED
            BY <1>1, <1>2, <1>3, <2>3, <3>1 DEF CopiesBehind, TaskServes
    <2> QED
        BY <2>1, <2>2, <2>3 DEF CopiesBehind, TaskServes
<1>6. TrialStays'
    BY <1>2 DEF TrialStays, TaskMay
<1>7. AnswerKept'
    <2> SUFFICES ASSUME task # Idle, task' = task, task.phase = "called" PROVE AnswerKept'
        BY DEF AnswerKept, TaskMay
    <2>1. sub'.desired = task.copy.desired /\ sub'.status = "DISABLED" =>
              sub.desired = sub'.desired /\ sub.status = "DISABLED"
        BY <1>1, <1>2, <1>3 DEF CopiesBehind
    <2>2. task.node \in Nodes /\ task.copy.desired \in Nat
        BY <1>1, TaskFields DEF Typed
    <2>3. sub'.trial /\ sub'.origin = task.node => sub.trial /\ sub.origin = task.node
        BY <2>2, WhiteConstants
    <2>4. /\ node'[task.node].ver >= node[task.node].ver
          /\ node'[task.node].on => node[task.node].on
          /\ node[task.node].ver \in Nat /\ node'[task.node].ver \in Nat
        BY <1>1, <2>2, NodeFields DEF Quieter, Typed
    <2> QED
        BY <2>1, <2>2, <2>3, <2>4 DEF AnswerKept
<1> QED
    BY <1>4, <1>5, <1>6, <1>7

\* The same when the row is left alone.
LEMMA SameRowStep ==
    ASSUME OrphanInv, TypeOK', UNCHANGED <<sub, hardGone>>, Quieter,
           inline' \in {inline, Idle}, task' \in {task, Idle}
    PROVE  OneRow' /\ CopiesBehind' /\ TrialStays' /\ AnswerKept' /\ DisabledIsTrue'
<1>1. CASE HasRow
    <2>1. sub \in Subscriptions /\ sub.desired \in Nat /\ sub.origin \in Nodes \cup {NoNode}
        BY <1>1, TypesAre, RowFields DEF OrphanInv, Typed
    <2>2. RowMay /\ SessionMay /\ TaskMay
        BY <1>1, <2>1 DEF RowMay, SessionMay, TaskMay, HasRow, OrphanInv, OneRow
    <2>3. \A n \in Nodes : node[n].ver \in Nat /\ node'[n].ver \in Nat
        BY TypesAre, NodeFields DEF OrphanInv, Typed, Quieter
    <2>4. DisabledIsTrue'
        <3> SUFFICES ASSUME sub.trial, sub.status = "DISABLED", sub.origin # NoNode,
                            sub.actual = sub.desired
                     PROVE  /\ node'[sub.origin].ver >= sub.desired
                            /\ sub.prov = "SYNCED_INACTIVE" => ~node'[sub.origin].on
            BY DEF DisabledIsTrue
        <3> QED
            BY <1>1, <2>1, <2>3 DEF OrphanInv, DisabledIsTrue, Quieter
    <2> QED
        BY <2>2, <2>4, RowStep
<1>2. CASE ~HasRow
    <2>1. OneRow' /\ CopiesBehind' /\ TrialStays' /\ DisabledIsTrue'
        BY <1>2 DEF OrphanInv, OneRow, CopiesBehind, TrialStays, DisabledIsTrue, HasRow
    <2>2. AnswerKept'
        <3> SUFFICES ASSUME task # Idle, task' = task, task.phase = "called" PROVE AnswerKept'
            BY DEF AnswerKept
        <3>1. /\ task.node \in Nodes /\ task.copy.desired \in Nat
              /\ node'[task.node].ver >= node[task.node].ver
              /\ node[task.node].ver \in Nat /\ node'[task.node].ver \in Nat
            BY TypesAre, TaskFields, NodeFields DEF OrphanInv, Typed, Quieter
        <3> QED
            BY <1>2, <3>1 DEF OrphanInv, AnswerKept, HasRow
    <2> QED
        BY <2>1, <2>2
<1> QED
    BY <1>1, <1>2

\* An operation that leaves the row on its origin, and the outbox alone.
LEMMA StayStep ==
    ASSUME OrphanInv, TypeOK', RowMay, SessionMay, TaskMay, DisabledIsTrue',
           UNCHANGED <<node, server, orphans, hardGone>>, sub'.origin = sub.origin
    PROVE  OrphanInv'
<1>1. OneRow' /\ CopiesBehind' /\ TrialStays' /\ AnswerKept'
    BY RowStep, QuietIfSame DEF OrphanInv
<1>2. CallsCovered'
    BY DEF OrphanInv, CallsCovered, Covered, At, Rows, ListedAbove, TaskServes, RowMay,
           SessionMay, TaskMay
<1>3. NoCredentialOrphaned'
    BY DEF OrphanInv, NoCredentialOrphaned, Rows, RowMay
<1> QED
    BY <1>1, <1>2, <1>3 DEF OrphanInv

\* A step that leaves the outbox alone and switches nobody on.
LEMMA QuietStep ==
    ASSUME OrphanInv, TypeOK', UNCHANGED <<sub, orphans, hardGone>>, Quieter, Rows' = Rows,
           inline' \in {inline, Idle}, task' \in {task, Idle}
    PROVE  OrphanInv'
<1>1. OneRow' /\ CopiesBehind' /\ TrialStays' /\ AnswerKept' /\ DisabledIsTrue'
    BY SameRowStep
<1>2. Typed /\ \A n \in Nodes : node[n].ver \in Nat /\ node'[n].ver \in Nat
    BY TypesAre, NodeFields DEF OrphanInv, Typed, Quieter
<1>3. CallsCovered'
    <2>1. ASSUME NEW n \in Nodes, NEW v \in Nat, Covered(n, v) PROVE Covered(n, v)'
        BY <1>2, <2>1 DEF Covered, At, HasRow, ListedAbove, Quieter
    <2>2. inline # Idle => inline.node \in Nodes /\ inline.copy.desired \in Nat
        BY <1>2, SessionFields DEF Typed
    <2>3. task # Idle => task.node \in Nodes /\ task.copy.desired \in Nat
        BY <1>2, TaskFields DEF Typed
    <2> QED
        BY <2>1, <2>2, <2>3 DEF OrphanInv, CallsCovered, TaskServes
<1>4. NoCredentialOrphaned'
    BY DEF OrphanInv, NoCredentialOrphaned, Quieter, Rows, HasRow
<1> QED
    BY <1>1, <1>3, <1>4 DEF OrphanInv

\* An operation that moves a paid row, or leaves it where it is: the clean-ups on
\* the new origin are cancelled, the old origin is listed above every copy.
LEMMA MoveStep ==
    ASSUME OrphanInv, TypeOK', RowMay, SessionMay, ~sub'.trial,
           NEW n \in Nodes, sub'.origin = n, NEW v \in Nat, v > sub.desired,
           orphans' = MoveOrphans(sub, n, v), UNCHANGED <<node, server, task, hardGone>>
    PROVE  OrphanInv'
<1>1. Typed /\ sub \in Subscriptions /\ sub.desired \in Nat
    BY TypesAre, RowFields DEF Typed, OrphanInv, RowMay
<1>2. OneRow' /\ CopiesBehind' /\ TrialStays' /\ AnswerKept'
    BY RowStep, QuietIfSame DEF TaskMay, OrphanInv
<1>3. DisabledIsTrue'
    BY DEF DisabledIsTrue
<1>4. ASSUME NEW m \in Nodes, NEW w \in Nat, w <= sub.desired, Covered(m, w)
      PROVE  Covered(m, w)'
    <2> SUFFICES ASSUME m \in Rows, m # n
                 PROVE  node[m].ver > w \/ ListedAbove(m, w)'
        BY DEF Covered, At, Rows, RowMay
    <2>1. CASE At(m)
        <3>1. [node |-> m, ver |-> v] \in orphans' /\ v > w
            BY <1>1, <1>4, <2>1 DEF At, MoveOrphans
        <3> QED
            BY <3>1 DEF ListedAbove
    <2>2. CASE ListedAbove(m, w)
        BY <2>2 DEF ListedAbove, MoveOrphans
    <2> QED
        BY <1>4, <2>1, <2>2 DEF Covered
<1>5. CallsCovered'
    <2>1. ASSUME inline' # Idle, inline'.reply = "none"
          PROVE  Covered(inline.node, inline.copy.desired)'
        <3>1. CASE inline' = inline
            <4>1. /\ inline.node \in Nodes /\ inline.copy.desired \in Nat
                  /\ inline.copy.desired <= sub.desired
                BY <1>1, <2>1, <3>1, SessionFields DEF Typed, OrphanInv, CopiesBehind, RowMay
            <4>2. Covered(inline.node, inline.copy.desired)
                BY <2>1, <3>1 DEF OrphanInv, CallsCovered
            <4>3. ASSUME NEW m \in Nodes, NEW w \in Nat, m = inline.node, w = inline.copy.desired
                  PROVE  Covered(m, w)'
                BY <1>4, <4>1, <4>2, <4>3
            <4> QED
                BY <3>1, <4>1, <4>3 DEF Covered, At, ListedAbove
        <3>2. CASE HasRow' /\ sub'.origin = inline'.node
            BY <3>2 DEF Covered, At
        <3> QED
            BY <2>1, <3>1, <3>2 DEF SessionMay
    <2>2. ASSUME task # Idle, ShouldServe(task.copy), task.phase # "called"
          PROVE  Covered(task.node, task.copy.desired)'
        <3>1. /\ task.node \in Nodes /\ task.copy.desired \in Nat
              /\ task.copy.desired <= sub.desired
            BY <1>1, <2>2, TaskFields DEF Typed, OrphanInv, CopiesBehind, RowMay
        <3>2. Covered(task.node, task.copy.desired)
            BY <2>2 DEF OrphanInv, CallsCovered, TaskServes
        <3>3. ASSUME NEW m \in Nodes, NEW w \in Nat, m = task.node, w = task.copy.desired
              PROVE  Covered(m, w)'
            BY <1>4, <3>1, <3>2, <3>3
        <3> QED
            BY <3>1, <3>3 DEF Covered, At, ListedAbove
    <2> QED
        BY <2>1, <2>2 DEF CallsCovered, TaskServes
<1>6. NoCredentialOrphaned'
    <2> SUFFICES ASSUME NEW m \in Rows, node[m].on, m # n
                 PROVE  \E o \in orphans' : o.node = m
        BY DEF NoCredentialOrphaned, Rows, RowMay
    <2>1. CASE sub.origin = m
        <3>1. [node |-> m, ver |-> v] \in orphans'
            BY <2>1 DEF MoveOrphans
        <3> QED
            BY <3>1
    <2>2. CASE sub.origin # m
        <3>1. PICK o \in orphans : o.node = m
            BY <2>2 DEF OrphanInv, NoCredentialOrphaned
        <3> QED
            BY <3>1 DEF MoveOrphans
    <2> QED
        BY <2>1, <2>2
<1> QED
    BY <1>2, <1>3, <1>5, <1>6 DEF OrphanInv

-----------------------------------------------------------------------------
\* The fields of a row that moves, or stays where it is.
LEMMA MovedIs ==
    ASSUME NEW s \in Subscriptions, s.actual <= s.desired, NEW n \in Nodes
    PROVE  /\ Moved(s, n) \in Subscriptions /\ Moved(s, n).origin = n
           /\ Moved(s, n).actual <= Moved(s, n).desired
           /\ Moved(s, n).desired = s.desired /\ Moved(s, n).status = s.status
           /\ Moved(s, n).trial = s.trial /\ Moved(s, n).hard = s.hard
           /\ Moved(s, n).left = s.left
<1>1. "PENDING_CREATE" \in Provisioning /\ Never \in (Nodes \cup {NoNode}) \X Nat
    BY DEF Provisioning, ProvPending, Never
<1>2. CASE n = s.origin
    BY <1>2 DEF Moved
<1>3. CASE n # s.origin
    <2> DEFINE t == [s EXCEPT !.origin = n, !.actual = 0, !.seen = Never,
                              !.prov = "PENDING_CREATE"]
    <2>1. t \in Subscriptions
        BY <1>1 DEF Subscriptions
    <2>2. /\ t.origin = n /\ t.actual = 0 /\ t.desired = s.desired /\ t.status = s.status
          /\ t.trial = s.trial /\ t.hard = s.hard /\ t.left = s.left /\ s.desired \in Nat
        BY DEF Subscriptions
    <2>3. Moved(s, n) = t
        BY <1>3 DEF Moved
    <2> HIDE DEF t
    <2> QED
        BY <2>1, <2>2, <2>3
<1> QED
    BY <1>2, <1>3

\* A dispatch and a clean-up name a node and a version.
LEMMA MoveTypes ==
    ASSUME TypeOK, NEW s \in Subscriptions, NEW n \in Nodes, NEW v \in Nat
    PROVE  /\ MoveOrphans(s, n, v) \subseteq [node : Nodes, ver : Nat]
           /\ MoveDispatch(s, n, v) => calls' \subseteq [node : Nodes, ver : Nat]
<1>1. /\ orphans \subseteq [node : Nodes, ver : Nat] /\ calls \subseteq [node : Nodes, ver : Nat]
      /\ Rows \subseteq Nodes
    BY DEF TypeOK, Rows
<1>2. MoveOrphans(s, n, v) \subseteq [node : Nodes, ver : Nat]
    BY <1>1 DEF MoveOrphans
<1>3. MoveDispatch(s, n, v) => calls' \subseteq [node : Nodes, ver : Nat]
    BY <1>1 DEF MoveDispatch, Dispatch
<1> QED
    BY <1>2, <1>3

LEMMA EventTypes == ASSUME TypeOK, Event PROVE events' \in 0..MaxEvents
BY WhiteConstants DEF TypeOK, Event

\* A session that starts.
LEMMA SessionTypes ==
    ASSUME TypeOK, NEW s \in Subscriptions, NEW n \in Nodes, StartInline(s, n)
    PROVE  /\ inline' \in Sessions /\ inline'.copy = s /\ inline'.node = n
           /\ inline'.reply = "none"
<1>1. epoch[n] \in Nat
    BY DEF TypeOK
<1> QED
    BY <1>1 DEF StartInline, Sessions

\* A purchase, renewal, conversion, top-up or device slot that moves the row.
LEMMA PaidMove ==
    ASSUME OrphanInv, HasRow, Event, NEW n \in Placements(sub),
           NEW s \in Subscriptions, sub' = s,
           s.origin = n, s.actual <= s.desired, s.desired \in {sub.desired, sub.desired + 1},
           ~s.trial, ~s.hard, s.status = "ACTIVE",
           NEW v \in Nat, v > sub.desired,
           orphans' = MoveOrphans(sub, n, v), MoveDispatch(sub, n, v),
           inline' = inline \/ StartInline(s, n),
           UNCHANGED <<server, epoch, node, task, hardGone>>
    PROVE  OrphanInv'
<1>1. TypeOK /\ sub \in Subscriptions /\ sub.desired \in Nat
    BY RowFields DEF OrphanInv, TypeOK, HasRow
<1>2. n \in Nodes
    BY DEF Placements, Allocatable, NeedsMigration
<1>3. inline' # inline => inline' \in Sessions /\ inline'.copy = s /\ inline'.node = n
    BY <1>1, <1>2, SessionTypes
<1>4. TypeOK'
    BY <1>1, <1>2, <1>3, MoveTypes, EventTypes DEF TypeOK
<1>5. HasRow'
    BY WhiteConstants DEF HasRow
<1>6. RowMay
    BY <1>1, <1>5 DEF RowMay
<1>7. SessionMay
    BY <1>1, <1>3, <1>5 DEF SessionMay
<1> QED
    BY <1>2, <1>4, <1>6, <1>7, MoveStep

\* A moved row after the assignments of the operations that are paid for.
PaidRow(m, left) ==
    [m EXCEPT !.trial = FALSE, !.left = left, !.status = "ACTIVE",
              !.desired = @ + 1, !.prov = "PENDING_UPDATE"]

LEMMA PaidRowIs ==
    ASSUME NEW m \in Subscriptions, m.actual <= m.desired, NEW left \in 0..MaxLeft
    PROVE  /\ PaidRow(m, left) \in Subscriptions /\ PaidRow(m, left).origin = m.origin
           /\ PaidRow(m, left).actual <= PaidRow(m, left).desired
           /\ PaidRow(m, left).desired = m.desired + 1 /\ ~PaidRow(m, left).trial
           /\ PaidRow(m, left).hard = m.hard /\ PaidRow(m, left).status = "ACTIVE"
<1>1. /\ m.desired \in Nat /\ m.actual \in Nat /\ m.desired + 1 \in Nat
      /\ "ACTIVE" \in Statuses /\ "PENDING_UPDATE" \in Provisioning
    BY RowFields DEF Statuses, Provisioning, ProvPending
<1> DEFINE s == PaidRow(m, left)
<1>2. s \in Subscriptions
    BY <1>1 DEF Subscriptions, PaidRow
<1>3. /\ s.origin = m.origin /\ s.actual = m.actual /\ s.desired = m.desired + 1
      /\ ~s.trial /\ s.hard = m.hard /\ s.status = "ACTIVE"
    BY DEF Subscriptions, PaidRow
<1> HIDE DEF s
<1>4. s.actual <= s.desired
    BY <1>1, <1>3
<1> QED
    BY <1>2, <1>3, <1>4 DEF s

\* convert_trial_to_paid.
LEMMA ConvertStep ==
    ASSUME OrphanInv, Event, ConvertTrialToPaid, UNCHANGED <<server, epoch, node, task, hardGone>>
    PROVE  OrphanInv'
<1>1. /\ HasRow /\ ~sub.hard /\ sub.left < MaxLeft
      /\ sub \in Subscriptions /\ sub.actual <= sub.desired /\ sub.desired \in Nat
      /\ sub.left + 1 \in 0..MaxLeft
    BY TypesAre, RowFields, WhiteConstants
       DEF OrphanInv, Typed, ConvertTrialToPaid, Deactivating
<1> DEFINE Row(n) == [Moved(sub, n) EXCEPT !.trial = FALSE, !.left = @ + 1,
                          !.status = "ACTIVE", !.desired = @ + 1, !.prov = "PENDING_UPDATE"]
<1>2. PICK n \in Placements(sub) :
          /\ sub' = Row(n) /\ orphans' = MoveOrphans(sub, n, Row(n).desired)
          /\ MoveDispatch(sub, n, Row(n).desired) /\ StartInline(Row(n), n)
    BY DEF ConvertTrialToPaid
<1>3. n \in Nodes
    BY DEF Placements, Allocatable, NeedsMigration
<1> DEFINE m == Moved(sub, n)
<1>4. /\ m \in Subscriptions /\ m.origin = n /\ m.actual <= m.desired
      /\ m.desired = sub.desired /\ m.hard = sub.hard /\ m.left = sub.left
    BY <1>1, <1>3, MovedIs
<1>5. Row(n) = PaidRow(m, sub.left + 1)
    BY <1>4 DEF PaidRow
<1> HIDE DEF m
<1>6. /\ Row(n) \in Subscriptions /\ Row(n).origin = n /\ Row(n).actual <= Row(n).desired
      /\ Row(n).desired = sub.desired + 1 /\ ~Row(n).trial /\ ~Row(n).hard
      /\ Row(n).status = "ACTIVE"
    <2> HIDE DEF Row
    <2> QED
        BY <1>1, <1>4, <1>5, PaidRowIs
<1> HIDE DEF Row
<1> QED
    BY <1>1, <1>2, <1>6, PaidMove

\* renew_subscription.
LEMMA RenewStep ==
    ASSUME OrphanInv, Event, RenewSubscription, UNCHANGED <<server, epoch, node, task, hardGone>>
    PROVE  OrphanInv'
<1>1. /\ HasRow /\ ~sub.hard /\ ~sub.trial /\ sub.left < MaxLeft /\ inline' = inline
      /\ sub \in Subscriptions /\ sub.actual <= sub.desired /\ sub.desired \in Nat
      /\ sub.left + 1 \in 0..MaxLeft
    BY TypesAre, RowFields, WhiteConstants
       DEF OrphanInv, Typed, RenewSubscription, Deactivating
<1> DEFINE Row(n) == [Moved(sub, n) EXCEPT !.left = @ + 1, !.status = "ACTIVE",
                          !.desired = @ + 1, !.prov = "PENDING_UPDATE"]
<1>2. PICK n \in Placements(sub) :
          /\ sub' = Row(n) /\ orphans' = MoveOrphans(sub, n, Row(n).desired + 1)
          /\ MoveDispatch(sub, n, Row(n).desired + 1)
    BY DEF RenewSubscription
<1>3. n \in Nodes
    BY DEF Placements, Allocatable, NeedsMigration
<1> DEFINE m == Moved(sub, n)
<1>4. /\ m \in Subscriptions /\ m.origin = n /\ m.actual <= m.desired
      /\ m.desired = sub.desired /\ m.hard = sub.hard /\ m.left = sub.left
      /\ m.trial = sub.trial
    BY <1>1, <1>3, MovedIs
<1>5. Row(n) = PaidRow(m, sub.left + 1)
    BY <1>1, <1>4 DEF Subscriptions, PaidRow
<1> HIDE DEF m
<1>6. /\ Row(n) \in Subscriptions /\ Row(n).origin = n /\ Row(n).actual <= Row(n).desired
      /\ Row(n).desired = sub.desired + 1 /\ ~Row(n).trial /\ ~Row(n).hard
      /\ Row(n).status = "ACTIVE"
    <2> HIDE DEF Row
    <2> QED
        BY <1>1, <1>4, <1>5, PaidRowIs
<1> HIDE DEF Row
<1> QED
    BY <1>1, <1>2, <1>6, PaidMove

\* topup_quota and purchase_device_slot.
LEMMA TopupStep ==
    ASSUME OrphanInv, Event, TopupQuota,
           UNCHANGED <<server, epoch, node, inline, task, hardGone>>
    PROVE  OrphanInv'
<1>1. /\ HasRow /\ ~sub.trial /\ ~sub.hard /\ sub.status \in {"ACTIVE", "EXHAUSTED"}
      /\ sub \in Subscriptions /\ sub.actual <= sub.desired /\ sub.desired \in Nat
      /\ sub.left \in 0..MaxLeft
    BY TypesAre, RowFields DEF OrphanInv, Typed, TopupQuota, OneRow
<1> DEFINE Row(n) == Refilled(Moved(sub, n))
<1>2. PICK n \in Placements(sub) :
          /\ sub' = Row(n) /\ orphans' = MoveOrphans(sub, n, Row(n).desired + 1)
          /\ MoveDispatch(sub, n, Row(n).desired + 1)
    BY DEF TopupQuota
<1>3. n \in Nodes
    BY DEF Placements, Allocatable, NeedsMigration
<1> DEFINE m == Moved(sub, n)
<1>4. /\ m \in Subscriptions /\ m.origin = n /\ m.actual <= m.desired
      /\ m.desired = sub.desired /\ m.hard = sub.hard /\ m.left = sub.left
      /\ m.trial = sub.trial /\ m.status = sub.status
    BY <1>1, <1>3, MovedIs
<1>5. \/ m.status = "ACTIVE" /\ Row(n) = m
      \/ Row(n) = PaidRow(m, sub.left)
    <2> HIDE DEF m
    <2> QED
        BY <1>1, <1>4 DEF Subscriptions, Refilled, PaidRow, m
<1> HIDE DEF m
<1>6. /\ Row(n) \in Subscriptions /\ Row(n).origin = n /\ Row(n).actual <= Row(n).desired
      /\ Row(n).desired \in {sub.desired, sub.desired + 1} /\ ~Row(n).trial /\ ~Row(n).hard
      /\ Row(n).status = "ACTIVE"
    <2> HIDE DEF Row
    <2> QED
        BY <1>1, <1>4, <1>5, PaidRowIs
<1> HIDE DEF Row
<1> QED
    BY <1>1, <1>2, <1>6, PaidMove

\* The first row.
LEMMA NewRowIs ==
    ASSUME NEW n \in Nodes, NEW trial \in BOOLEAN
    PROVE  /\ NewRow(n, trial) \in Subscriptions /\ NewRow(n, trial).origin = n
           /\ NewRow(n, trial).desired = 1 /\ NewRow(n, trial).actual = 0
           /\ NewRow(n, trial).status = "PENDING" /\ ~NewRow(n, trial).hard
           /\ NewRow(n, trial).seen = Never
<1>1. /\ 1 \in 0..MaxLeft /\ "PENDING" \in Statuses /\ "PENDING_CREATE" \in Provisioning
      /\ Never \in (Nodes \cup {NoNode}) \X Nat
    BY WhiteConstants DEF Statuses, Provisioning, ProvPending, Never
<1> QED
    BY <1>1 DEF NewRow, Subscriptions

\* The first row of the user, on a node whose clean-ups it cancels.
LEMMA CreateStep ==
    ASSUME OrphanInv, Event, ~HasRow, ~hardGone, NEW trial \in BOOLEAN, Create(trial),
           UNCHANGED <<server, epoch, node, calls, task, hardGone>>
    PROVE  OrphanInv'
<1> USE DEF OrphanInv
<1>1. inline = Idle /\ task = Idle
    BY DEF OneRow
<1>2. PICK n \in Nodes :
          /\ sub' = NewRow(n, trial) /\ StartInline(NewRow(n, trial), n)
          /\ orphans' = {o \in orphans : o.node # n}
    BY DEF Create, Allocatable
<1>3. /\ sub' \in Subscriptions /\ sub'.desired = 1 /\ sub'.actual = 0 /\ sub'.origin = n
      /\ sub'.status = "PENDING" /\ ~sub'.hard
    BY <1>2, NewRowIs
<1>4. /\ inline' \in Sessions /\ inline'.copy = sub' /\ inline'.node = n
      /\ inline'.reply = "none" /\ HasRow'
    BY <1>2, <1>3, SessionTypes, WhiteConstants DEF HasRow
<1>5. TypeOK'
    BY <1>1, <1>2, <1>3, <1>4, EventTypes DEF TypeOK
<1>6. OneRow' /\ CopiesBehind' /\ TrialStays' /\ AnswerKept' /\ DisabledIsTrue'
    BY <1>1, <1>3, <1>4
       DEF OneRow, CopiesBehind, TrialStays, AnswerKept, DisabledIsTrue, TaskServes
<1>7. CallsCovered'
    BY <1>1, <1>3, <1>4 DEF CallsCovered, Covered, At, TaskServes
<1>8. NoCredentialOrphaned'
    BY <1>2, <1>3, <1>4 DEF NoCredentialOrphaned, Rows
<1> QED
    BY <1>5, <1>6, <1>7, <1>8

\* An extended row.
LEMMA ExtendedIs ==
    ASSUME NEW s \in Subscriptions, s.left + 1 \in 0..MaxLeft, s.status # "DISABLED"
    PROVE  /\ Extended(s) \in Subscriptions /\ Extended(s).desired = s.desired + 1
           /\ Extended(s).actual = s.actual /\ Extended(s).origin = s.origin
           /\ Extended(s).trial = s.trial /\ Extended(s).hard = s.hard
           /\ Extended(s).status = "ACTIVE" /\ Extended(s).seen = s.seen
<1> DEFINE t == [s EXCEPT !.left = @ + 1, !.desired = @ + 1]
           u == [t EXCEPT !.status = "ACTIVE", !.prov = "PENDING_UPDATE"]
<1>1. /\ t \in Subscriptions /\ t.desired = s.desired + 1 /\ t.actual = s.actual
      /\ t.status = s.status /\ t.trial = s.trial /\ t.hard = s.hard
      /\ t.origin = s.origin /\ t.seen = s.seen
    <2>1. s.desired + 1 \in Nat
        BY RowFields
    <2> QED
        BY <2>1 DEF Subscriptions
<1>2. /\ u \in Subscriptions /\ u.desired = t.desired /\ u.actual = t.actual
      /\ u.status = "ACTIVE" /\ u.trial = t.trial /\ u.hard = t.hard
      /\ u.origin = t.origin /\ u.seen = t.seen
    <2> HIDE DEF t
    <2>1. "ACTIVE" \in Statuses /\ "PENDING_UPDATE" \in Provisioning
        BY DEF Statuses, Provisioning, ProvPending
    <2> QED
        BY <1>1, <2>1 DEF Subscriptions
<1>3. Extended(s) = u \/ (s.status = "ACTIVE" /\ Extended(s) = t)
    BY RowFields DEF Extended, Statuses
<1> HIDE DEF t, u
<1> QED
    BY <1>1, <1>2, <1>3

\* extend_subscription: the row stays where it is.
LEMMA ExtendStep ==
    ASSUME OrphanInv, Event, ExtendSubscription,
           UNCHANGED <<server, epoch, node, orphans, calls, task, hardGone>>
    PROVE  OrphanInv'
<1>1. /\ HasRow /\ ~sub.trial /\ ~sub.hard /\ sub.status # "DISABLED" /\ TypeOK
      /\ sub \in Subscriptions /\ sub.actual <= sub.desired /\ sub' = Extended(sub)
      /\ sub.desired \in Nat /\ sub.actual \in Nat /\ sub.left + 1 \in 0..MaxLeft
    BY TypesAre, RowFields, WhiteConstants DEF OrphanInv, Typed, ExtendSubscription, OneRow
<1>5. /\ sub' \in Subscriptions /\ sub'.desired = sub.desired + 1 /\ sub'.actual = sub.actual
      /\ sub'.status # "DISABLED" /\ ~sub'.trial /\ ~sub'.hard
      /\ sub'.origin = sub.origin /\ HasRow'
    BY <1>1, ExtendedIs, WhiteConstants DEF HasRow
<1>6. inline' = inline \/ (inline' \in Sessions /\ inline'.copy = sub' /\ inline'.node = sub.origin)
    <2>1. sub.origin \in Enabled => sub.origin \in Nodes
        BY DEF Enabled
    <2> QED
        BY <1>1, <1>5, <2>1, SessionTypes DEF ExtendSubscription
<1>7. TypeOK'
    BY <1>1, <1>5, <1>6, EventTypes DEF TypeOK
<1>8. RowMay /\ SessionMay /\ TaskMay /\ DisabledIsTrue'
    BY <1>1, <1>5, <1>6 DEF RowMay, SessionMay, TaskMay, DisabledIsTrue
<1> QED
    BY <1>5, <1>7, <1>8, StayStep

NewVersion(s, status, prov) ==
    [s EXCEPT !.status = status, !.desired = @ + 1, !.prov = prov]

LEMMA NewVersionIs ==
    ASSUME NEW s \in Subscriptions, NEW status \in Statuses, NEW prov \in Provisioning
    PROVE  /\ NewVersion(s, status, prov) \in Subscriptions
           /\ NewVersion(s, status, prov).desired = s.desired + 1
           /\ NewVersion(s, status, prov).actual = s.actual
           /\ NewVersion(s, status, prov).trial = s.trial
           /\ NewVersion(s, status, prov).hard = s.hard
           /\ NewVersion(s, status, prov).origin = s.origin
           /\ NewVersion(s, status, prov).seen = s.seen
           /\ NewVersion(s, status, prov).status = status
<1>1. s.desired + 1 \in Nat
    BY RowFields
<1> QED
    BY <1>1 DEF Subscriptions, NewVersion

\* An operation that asks for a new version and starts nothing: a ban, a refund, a
\* trial reset, the end of the quota or of the period.
LEMMA NewVersionStep ==
    ASSUME OrphanInv, HasRow, NEW status \in Statuses, NEW prov \in Provisioning,
           \/ sub' = NewVersion(sub, status, prov)
           \/ sub.trial /\ sub' = [NewVersion(sub, status, prov) EXCEPT !.hard = TRUE],
           inline' = inline, TaskMay, task' # Idle => task' \in Tasks,
           calls' \subseteq [node : Nodes, ver : Nat], events' \in 0..MaxEvents,
           UNCHANGED <<server, epoch, node, orphans, hardGone>>
    PROVE  OrphanInv'
<1>1. /\ TypeOK /\ sub \in Subscriptions /\ sub.actual <= sub.desired
      /\ sub.desired \in Nat /\ sub.actual \in Nat /\ (sub.hard => sub.trial)
    BY TypesAre, RowFields DEF OrphanInv, Typed, OneRow
<1> DEFINE s == NewVersion(sub, status, prov)
<1>2. /\ s \in Subscriptions /\ s.desired = sub.desired + 1 /\ s.actual = sub.actual
      /\ s.trial = sub.trial /\ s.hard = sub.hard /\ s.origin = sub.origin
    BY <1>1, NewVersionIs
<1> HIDE DEF s
<1>3. /\ sub' \in Subscriptions /\ sub'.desired = sub.desired + 1
      /\ sub'.actual = sub.actual /\ sub'.trial = sub.trial /\ sub'.origin = sub.origin
      /\ (sub'.hard => sub'.trial) /\ HasRow'
    <2>1. CASE sub' = s
        BY <1>1, <1>2, <2>1, WhiteConstants DEF HasRow
    <2>2. CASE sub.trial /\ sub' = [s EXCEPT !.hard = TRUE]
        <3>1. sub' \in Subscriptions
            BY <1>2, <2>2 DEF Subscriptions
        <3> QED
            BY <1>2, <2>2, <3>1, WhiteConstants DEF HasRow, Subscriptions
    <2> QED
        BY <2>1, <2>2 DEF s
<1>4. TypeOK'
    BY <1>1, <1>3 DEF TypeOK
<1>5. RowMay /\ SessionMay /\ DisabledIsTrue'
    BY <1>1, <1>3 DEF RowMay, SessionMay, DisabledIsTrue
<1> QED
    BY <1>3, <1>4, <1>5, StayStep

\* The buttons, a ban or refund, and the traffic worker.
LEMMA OperationsStep == ASSUME OrphanInv, Operations PROVE OrphanInv'
<1>1. CASE ProcessBuy
    <2>1. CASE ~HasRow /\ ~hardGone /\ Create(FALSE) /\ UNCHANGED calls
        <3>1. FALSE \in BOOLEAN
            OBVIOUS
        <3> QED
            BY <1>1, <2>1, <3>1, CreateStep DEF ProcessBuy
    <2> QED
        BY <1>1, <2>1, ConvertStep, RenewStep DEF ProcessBuy, PurchaseSubscription
<1>2. CASE ProcessRenew
    BY <1>2, ConvertStep, RenewStep DEF ProcessRenew
<1>3. CASE TrialActivate
    BY <1>3, CreateStep DEF TrialActivate, CreateTrialSubscription
<1>4. CASE TopupExecute \/ AddDeviceConfirm
    BY <1>4, TopupStep DEF TopupExecute, AddDeviceConfirm, PurchaseDeviceSlot
<1>5. CASE AdminExtend
    BY <1>5, ExtendStep DEF AdminExtend
<1>6. ASSUME HasRow, sub.origin # NoNode, Dispatch(sub.origin, sub.desired + 1)
      PROVE  calls' \subseteq [node : Nodes, ver : Nat]
    <2>1. /\ sub.desired + 1 \in Nat /\ calls \subseteq [node : Nodes, ver : Nat]
          /\ Rows \subseteq Nodes
        BY <1>6, RowFields DEF OrphanInv, TypeOK, HasRow, Rows
    <2> QED
        BY <1>6, <2>1 DEF Dispatch
<1>7. calls \subseteq [node : Nodes, ver : Nat] /\ (task # Idle => task \in Tasks)
    BY DEF OrphanInv, TypeOK
<1>8. /\ \A s \in {"DISABLED", "EXHAUSTED"} : s \in Statuses
      /\ \A p \in {"PENDING_DELETE", "PENDING_UPDATE"} : p \in Provisioning
    BY DEF Statuses, Provisioning, ProvPending
<1>9. CASE DeactivateUserSubscriptions
    <2>1. sub' = NewVersion(sub, "DISABLED", "PENDING_DELETE")
        BY <1>9 DEF DeactivateUserSubscriptions, NewVersion
    <2>2. calls' \subseteq [node : Nodes, ver : Nat] /\ events' \in 0..MaxEvents
        BY <1>6, <1>7, <1>9, EventTypes DEF DeactivateUserSubscriptions, OrphanInv
    <2> QED
        BY <1>7, <1>8, <1>9, <2>1, <2>2, NewVersionStep DEF DeactivateUserSubscriptions, TaskMay
<1>10. CASE AdminResetTrial
    <2>1. sub' = [NewVersion(sub, "DISABLED", "PENDING_DELETE") EXCEPT !.hard = TRUE]
        BY <1>10 DEF AdminResetTrial, ResetUserTrial, NewVersion
    <2>2. calls' \subseteq [node : Nodes, ver : Nat] /\ events' \in 0..MaxEvents
        BY <1>6, <1>7, <1>10, EventTypes DEF AdminResetTrial, ResetUserTrial, OrphanInv
    <2> QED
        BY <1>7, <1>8, <1>10, <2>1, <2>2, NewVersionStep
           DEF AdminResetTrial, ResetUserTrial, TaskMay
<1>11. CASE QuotaExhausted
    <2>1. sub' = NewVersion(sub, "EXHAUSTED", "PENDING_UPDATE")
        BY <1>11 DEF QuotaExhausted, NewVersion
    <2>2. calls' \subseteq [node : Nodes, ver : Nat] /\ events' \in 0..MaxEvents
        BY <1>7, <1>11, EventTypes DEF QuotaExhausted, OrphanInv
    <2> QED
        BY <1>7, <1>8, <1>11, <2>1, <2>2, NewVersionStep DEF QuotaExhausted, TaskMay
<1> QED
    BY <1>1, <1>2, <1>3, <1>4, <1>5, <1>9, <1>10, <1>11 DEF Operations

-----------------------------------------------------------------------------
\* One call of a node by someone who asks for service only if the node is covered
\* and the row not DISABLED since.
Asks(n, v, active) ==
    active => /\ Covered(n, v)
              /\ HasRow => /\ v <= sub.desired
                           /\ sub.status = "DISABLED" => v < sub.desired

LEMMA NodeCallStep ==
    ASSUME OrphanInv, NEW n \in Nodes, NEW v \in Nat, NEW active \in BOOLEAN, NEW e \in Nat,
           Asks(n, v, active),
           NEW a \in NodeAnswers(n, v, active, e) \cup LostAnswers(n, v, active, e),
           node' = [node EXCEPT ![n] = a.after],
           UNCHANGED <<sub, server, orphans, hardGone>>
    PROVE  /\ node' \in NodeStates /\ DisabledIsTrue' /\ NoCredentialOrphaned'
           /\ \A m \in Nodes, w \in Nat :
                  Covered(m, w) => (m \in Rows => At(m) \/ node'[m].ver > w \/ ListedAbove(m, w))
           /\ task' = task => AnswerKept'
<1> USE DEF OrphanInv
<1>1. Typed /\ node \in [Nodes -> [ver : Nat, on : BOOLEAN, gen : Nat]]
    BY TypesAre DEF TypeOK
<1>2. /\ a.after \in [ver : Nat, on : BOOLEAN, gen : Nat]
      /\ a.after.ver >= node[n].ver
      /\ a.after.on /\ ~node[n].on => active /\ node[n].ver <= v
    BY <1>1, AnswersAre
<1>3. node' \in NodeStates
    BY <1>1, <1>2 DEF NodeStates
<1>4. /\ \A m \in Nodes : node[m].ver \in Nat /\ node'[m].ver \in Nat
      /\ \A m \in Nodes : node'[m].ver >= node[m].ver
      /\ \A m \in Nodes : node'[m].on /\ ~node[m].on => m = n /\ active /\ node[m].ver <= v
    BY <1>1, <1>2, <1>3, NodeFields DEF NodeStates
<1>5. DisabledIsTrue'
    <2> SUFFICES ASSUME HasRow, sub.trial, sub.status = "DISABLED", sub.origin # NoNode,
                        sub.actual = sub.desired
                 PROVE  /\ node'[sub.origin].ver >= sub.desired
                        /\ sub.prov = "SYNCED_INACTIVE" => ~node'[sub.origin].on
        BY DEF DisabledIsTrue, HasRow
    <2>1. sub.origin \in Nodes /\ sub.desired \in Nat
        BY <1>1, RowFields DEF Typed
    <2>2. node[sub.origin].ver >= sub.desired
        BY DEF DisabledIsTrue
    <2>3. sub.prov = "SYNCED_INACTIVE" => ~node[sub.origin].on
        BY DEF DisabledIsTrue
    <2>4. active /\ n = sub.origin => ~(node[n].ver <= v)
        BY <1>4, <2>1, <2>2 DEF Asks
    <2> QED
        BY <1>4, <2>1, <2>2, <2>3, <2>4
<1>6. NoCredentialOrphaned'
    <2> SUFFICES ASSUME NEW m \in Rows, node'[m].on, ~At(m)
                 PROVE  \E o \in orphans : o.node = m
        BY DEF NoCredentialOrphaned, Rows, HasRow, At
    <2>1. m \in Nodes
        BY DEF Rows
    <2>2. CASE node[m].on
        BY <2>2 DEF NoCredentialOrphaned, At
    <2>3. CASE ~node[m].on
        BY <1>4, <2>1, <2>3 DEF Asks, Covered, ListedAbove
    <2> QED
        BY <2>2, <2>3
<1>7. \A m \in Nodes, w \in Nat :
          Covered(m, w) => (m \in Rows => At(m) \/ node'[m].ver > w \/ ListedAbove(m, w))
    BY <1>4 DEF Covered
<1>8. task' = task => AnswerKept'
    <2> SUFFICES ASSUME task' = task, task # Idle, task.phase = "called" PROVE AnswerKept'
        BY DEF AnswerKept
    <2>1. task.node \in Nodes /\ task.copy.desired \in Nat
        BY <1>1, TaskFields DEF Typed
    <2>2. task.reply \in {"applied", "already_newer"} => node'[task.node].ver >= task.copy.desired
        BY <1>4, <2>1 DEF AnswerKept
    <2>3. ASSUME task.reply = "applied", ~ShouldServe(task.copy), HasRow, sub.trial,
                 sub.status = "DISABLED", sub.origin = task.node, sub.desired = task.copy.desired
          PROVE  ~node'[task.node].on
        <3>1. ~node[task.node].on /\ node[task.node].ver >= sub.desired
            BY <2>3 DEF AnswerKept
        <3>2. active /\ n = task.node => ~(node[n].ver <= v)
            BY <1>4, <2>1, <2>3, <3>1 DEF Asks
        <3> QED
            BY <1>4, <2>1, <3>1, <3>2
    <2> QED
        BY <2>2, <2>3 DEF AnswerKept, HasRow
<1> QED
    BY <1>3, <1>5, <1>6, <1>7, <1>8

\* The call of _try_inline_sync.
LEMMA InlineCallStep == ASSUME OrphanInv, InlineCall PROVE OrphanInv'
<1> USE DEF OrphanInv
<1> DEFINE n == inline.node
           v == inline.copy.desired
<1>1. Typed /\ inline # Idle /\ inline.reply = "none"
    BY TypesAre DEF InlineCall
<1>2. n \in Nodes /\ v \in Nat /\ inline.expected \in Nat /\ inline \in Sessions
    BY <1>1, SessionFields DEF Typed
<1>3. Covered(n, v) /\ (HasRow => v <= sub.desired /\ (sub.status = "DISABLED" => v < sub.desired))
    BY <1>1 DEF CallsCovered, CopiesBehind
<1>4. Asks(n, v, TRUE)
    BY <1>3 DEF Asks
<1>5. PICK a \in NodeAnswers(n, v, TRUE, inline.expected)
                 \cup LostAnswers(n, v, TRUE, inline.expected) :
          node' = [node EXCEPT ![n] = a.after]
    BY DEF InlineCall
<1>6. /\ \E r \in {"confirmed", "unconfirmed"} : inline' = [inline EXCEPT !.reply = r]
      /\ UNCHANGED <<sub, server, epoch, orphans, calls, task, hardGone>>
      /\ events' \in 0..MaxEvents
    BY EventTypes DEF InlineCall, TypeOK
<1>7. /\ inline' \in Sessions /\ inline'.copy = inline.copy /\ inline'.reply # "none"
    BY <1>2, <1>6 DEF Sessions
<1>8. /\ node' \in NodeStates /\ DisabledIsTrue' /\ NoCredentialOrphaned' /\ AnswerKept'
      /\ \A m \in Nodes, w \in Nat :
             Covered(m, w) => (m \in Rows => At(m) \/ node'[m].ver > w \/ ListedAbove(m, w))
    <2> HIDE DEF n, v
    <2>1. TRUE \in BOOLEAN
        OBVIOUS
    <2> QED
        BY <1>2, <1>4, <1>5, <1>6, <2>1, NodeCallStep, Zenon
<1>9. TypeOK'
    BY <1>6, <1>7, <1>8 DEF TypeOK, NodeStates
<1>10. OneRow' /\ CopiesBehind' /\ TrialStays'
    BY <1>1, <1>6, <1>7 DEF OneRow, CopiesBehind, TrialStays, TaskServes, HasRow
<1>11. CallsCovered'
    <2> SUFFICES ASSUME task # Idle, ShouldServe(task.copy), task.phase # "called"
                 PROVE  Covered(task.node, task.copy.desired)'
        BY <1>6, <1>7 DEF CallsCovered, TaskServes
    <2>1. task.node \in Nodes /\ task.copy.desired \in Nat
        BY <1>1, TaskFields DEF Typed
    <2>2. Covered(task.node, task.copy.desired)
        BY DEF CallsCovered, TaskServes
    <2> QED
        BY <1>6, <1>8, <2>1, <2>2 DEF Covered, At, HasRow, Rows, ListedAbove
<1> QED
    BY <1>8, <1>9, <1>10, <1>11

\* What it writes.
LEMMA InlineWritesIs ==
    ASSUME NEW s \in Subscriptions, NEW c, c.desired \in Nat, NEW n \in Nodes,
           inline.expected \in Nat
    PROVE  /\ InlineWrites(s, c, n) \in Subscriptions
           /\ InlineWrites(s, c, n).actual = c.desired
           /\ InlineWrites(s, c, n).seen = Generation(n, inline.expected)
           /\ c.status = "ACTIVE" => InlineWrites(s, c, n).status = s.status
           /\ c.status # "ACTIVE" => InlineWrites(s, c, n).status = "ACTIVE"
           /\ InlineWrites(s, c, n).desired = s.desired
           /\ InlineWrites(s, c, n).origin = s.origin
           /\ InlineWrites(s, c, n).hard = s.hard /\ InlineWrites(s, c, n).trial = s.trial
           /\ InlineWrites(s, c, n).left = s.left
<1>1. /\ Generation(n, inline.expected) \in (Nodes \cup {NoNode}) \X Nat
      /\ "ACTIVE" \in Statuses /\ "ACTIVE" \in Provisioning
    BY DEF Generation, Statuses, Provisioning
<1> QED
    BY <1>1 DEF InlineWrites, Subscriptions

\* The write after it: a disabled row stays behind what it asks for.
LEMMA InlineRecordStep == ASSUME OrphanInv, InlineRecord PROVE OrphanInv'
<1> USE DEF OrphanInv
<1>1. /\ Typed /\ inline # Idle /\ inline' = Idle
      /\ UNCHANGED <<server, epoch, node, orphans, calls, task, hardGone, events>>
    BY TypesAre DEF InlineRecord
<1>2. CASE sub' = sub
    <2>1. TypeOK'
        BY <1>1, <1>2 DEF TypeOK
    <2> QED
        BY <1>1, <1>2, <2>1
           DEF OneRow, CopiesBehind, TrialStays, AnswerKept, DisabledIsTrue, CallsCovered,
               Covered, At, Rows, HasRow, ListedAbove, TaskServes, NoCredentialOrphaned
<1>3. CASE HasRow /\ sub' = InlineWrites(sub, inline.copy, inline.node)
    <2>1. /\ inline.copy.desired \in Nat /\ inline.expected \in Nat /\ inline.node \in Nodes
          /\ sub \in Subscriptions /\ sub.desired \in Nat /\ inline.copy.desired <= sub.desired
        BY <1>1, <1>3, SessionFields, RowFields DEF Typed, CopiesBehind
    <2>2. /\ sub' \in Subscriptions
          /\ sub'.desired = sub.desired /\ sub'.actual = inline.copy.desired
          /\ sub'.origin = sub.origin /\ sub'.hard = sub.hard /\ sub'.trial = sub.trial
          /\ sub'.status \in {sub.status, "ACTIVE"}
        BY <1>3, <2>1, InlineWritesIs
    <2>3. HasRow'
        BY <2>2, WhiteConstants DEF HasRow
    <2>4. TypeOK'
        BY <1>1, <2>1, <2>2, <2>3 DEF TypeOK
    <2>5. RowMay /\ SessionMay /\ TaskMay
        BY <1>1, <1>3, <2>1, <2>2, <2>3 DEF RowMay, SessionMay, TaskMay, OneRow
    <2>6. DisabledIsTrue'
        BY <1>1, <1>3, <2>1, <2>2, <2>3 DEF DisabledIsTrue, CopiesBehind
    <2> QED
        BY <1>1, <2>2, <2>4, <2>5, <2>6, StayStep
<1> QED
    BY <1>2, <1>3 DEF InlineRecord

\* A dispatch: the client is switched off, or nothing happens.
LEMMA DispatchStep == ASSUME OrphanInv, NEW c \in calls, DispatchRuns(c) PROVE OrphanInv'
<1>1. /\ TypeOK /\ c.node \in Nodes /\ c.ver \in Nat /\ node \in NodeStates
      /\ calls' \subseteq [node : Nodes, ver : Nat]
      /\ UNCHANGED <<sub, server, epoch, orphans, inline, task, hardGone, events>>
    BY DEF OrphanInv, TypeOK, DispatchRuns, NodeStates
<1>2. Quieter
    <2>1. CASE node' = node
        BY <1>1, <2>1, NodeFields DEF Quieter
    <2>2. ASSUME NEW a \in NodeAnswers(c.node, c.ver, FALSE, 0),
                 node' = [node EXCEPT ![c.node] = a.after]
          PROVE  Quieter
        <3>1. FALSE \in BOOLEAN /\ 0 \in Nat
            OBVIOUS
        <3>2. /\ a.after \in [ver : Nat, on : BOOLEAN, gen : Nat]
              /\ a.after.ver >= node[c.node].ver
              /\ ~(a.after.on /\ ~node[c.node].on)
            BY <1>1, <3>1, AnswersAre, Zenon DEF NodeStates
        <3> QED
            BY <1>1, <2>2, <3>2, NodeFields DEF Quieter, NodeStates
    <2> QED
        BY <2>1, <2>2 DEF DispatchRuns
<1>3. TypeOK' /\ Rows' = Rows
    BY <1>1, <1>2 DEF TypeOK, Quieter, NodeStates, Rows
<1> QED
    BY <1>1, <1>2, <1>3, QuietStep

-----------------------------------------------------------------------------
\* A node that loses its clients keeps its versions.
LEMMA LosesClients ==
    ASSUME node \in NodeStates, NEW n \in Nodes, NEW r \in [ver : Nat, on : BOOLEAN, gen : Nat],
           r.ver = node[n].ver, ~r.on, node' = [node EXCEPT ![n] = r]
    PROVE  Quieter
<1>1. node' \in NodeStates
    BY DEF NodeStates
<1>2. ASSUME NEW m \in Nodes PROVE node'[m].ver >= node[m].ver /\ (node'[m].on => node[m].on)
    <2>1. node[m].ver \in Nat
        BY NodeFields
    <2> QED
        BY <2>1 DEF NodeStates
<1> QED
    BY <1>1, <1>2 DEF Quieter

\* A deleted server takes its clean-ups with it, and every call to it with them.
LEMMA ServerDeletedStep == ASSUME OrphanInv, NEW n \in Nodes, ServerDeleted(n) PROVE OrphanInv'
<1>1. /\ TypeOK /\ Typed /\ n \in Rows /\ events' \in 0..MaxEvents
      /\ UNCHANGED <<epoch, calls, inline, task, hardGone>>
    BY TypesAre, EventTypes DEF OrphanInv, ServerDeleted
<1>2. Rows' = Rows \ {n} /\ server' \in [Nodes -> ServerStates \cup {"gone"}]
    BY <1>1 DEF ServerDeleted, Rows, TypeOK
<1>3. Quieter
    <2> DEFINE r == [node[n] EXCEPT !.on = FALSE]
    <2>1. r \in [ver : Nat, on : BOOLEAN, gen : Nat] /\ r.ver = node[n].ver /\ ~r.on
        BY <1>1 DEF Typed, NodeStates
    <2>2. node' = [node EXCEPT ![n] = r]
        BY DEF ServerDeleted
    <2> QED
        BY <1>1, <2>1, <2>2, LosesClients DEF Typed
<1> DEFINE SameBut ==
          /\ sub \in Subscriptions /\ sub' \in Subscriptions /\ HasRow'
          /\ sub'.origin = (IF sub.origin = n THEN NoNode ELSE sub.origin)
          /\ sub'.desired = sub.desired /\ sub'.actual = sub.actual /\ sub'.hard = sub.hard
          /\ sub'.trial = sub.trial /\ sub'.status = sub.status /\ sub'.prov = sub.prov
<1>4. HasRow => SameBut
    <2> SUFFICES ASSUME HasRow PROVE SameBut
        OBVIOUS
    <2>1. sub \in Subscriptions
        BY <1>1 DEF Typed
    <2>2. CASE sub.origin = n
        <3>1. sub' = [sub EXCEPT !.origin = NoNode]
            BY <2>2 DEF ServerDeleted
        <3>2. sub' \in Subscriptions
            BY <2>1, <3>1 DEF Subscriptions
        <3> QED
            BY <2>1, <2>2, <3>1, <3>2, WhiteConstants DEF HasRow, Subscriptions
    <2>3. CASE sub.origin # n
        BY <2>1, <2>3 DEF ServerDeleted, HasRow
    <2> QED
        BY <2>2, <2>3
<1>5. ~HasRow => sub' = sub
    BY DEF ServerDeleted
<1>6. TypeOK'
    BY <1>1, <1>2, <1>3, <1>4, <1>5 DEF TypeOK, Quieter, NodeStates, ServerDeleted, HasRow
<1>7. OneRow' /\ CopiesBehind' /\ TrialStays' /\ AnswerKept' /\ DisabledIsTrue'
    <2>1. CASE HasRow
        <3>1. sub.desired \in Nat /\ sub.origin \in Nodes \cup {NoNode}
            BY <1>4, <2>1, RowFields
        <3>2. RowMay /\ SessionMay /\ TaskMay
            BY <1>1, <1>4, <2>1, <3>1 DEF RowMay, SessionMay, TaskMay, OrphanInv, OneRow
        <3>3. OneRow' /\ CopiesBehind' /\ TrialStays' /\ AnswerKept'
            BY <1>1, <1>3, <1>6, <3>2, RowStep
        <3>4. \A m \in Nodes : node[m].ver \in Nat /\ node'[m].ver \in Nat
            BY <1>1, <1>3, NodeFields DEF Typed, Quieter
        <3>5. DisabledIsTrue'
            <4> SUFFICES ASSUME sub.trial, sub.status = "DISABLED", sub.origin # NoNode,
                                sub.actual = sub.desired
                         PROVE  /\ node'[sub.origin].ver >= sub.desired
                                /\ sub.prov = "SYNCED_INACTIVE" => ~node'[sub.origin].on
                BY <1>4, <2>1 DEF DisabledIsTrue
            <4> QED
                BY <1>3, <2>1, <3>1, <3>4 DEF OrphanInv, DisabledIsTrue, Quieter
        <3> QED
            BY <3>3, <3>5
    <2>2. CASE ~HasRow
        BY <1>1, <1>3, <1>5, <1>6, <2>2, SameRowStep
    <2> QED
        BY <2>1, <2>2
<1>8. CallsCovered'
    <2>1. ASSUME NEW m \in Nodes, NEW v \in Nat, Covered(m, v) PROVE Covered(m, v)'
        <3> SUFFICES ASSUME m \in Rows, m # n PROVE (At(m) \/ node[m].ver > v \/ ListedAbove(m, v))'
            BY <1>2 DEF Covered
        <3>1. At(m) => At(m)'
            BY <1>4 DEF At
        <3>2. ListedAbove(m, v) => ListedAbove(m, v)'
            BY DEF ListedAbove, ServerDeleted
        <3>3. node'[m] = node[m]
            BY <1>1 DEF ServerDeleted, Typed, NodeStates
        <3> QED
            BY <2>1, <3>1, <3>2, <3>3 DEF Covered
    <2>2. inline # Idle => inline.node \in Nodes /\ inline.copy.desired \in Nat
        BY <1>1, SessionFields DEF Typed
    <2>3. task # Idle => task.node \in Nodes /\ task.copy.desired \in Nat
        BY <1>1, TaskFields DEF Typed
    <2> QED
        BY <1>1, <2>1, <2>2, <2>3 DEF OrphanInv, CallsCovered, TaskServes
<1>9. NoCredentialOrphaned'
    <2> SUFFICES ASSUME NEW m \in Rows, m # n, node'[m].on, ~At(m)'
                 PROVE  \E o \in orphans' : o.node = m
        BY <1>2 DEF NoCredentialOrphaned, At
    <2>1. node[m].on
        BY <1>3 DEF Quieter, Rows
    <2>2. ~At(m)
        BY <1>4 DEF At
    <2>3. PICK o \in orphans : o.node = m
        BY <2>1, <2>2 DEF OrphanInv, NoCredentialOrphaned, At
    <2> QED
        BY <2>3 DEF ServerDeleted
<1> QED
    BY <1>6, <1>7, <1>8, <1>9 DEF OrphanInv

\* Restarts, health, time, crashes, deletions of servers.
LEMMA EnvironmentStep == ASSUME OrphanInv, Environment PROVE OrphanInv'
<1>1. TypeOK /\ Typed
    BY TypesAre DEF OrphanInv
<1>2. ASSUME NEW n \in Nodes, NodeRestarts(n) PROVE OrphanInv'
    <2>1. Quieter
        <3> DEFINE r == [node[n] EXCEPT !.gen = @ + 1, !.on = FALSE]
        <3>1. node[n] \in [ver : Nat, on : BOOLEAN, gen : Nat] /\ node[n].gen + 1 \in Nat
            BY <1>1 DEF Typed, NodeStates
        <3>2. r \in [ver : Nat, on : BOOLEAN, gen : Nat] /\ r.ver = node[n].ver /\ ~r.on
            BY <3>1
        <3>3. node' = [node EXCEPT ![n] = r]
            BY <1>1, <1>2, <3>1 DEF NodeRestarts, Typed, NodeStates
        <3> HIDE DEF r
        <3> QED
            BY <1>1, <3>2, <3>3, LosesClients DEF Typed
    <2>2. TypeOK' /\ Rows' = Rows
        BY <1>1, <1>2, <2>1, EventTypes DEF NodeRestarts, TypeOK, Quieter, NodeStates, Rows
    <2> QED
        BY <1>2, <2>1, <2>2, QuietStep DEF NodeRestarts
<1>3. ASSUME NEW n \in Nodes, HealthChanges(n) PROVE OrphanInv'
    <2>1. PICK h \in ServerStates : server' = [server EXCEPT ![n] = h]
        BY <1>3 DEF HealthChanges
    <2>2. Rows' = Rows
        BY <1>1, <1>3, <2>1 DEF HealthChanges, Rows, ServerStates, TypeOK
    <2>3. TypeOK' /\ Quieter
        BY <1>1, <1>3, <2>1, EventTypes, QuietIfSame DEF HealthChanges, TypeOK
    <2> QED
        BY <1>3, <2>2, <2>3, QuietStep DEF HealthChanges
<1>4. CASE TimePasses
    <2>1. sub \in Subscriptions /\ sub.left - 1 \in 0..MaxLeft /\ sub.desired \in Nat
        BY <1>1, <1>4, RowFields, WhiteConstants DEF TimePasses, Typed
    <2>2. sub' \in Subscriptions
        BY <1>4, <2>1 DEF TimePasses, Subscriptions
    <2>3. /\ sub'.desired = sub.desired /\ sub'.actual = sub.actual /\ sub'.hard = sub.hard
          /\ sub'.origin = sub.origin /\ sub'.trial = sub.trial /\ sub'.status = sub.status
          /\ sub'.prov = sub.prov /\ HasRow /\ HasRow'
        BY <1>4, <2>1, <2>2, WhiteConstants DEF TimePasses, Subscriptions, HasRow
    <2>4. TypeOK'
        BY <1>1, <1>4, <2>2, <2>3 DEF TypeOK, TimePasses, HasRow
    <2>5. RowMay /\ SessionMay /\ TaskMay
        BY <1>4, <2>1, <2>3 DEF TimePasses, RowMay, SessionMay, TaskMay, OrphanInv, OneRow
    <2>6. DisabledIsTrue'
        BY <1>4, <2>3 DEF OrphanInv, DisabledIsTrue, TimePasses
    <2> QED
        BY <1>4, <2>3, <2>4, <2>5, <2>6, StayStep DEF TimePasses
<1>5. CASE Crash
    <2>1. TypeOK' /\ Rows' = Rows /\ Quieter
        BY <1>1, <1>5, EventTypes, QuietIfSame DEF Crash, TypeOK, Rows
    <2> QED
        BY <1>5, <2>1, QuietStep DEF Crash
<1> QED
    BY <1>2, <1>3, <1>4, <1>5, ServerDeletedStep DEF Environment
-----------------------------------------------------------------------------
\* The worker reads the row of a node that is its origin, or only the epoch.
LEMMA ReadStep ==
    ASSUME OrphanInv, NEW n \in Nodes, ReadBatch(n) \/ RefreshEpoch(n)
    PROVE  OrphanInv'
<1> USE DEF OrphanInv
<1>1. /\ Typed /\ node[n].gen \in Nat /\ task = Idle
      /\ UNCHANGED <<sub, server, node, orphans, calls, inline, hardGone, events>>
    BY TypesAre, NodeFields DEF Typed, ReadBatch, RefreshEpoch
<1>2. epoch' \in [Nodes -> Nat]
    BY <1>1 DEF TypeOK, ReadBatch, RefreshEpoch
<1>3. CASE task' = task
    <2>1. TypeOK' /\ Quieter /\ Rows' = Rows
        BY <1>1, <1>2, <1>3, QuietIfSame DEF TypeOK, Rows
    <2> QED
        BY <1>1, <1>3, <2>1, QuietStep
<1>4. CASE /\ HasRow /\ sub.origin = n
           /\ task' = [phase |-> "read", node |-> n, copy |-> sub,
                       expected |-> node[n].gen, reply |-> "none"]
    <2>1. sub \in Subscriptions /\ sub.desired \in Nat
        BY <1>1, <1>4, RowFields DEF Typed
    <2>2. /\ task' \in Tasks /\ task'.node = n /\ task'.copy = sub /\ task'.phase = "read"
        BY <1>1, <1>4, <2>1 DEF Tasks
    <2>3. TypeOK'
        BY <1>1, <1>2, <2>2 DEF TypeOK
    <2>4. OneRow' /\ TrialStays' /\ AnswerKept' /\ DisabledIsTrue' /\ NoCredentialOrphaned'
        BY <1>1, <1>4, <2>2
           DEF OneRow, TrialStays, AnswerKept, DisabledIsTrue, NoCredentialOrphaned,
               HasRow, Rows
    <2>5. CopiesBehind'
        BY <1>1, <1>4, <2>1, <2>2 DEF CopiesBehind, TaskServes, ShouldServe, HasRow
    <2>6. CallsCovered'
        BY <1>1, <1>4, <2>2 DEF CallsCovered, Covered, At, TaskServes, HasRow, Rows, ListedAbove
    <2> QED
        BY <2>3, <2>4, <2>5, <2>6
<1> QED
    BY <1>1, <1>3, <1>4 DEF ReadBatch, RefreshEpoch, NeedsSync

\* The plan of a row that is left as it is.
LEMMA PlanSame ==
    ASSUME OrphanInv, HasRow, task # Idle, task.phase = "read", NEW s \in Subscriptions,
           s.desired <= sub.desired, ShouldServe(s) => s = task.copy,
           task' = [task EXCEPT !.phase = "planned", !.copy = s],
           UNCHANGED <<sub, server, epoch, node, orphans, calls, inline, hardGone, events>>
    PROVE  OrphanInv'
<1>1. /\ TypeOK /\ task \in Tasks /\ sub \in Subscriptions /\ sub.desired \in Nat
    BY TypesAre, RowFields DEF OrphanInv, Typed
<1>2. /\ task' \in Tasks /\ task'.phase = "planned" /\ task'.copy = s
      /\ task'.node = task.node
    BY <1>1 DEF Tasks
<1>3. TypeOK' /\ TaskMay
    BY <1>1, <1>2 DEF TypeOK, TaskMay
<1>4. RowMay /\ SessionMay /\ DisabledIsTrue'
    BY <1>1 DEF RowMay, SessionMay, DisabledIsTrue, OrphanInv, OneRow, HasRow
<1> QED
    BY <1>3, <1>4, StayStep

LEMMA PlanStep == ASSUME OrphanInv, PlanTask PROVE OrphanInv'
<1>1. /\ TypeOK /\ Typed /\ task # Idle /\ task.phase = "read" /\ task \in Tasks
      /\ UNCHANGED <<server, epoch, node, orphans, calls, inline, hardGone, events>>
    BY TypesAre DEF OrphanInv, Typed, PlanTask
<1>2. CASE ~HasRow
    <2>1. TypeOK' /\ Quieter /\ Rows' = Rows /\ task' = Idle /\ sub' = sub
        BY <1>1, <1>2, QuietIfSame DEF PlanTask, TypeOK, Rows
    <2> QED
        BY <1>1, <2>1, QuietStep
<1>3. CASE HasRow /\ task.copy.left = 0 /\ task.copy.status \in Live
    <2>1. /\ sub' = Expired(sub) /\ task' = [task EXCEPT !.phase = "planned", !.copy = sub']
          /\ sub \in Subscriptions /\ sub.desired \in Nat
        BY <1>1, <1>3, RowFields DEF PlanTask, Typed
    <2>2. CASE sub.status \notin Live
        <3>1. sub' = sub /\ ~ShouldServe(sub) /\ sub.desired <= sub.desired
            BY <2>1, <2>2 DEF Expired, ShouldServe, Live
        <3> QED
            BY <1>1, <1>3, <2>1, <3>1, PlanSame
    <2>3. CASE sub.status \in Live
        <3>1. /\ sub' = NewVersion(sub, "EXPIRED", "PENDING_DELETE")
              /\ "EXPIRED" \in Statuses /\ "PENDING_DELETE" \in Provisioning
            BY <2>1, <2>3 DEF Expired, NewVersion, Statuses, Provisioning, ProvPending
        <3>2. sub.desired + 1 \in Nat
            BY <2>1
        <3>3. sub' \in Subscriptions /\ sub'.status = "EXPIRED" /\ sub'.desired \in Nat
            BY <2>1, <3>1, <3>2 DEF NewVersion, Subscriptions
        <3>4. /\ task' \in Tasks /\ task'.phase = "planned" /\ task'.copy = sub'
              /\ task'.node = task.node
            BY <1>1, <2>1, <3>3 DEF Tasks
        <3>5. TaskMay
            BY <1>1, <3>3, <3>4 DEF TaskMay, ShouldServe
        <3>6. calls' \subseteq [node : Nodes, ver : Nat] /\ events' \in 0..MaxEvents
            BY <1>1 DEF TypeOK
        <3> QED
            BY <1>1, <1>3, <3>1, <3>4, <3>5, <3>6, NewVersionStep
    <2> QED
        BY <2>2, <2>3
<1>4. CASE HasRow /\ ~(task.copy.left = 0 /\ task.copy.status \in Live)
    <2>1. /\ sub' = sub /\ task' = [task EXCEPT !.phase = "planned", !.copy = task.copy]
          /\ task.copy \in Subscriptions /\ task.copy.desired <= sub.desired
        BY <1>1, <1>4, TaskFields DEF PlanTask, OrphanInv, CopiesBehind
    <2> QED
        BY <1>1, <1>4, <2>1, PlanSame
<1> QED
    BY <1>2, <1>3, <1>4

\* The call of the worker: what it is told is true of the node.
LEMMA CallNodeStep == ASSUME OrphanInv, CallNode PROVE OrphanInv'
<1> USE DEF OrphanInv
<1> DEFINE n == task.node
           v == task.copy.desired
           want == ShouldServe(task.copy)
<1>1. Typed /\ task # Idle /\ task.phase = "planned" /\ task \in Tasks
    BY TypesAre DEF CallNode, Typed
<1>2. n \in Nodes /\ v \in Nat /\ task.expected \in Nat
    BY <1>1, TaskFields
<1>3. want \in BOOLEAN
    BY DEF ShouldServe
<1>4. Asks(n, v, want)
    BY <1>1 DEF Asks, CallsCovered, CopiesBehind, TaskServes
<1>5. PICK a \in NodeAnswers(n, v, want, task.expected)
                 \cup LostAnswers(n, v, want, task.expected),
           r \in {"applied", "already_newer", "fenced", "failed"} :
          /\ node' = [node EXCEPT ![n] = a.after] /\ r \in {a.reply, "failed"}
          /\ task' = [task EXCEPT !.phase = "called", !.reply = r]
    <2>1. \A a \in NodeAnswers(n, v, want, task.expected) :
              a.reply \in {"applied", "already_newer", "fenced", "failed"}
        BY DEF NodeAnswers
    <2> HIDE DEF n, v, want
    <2> QED
        BY <2>1 DEF CallNode, n, v, want
<1>6. /\ UNCHANGED <<sub, server, epoch, orphans, calls, inline, hardGone>>
      /\ events' \in 0..MaxEvents
    BY EventTypes DEF CallNode, TypeOK
<1>7. /\ task' \in Tasks /\ task'.copy = task.copy /\ task'.node = n
      /\ task'.phase = "called" /\ task'.reply = r
    BY <1>1, <1>5 DEF Tasks
<1> HIDE DEF want
<1>8. /\ node' \in NodeStates /\ DisabledIsTrue' /\ NoCredentialOrphaned'
      /\ \A m \in Nodes, w \in Nat :
             Covered(m, w) => (m \in Rows => At(m) \/ node'[m].ver > w \/ ListedAbove(m, w))
    <2> HIDE DEF n, v
    <2> QED
        BY <1>2, <1>3, <1>4, <1>5, <1>6, NodeCallStep, Zenon
<1>9. /\ a.after \in [ver : Nat, on : BOOLEAN, gen : Nat]
      /\ a.reply \in {"applied", "already_newer"} => a.after.ver >= v
      /\ a.reply = "applied" => a.after.on = want
    <2>1. node \in [Nodes -> [ver : Nat, on : BOOLEAN, gen : Nat]]
        BY DEF TypeOK
    <2> HIDE DEF n, v
    <2> QED
        BY <1>2, <1>3, <2>1, AnswersAre, Zenon
<1>10. node'[n] = a.after
    BY <1>1, <1>2, <1>5 DEF Typed, NodeStates
<1>11. AnswerKept'
    <2>1. r \in {"applied", "already_newer"} => node'[n].ver >= v
        BY <1>5, <1>9, <1>10
    <2>2. r = "applied" /\ ~ShouldServe(task.copy) => ~node'[n].on
        BY <1>5, <1>9, <1>10 DEF want
    <2> QED
        BY <1>7, <2>1, <2>2 DEF AnswerKept
<1>12. TypeOK'
    BY <1>6, <1>7, <1>8 DEF TypeOK, NodeStates
<1>13. OneRow' /\ CopiesBehind' /\ TrialStays'
    BY <1>1, <1>6, <1>7 DEF OneRow, CopiesBehind, TrialStays, TaskServes, HasRow
<1>14. CallsCovered'
    <2> SUFFICES ASSUME inline # Idle, inline.reply = "none"
                 PROVE  Covered(inline.node, inline.copy.desired)'
        BY <1>6, <1>7 DEF CallsCovered, TaskServes
    <2>1. inline.node \in Nodes /\ inline.copy.desired \in Nat
        BY <1>1, SessionFields DEF Typed
    <2>2. Covered(inline.node, inline.copy.desired)
        BY DEF CallsCovered
    <2> QED
        BY <1>6, <1>8, <2>1, <2>2 DEF Covered, At, HasRow, Rows, ListedAbove
<1> QED
    BY <1>8, <1>11, <1>12, <1>13, <1>14

\* What a confirmation writes.
LEMMA ConfirmedIs ==
    ASSUME NEW s \in Subscriptions, NEW v \in Nat, NEW want \in BOOLEAN, task \in Tasks
    PROVE  /\ Confirmed(s, v, want) \in Subscriptions
           /\ Confirmed(s, v, want).actual = v /\ Confirmed(s, v, want).desired = s.desired
           /\ Confirmed(s, v, want).origin = s.origin /\ Confirmed(s, v, want).hard = s.hard
           /\ Confirmed(s, v, want).trial = s.trial
           /\ Confirmed(s, v, want).status = "DISABLED" => s.status = "DISABLED"
           /\ \/ Confirmed(s, v, want).status = s.status
              \/ s.status = "PENDING" /\ Confirmed(s, v, want).status = "ACTIVE"
           /\ Confirmed(s, v, want).seen = Generation(task.node, task.expected)
           /\ Confirmed(s, v, want).left = s.left
           /\ Confirmed(s, v, want).prov = "SYNCED_INACTIVE" => ~want
<1> DEFINE status == IF s.status = "PENDING" /\ want THEN "ACTIVE" ELSE s.status
           prov == IF want THEN "ACTIVE" ELSE "SYNCED_INACTIVE"
           seen == Generation(task.node, task.expected)
           t == [s EXCEPT !.actual = v, !.seen = seen, !.status = status, !.prov = prov]
<1>1. /\ status \in Statuses /\ (status = "DISABLED" => s.status = "DISABLED")
      /\ status = s.status \/ (s.status = "PENDING" /\ status = "ACTIVE")
      /\ prov \in Provisioning /\ (prov = "SYNCED_INACTIVE" => ~want)
    BY RowFields DEF Statuses, Provisioning
<1>2. seen \in (Nodes \cup {NoNode}) \X Nat /\ seen = Generation(task.node, task.expected)
    BY TaskFields DEF Generation
<1>3. Confirmed(s, v, want) = t
    BY DEF Confirmed, Subscriptions
<1> HIDE DEF status, prov, seen
<1>4. /\ t \in Subscriptions /\ t.actual = v /\ t.desired = s.desired /\ t.origin = s.origin
      /\ t.hard = s.hard /\ t.trial = s.trial /\ t.status = status /\ t.prov = prov
      /\ t.seen = seen /\ t.left = s.left
    BY <1>1, <1>2 DEF Subscriptions
<1> HIDE DEF t
<1> QED
    BY <1>1, <1>2, <1>3, <1>4

\* A row that is to be called again: the version may have been raised above both.
LEMMA BumpedIs ==
    ASSUME NEW s \in Subscriptions, NEW v \in Nat
    PROVE  /\ Bumped(s, v) \in Subscriptions /\ Bumped(s, v).desired > s.desired
           /\ Bumped(s, v).actual = s.actual /\ Bumped(s, v).origin = s.origin
           /\ Bumped(s, v).hard = s.hard /\ Bumped(s, v).trial = s.trial
           /\ Bumped(s, v).status = s.status /\ Bumped(s, v).seen = s.seen
<1> DEFINE d == (IF s.desired > v THEN s.desired ELSE v) + 1
           t == [s EXCEPT !.desired = d, !.prov = "PENDING_UPDATE"]
<1>1. d \in Nat /\ d > s.desired
    BY RowFields
<1>2. Bumped(s, v) = t
    BY DEF Bumped
<1>3. "PENDING_UPDATE" \in Provisioning
    BY DEF Provisioning, ProvPending
<1> HIDE DEF d
<1>4. /\ t \in Subscriptions /\ t.actual = s.actual /\ t.desired = d /\ t.origin = s.origin
      /\ t.hard = s.hard /\ t.trial = s.trial /\ t.status = s.status /\ t.seen = s.seen
    BY <1>1, <1>3 DEF Subscriptions
<1> HIDE DEF t
<1> QED
    BY <1>1, <1>2, <1>4

\* The record of the answer, on the row as it is now.
LEMMA RecordStep == ASSUME OrphanInv, RecordResult PROVE OrphanInv'
<1> USE DEF OrphanInv
<1> DEFINE v == task.copy.desired
           want == ShouldServe(task.copy)
<1>1. /\ TypeOK /\ Typed /\ task # Idle /\ task.phase = "called" /\ task \in Tasks
      /\ task' = Idle /\ UNCHANGED <<server, epoch, node, orphans, calls, inline, hardGone>>
      /\ events' \in 0..MaxEvents
    BY TypesAre, EventTypes DEF Typed, RecordResult, TypeOK
<1>2. CASE sub' = sub
    <2>1. TypeOK' /\ Quieter /\ Rows' = Rows
        BY <1>1, <1>2, QuietIfSame DEF TypeOK, Rows
    <2> QED
        BY <1>1, <1>2, <2>1, QuietStep
<1>3. CASE HasRow /\ sub' # sub
    <2>1. /\ sub \in Subscriptions /\ sub.desired \in Nat /\ sub.actual \in Nat
          /\ sub.actual <= sub.desired /\ v \in Nat /\ v <= sub.desired
          /\ task.node \in Nodes /\ want \in BOOLEAN /\ node[task.node].ver \in Nat
        BY <1>1, <1>3, RowFields, TaskFields, NodeFields DEF Typed, CopiesBehind, ShouldServe
    <2>2. ASSUME sub' \in Subscriptions, sub'.actual <= sub'.desired,
                 sub'.desired >= sub.desired,
                 sub'.origin = sub.origin, sub'.hard = sub.hard, sub'.trial = sub.trial,
                 sub'.status = "DISABLED" => sub.status = "DISABLED",
                 /\ sub.trial /\ sub.status = "DISABLED" /\ sub.origin # NoNode
                    /\ sub'.actual = sub'.desired
                 => /\ node[sub.origin].ver >= sub'.desired
                    /\ sub'.prov = "SYNCED_INACTIVE" => ~node[sub.origin].on
          PROVE  OrphanInv'
        <3>1. HasRow'
            BY <2>2, WhiteConstants DEF HasRow
        <3>2. TypeOK'
            BY <1>1, <2>2 DEF TypeOK
        <3>3. RowMay /\ SessionMay /\ TaskMay
            BY <1>1, <1>3, <2>1, <2>2, <3>1 DEF RowMay, SessionMay, TaskMay, OneRow
        <3>4. DisabledIsTrue'
            BY <1>1, <2>2 DEF DisabledIsTrue
        <3> QED
            BY <1>1, <2>2, <3>2, <3>3, <3>4, StayStep
    <2>3. sub.trial /\ sub.origin # NoNode => sub.origin = task.node
        BY <1>1, <1>3 DEF TrialStays
    <2> HIDE DEF v, want
    <2>4. ASSUME NEW x \in Nat, sub' = Confirmed(sub, x, want)
          PROVE  /\ sub' \in Subscriptions /\ sub'.actual = x /\ sub'.desired = sub.desired
                 /\ sub'.origin = sub.origin /\ sub'.hard = sub.hard /\ sub'.trial = sub.trial
                 /\ sub'.status = "DISABLED" => sub.status = "DISABLED"
                 /\ sub'.prov = "SYNCED_INACTIVE" => ~want
        <3>1. x \in Nat /\ want \in BOOLEAN /\ sub \in Subscriptions /\ task \in Tasks
            BY <1>1, <2>1
        <3> QED
            BY <2>4, <3>1, ConfirmedIs, ZenonT(40)
    <2>5. CASE task.reply = "applied" /\ sub.desired = v /\ sub' = Confirmed(sub, v, want)
        <3>1. sub.trial /\ sub.status = "DISABLED" /\ sub.origin # NoNode
                => /\ node[sub.origin].ver >= v
                   /\ ~want => ~node[sub.origin].on
            BY <1>1, <1>3, <2>3, <2>5 DEF AnswerKept, v, want
        <3>2. /\ sub' \in Subscriptions /\ sub'.actual = v /\ sub'.desired = sub.desired
              /\ sub'.origin = sub.origin /\ sub'.hard = sub.hard /\ sub'.trial = sub.trial
              /\ sub'.status = "DISABLED" => sub.status = "DISABLED"
              /\ sub'.prov = "SYNCED_INACTIVE" => ~want
            BY <2>1, <2>5, <2>4
        <3> QED
            BY <2>1, <2>2, <2>5, <3>1, <3>2
    <2>6. ASSUME NEW w \in {sub.actual, v}, w >= v, w >= sub.actual,
                 task.reply = "already_newer", node[task.node].on = want,
                 sub' = Confirmed(sub, w, want)
          PROVE  OrphanInv'
        <3>1. w \in Nat
            BY <2>1
        <3>2. /\ sub' \in Subscriptions /\ sub'.actual = w /\ sub'.desired = sub.desired
              /\ sub'.origin = sub.origin /\ sub'.hard = sub.hard /\ sub'.trial = sub.trial
              /\ sub'.status = "DISABLED" => sub.status = "DISABLED"
              /\ sub'.prov = "SYNCED_INACTIVE" => ~want
            BY <2>6, <2>4, <3>1
        <3>3. node[task.node].ver >= v
            BY <1>1, <2>6 DEF AnswerKept, v
        <3>4. sub.trial /\ sub.status = "DISABLED" /\ sub.origin # NoNode /\ w = sub.desired
                => node[sub.origin].ver >= sub.desired
            BY <1>3, <2>1, <2>3, <2>6, <3>3 DEF DisabledIsTrue
        <3> QED
            BY <2>1, <2>2, <2>3, <2>6, <3>1, <3>2, <3>4
    <2>7. CASE sub' = Bumped(sub, v)
        <3>1. /\ sub' \in Subscriptions /\ sub'.desired > sub.desired /\ sub'.actual = sub.actual
              /\ sub'.origin = sub.origin /\ sub'.hard = sub.hard /\ sub'.trial = sub.trial
              /\ sub'.status = sub.status /\ sub'.desired \in Nat
            BY <2>1, <2>7, BumpedIs, RowFields
        <3> QED
            BY <2>1, <2>2, <3>1
    <2>8. CASE sub' = [sub EXCEPT !.prov = "PENDING_UPDATE"]
        <3>1. "PENDING_UPDATE" \in Provisioning
            BY DEF Provisioning, ProvPending
        <3>2. /\ sub' \in Subscriptions /\ sub'.desired = sub.desired /\ sub'.actual = sub.actual
              /\ sub'.origin = sub.origin /\ sub'.hard = sub.hard /\ sub'.trial = sub.trial
              /\ sub'.status = sub.status /\ sub'.prov = "PENDING_UPDATE"
            BY <2>1, <2>8, <3>1 DEF Subscriptions
        <3> QED
            BY <1>3, <2>1, <2>2, <3>2 DEF DisabledIsTrue
    <2>9. \/ sub' = Reconciled(sub)
          \/ sub' = Bumped(sub, v)
        BY <1>3 DEF RecordResult, v
    <2>10. ASSUME sub' = Reconciled(sub)
          PROVE  \/ task.reply = "applied" /\ sub.desired = v /\ sub' = Confirmed(sub, v, want)
                 \/ /\ task.reply = "already_newer" /\ node[task.node].on = want
                    /\ sub' = Confirmed(sub, IF sub.actual > v THEN sub.actual ELSE v, want)
                 \/ sub' = Bumped(sub, v)
                 \/ sub' = [sub EXCEPT !.prov = "PENDING_UPDATE"]
        BY <2>10 DEF Reconciled, v, want
    <2>11. ASSUME NEW w, w = IF sub.actual > v THEN sub.actual ELSE v
           PROVE  w \in {sub.actual, v} /\ w >= v /\ w >= sub.actual
        BY <2>1, <2>11
    <2> QED
        BY <2>5, <2>6, <2>7, <2>8, <2>9, <2>10, <2>11
<1> QED
    BY <1>1, <1>2, <1>3 DEF RecordResult

\* The second phase of the trial reset: the node has confirmed, at a version above
\* every copy that asks for service.
LEMMA FinalizeStep == ASSUME OrphanInv, FinalizeHardDelete PROVE OrphanInv'
<1> USE DEF OrphanInv
<1>1. /\ TypeOK /\ Typed /\ HasRow /\ sub.hard /\ sub.trial /\ sub.status = "DISABLED"
      /\ task = Idle /\ hardGone' = TRUE /\ sub' = NoRow /\ ~HasRow'
      /\ UNCHANGED <<server, epoch, node, orphans, calls, inline, task, events>>
    BY TypesAre DEF FinalizeHardDelete, HasRow, OneRow
<1>2. TypeOK'
    BY <1>1 DEF TypeOK, HasRow
<1>3. OneRow' /\ CopiesBehind' /\ TrialStays' /\ AnswerKept' /\ DisabledIsTrue'
    BY <1>1 DEF OneRow, CopiesBehind, TrialStays, AnswerKept, DisabledIsTrue
<1>4. ASSUME sub.origin \in Nodes
      PROVE  node[sub.origin].ver >= sub.desired /\ ~node[sub.origin].on
    BY <1>1, <1>4, WhiteConstants DEF FinalizeHardDelete, NodeConfirmed, DisabledIsTrue
<1>5. CallsCovered'
    <2> SUFFICES ASSUME inline # Idle, inline.reply = "none"
                 PROVE  Covered(inline.node, inline.copy.desired)'
        BY <1>1 DEF CallsCovered, TaskServes
    <2>1. /\ inline.node \in Nodes /\ inline.copy.desired \in Nat /\ sub.desired \in Nat
          /\ node[inline.node].ver \in Nat /\ inline.copy.desired < sub.desired
        BY <1>1, SessionFields, RowFields, NodeFields DEF Typed, CopiesBehind
    <2>2. Covered(inline.node, inline.copy.desired)
        BY DEF CallsCovered
    <2> QED
        BY <1>1, <1>4, <2>1, <2>2 DEF Covered, At, Rows, ListedAbove
<1>6. NoCredentialOrphaned'
    BY <1>1, <1>4 DEF NoCredentialOrphaned, Rows
<1> QED
    BY <1>2, <1>3, <1>5, <1>6

\* A clean-up leaves the outbox only when its node is the live origin again, or has
\* confirmed at its version or above.
LEMMA SweepStep == ASSUME OrphanInv, NEW o \in orphans, SweepOrphan(o) PROVE OrphanInv'
<1> USE DEF OrphanInv
<1>1. /\ TypeOK /\ Typed /\ task = Idle /\ o.node \in Nodes /\ o.ver \in Nat
      /\ epoch[o.node] \in Nat /\ events' \in 0..MaxEvents
      /\ UNCHANGED <<sub, server, epoch, calls, inline, task, hardGone>>
    BY TypesAre, EventTypes DEF SweepOrphan, TypeOK
<1> DEFINE Cleared ==
               /\ orphans' = orphans \ {o}
               /\ At(o.node) \/ (node'[o.node].ver >= o.ver /\ ~node'[o.node].on)
<1>2. Quieter /\ (orphans' = orphans \/ Cleared)
    <2>1. CASE HasRow /\ sub.origin = o.node /\ sub.status \in Live
        BY <2>1, QuietIfSame DEF SweepOrphan, At
    <2>2. ASSUME NEW a \in NodeAnswers(o.node, o.ver, FALSE, epoch[o.node])
                             \cup LostAnswers(o.node, o.ver, FALSE, epoch[o.node]),
                 node' = [node EXCEPT ![o.node] = a.after],
                 \/ orphans' = orphans
                 \/ /\ orphans' = orphans \ {o}
                    /\ \/ a.reply = "applied"
                       \/ a.reply = "already_newer" /\ ~node[o.node].on
          PROVE  Quieter /\ (orphans' = orphans \/ Cleared)
        <3>1. FALSE \in BOOLEAN
            OBVIOUS
        <3>2. /\ a.after \in [ver : Nat, on : BOOLEAN, gen : Nat]
              /\ a.after.ver >= node[o.node].ver
              /\ a.reply \in {"applied", "already_newer"} => a.after.ver >= o.ver
              /\ a.reply = "applied" => a.after.on = FALSE
              /\ a.reply = "already_newer" => a.after = node[o.node]
              /\ ~(a.after.on /\ ~node[o.node].on)
            BY <1>1, <3>1, AnswersAre, Zenon DEF TypeOK
        <3>3. node'[o.node] = a.after /\ node' \in NodeStates
            BY <1>1, <2>2, <3>2 DEF Typed, NodeStates
        <3>4. Quieter
            BY <1>1, <2>2, <3>2, <3>3, NodeFields DEF Quieter, Typed, NodeStates
        <3> QED
            BY <2>2, <3>2, <3>3, <3>4
    <2> QED
        BY <2>1, <2>2 DEF SweepOrphan
<1>3. TypeOK' /\ Rows' = Rows
    BY <1>1, <1>2 DEF TypeOK, Quieter, NodeStates, Rows
<1>4. OneRow' /\ CopiesBehind' /\ TrialStays' /\ AnswerKept' /\ DisabledIsTrue'
    BY <1>1, <1>2, <1>3, SameRowStep
<1>5. CallsCovered'
    <2> SUFFICES ASSUME inline # Idle, inline.reply = "none"
                 PROVE  Covered(inline.node, inline.copy.desired)'
        BY <1>1 DEF CallsCovered, TaskServes
    <2> DEFINE m == inline.node
               w == inline.copy.desired
    <2>1. /\ m \in Nodes /\ w \in Nat /\ node[m].ver \in Nat /\ node'[m].ver \in Nat
        BY <1>1, <1>2, SessionFields, NodeFields DEF Typed, Quieter
    <2>2. m \in Rows => At(m) \/ node[m].ver > w \/ ListedAbove(m, w)
        BY DEF CallsCovered, Covered
    <2> HIDE DEF m, w
    <2>3. m \in Rows => At(m) \/ node'[m].ver > w \/ (\E q \in orphans' : q.node = m /\ q.ver > w)
        BY <1>1, <1>2, <2>1, <2>2 DEF Quieter, ListedAbove
    <2> QED
        BY <1>1, <1>3, <2>3 DEF Covered, At, HasRow, ListedAbove, m, w
<1>6. NoCredentialOrphaned'
    BY <1>1, <1>2 DEF NoCredentialOrphaned, At, HasRow, Rows, Quieter
<1> QED
    BY <1>3, <1>4, <1>5, <1>6

\* A row without an origin gets one.
LEMMA AllocateStep == ASSUME OrphanInv, SweepUnallocated PROVE OrphanInv'
<1> USE DEF OrphanInv
<1>1. /\ TypeOK /\ Typed /\ task = Idle /\ HasRow /\ sub.origin = NoNode /\ sub.status \in Live
      /\ UNCHANGED <<server, epoch, node, orphans, calls, inline, task, hardGone, events>>
      /\ sub \in Subscriptions /\ sub.desired \in Nat /\ sub.actual \in Nat
      /\ sub.actual <= sub.desired
    BY TypesAre, RowFields DEF SweepUnallocated, Typed
<1>2. PICK n \in Nodes :
          sub' = [sub EXCEPT !.origin = n, !.desired = @ + 1,
                             !.prov = "PENDING_UPDATE", !.seen = Never]
    BY DEF SweepUnallocated, Allocatable
<1>3. /\ sub' \in Subscriptions /\ sub'.desired = sub.desired + 1 /\ sub'.actual = sub.actual
      /\ sub'.origin = n /\ sub'.status = sub.status /\ sub'.hard = sub.hard
      /\ sub'.trial = sub.trial
    <2>1. /\ sub.desired + 1 \in Nat /\ "PENDING_UPDATE" \in Provisioning
          /\ Never \in (Nodes \cup {NoNode}) \X Nat
        BY <1>1 DEF Provisioning, ProvPending, Never
    <2> QED
        BY <1>1, <1>2, <2>1 DEF Subscriptions
<1>4. TypeOK' /\ HasRow'
    BY <1>1, <1>3, WhiteConstants DEF TypeOK, HasRow
<1>5. inline # Idle => inline.copy.desired \in Nat
    BY <1>1, SessionFields DEF Typed
<1>6. OneRow' /\ CopiesBehind' /\ TrialStays' /\ AnswerKept' /\ DisabledIsTrue'
    BY <1>1, <1>3, <1>4, <1>5
       DEF OneRow, CopiesBehind, TrialStays, AnswerKept, DisabledIsTrue, TaskServes, Live
<1>7. CallsCovered'
    <2> SUFFICES ASSUME inline # Idle, inline.reply = "none", inline.node \in Rows
                 PROVE  node[inline.node].ver > inline.copy.desired
                          \/ ListedAbove(inline.node, inline.copy.desired)
        BY <1>1 DEF CallsCovered, TaskServes, Covered, Rows, ListedAbove
    <2> QED
        BY <1>1, WhiteConstants DEF CallsCovered, Covered, At, Rows
<1>8. NoCredentialOrphaned'
    BY <1>1, WhiteConstants DEF NoCredentialOrphaned, Rows
<1> QED
    BY <1>4, <1>6, <1>7, <1>8

-----------------------------------------------------------------------------
LEMMA InitOrphan == ASSUME Init PROVE OrphanInv
<1>1. /\ server \in [Nodes -> ServerStates \cup {"gone"}] /\ epoch \in [Nodes -> Nat]
      /\ orphans = {} /\ calls = {} /\ inline = Idle /\ task = Idle
      /\ hardGone = FALSE /\ events \in 0..MaxEvents
    BY WhiteConstants DEF Init, ServerStates
<1>2. CASE sub = NoRow /\ node = [n \in Nodes |-> [ver |-> 0, on |-> FALSE, gen |-> 1]]
    <2>1. TypeOK
        BY <1>1, <1>2 DEF TypeOK
    <2> QED
        BY <1>1, <1>2, <2>1
           DEF OrphanInv, OneRow, CopiesBehind, TrialStays, AnswerKept, DisabledIsTrue,
               CallsCovered, TaskServes, NoCredentialOrphaned, HasRow, Rows
<1>3. ASSUME NEW n \in Nodes, NEW trial \in BOOLEAN, sub = Settled(n, trial),
             node = [m \in Nodes |-> [ver |-> IF m = n THEN 1 ELSE 0, on |-> m = n, gen |-> 1]]
      PROVE  OrphanInv
    <2>1. /\ 1 \in 0..MaxLeft /\ "ACTIVE" \in Statuses /\ "ACTIVE" \in Provisioning
          /\ Generation(n, 1) \in (Nodes \cup {NoNode}) \X Nat
        BY WhiteConstants DEF Statuses, Provisioning, Generation
    <2>2. /\ sub \in Subscriptions /\ sub.actual = 1 /\ sub.desired = 1 /\ sub.origin = n
          /\ sub.status = "ACTIVE" /\ ~sub.hard
        BY <1>3, <2>1 DEF Settled, NewRow, Subscriptions
    <2>3. node \in NodeStates /\ \A m \in Nodes : m # n => ~node[m].on
        <3> DEFINE On(m) == m = n
                   Ver(m) == IF m = n THEN 1 ELSE 0
        <3>1. \A m \in Nodes : On(m) \in BOOLEAN /\ Ver(m) \in Nat /\ (m # n => ~On(m))
            OBVIOUS
        <3>2. node = [m \in Nodes |-> [ver |-> Ver(m), on |-> On(m), gen |-> 1]]
            BY <1>3
        <3>3. ASSUME NEW ver \in Nat, NEW on \in BOOLEAN
              PROVE  /\ [ver |-> ver, on |-> on, gen |-> 1] \in [ver : Nat, on : BOOLEAN, gen : Nat]
                     /\ [ver |-> ver, on |-> on, gen |-> 1].on = on
            OBVIOUS
        <3> HIDE DEF On, Ver
        <3>4. \A m \in Nodes :
                  /\ node[m] \in [ver : Nat, on : BOOLEAN, gen : Nat]
                  /\ node[m].on = On(m)
            BY <3>1, <3>2, <3>3, Zenon
        <3>5. node = [m \in Nodes |-> node[m]]
            BY <3>2
        <3> QED
            BY <3>1, <3>4, <3>5 DEF NodeStates
    <2>4. TypeOK
        <3>1. sub.actual <= sub.desired
            BY <2>2
        <3>2. node \in [Nodes -> [ver : Nat, on : BOOLEAN, gen : Nat]]
            BY <2>3 DEF NodeStates
        <3> QED
            BY <1>1, <2>2, <3>1, <3>2 DEF TypeOK
    <2>5. NoCredentialOrphaned
        BY <2>2, <2>3, WhiteConstants DEF NoCredentialOrphaned, HasRow, Rows
    <2>6. OneRow
        BY <1>1, <2>2 DEF OneRow
    <2> QED
        BY <1>1, <2>2, <2>4, <2>5, <2>6
           DEF OrphanInv, CopiesBehind, TrialStays, AnswerKept, DisabledIsTrue,
               CallsCovered, TaskServes
<1> QED
    BY <1>2, <1>3 DEF Init

LEMMA OrphanNext == ASSUME OrphanInv, [Next]_vars PROVE OrphanInv'
<1>1. CASE Worker
    BY <1>1, ReadStep, PlanStep, CallNodeStep, RecordStep, FinalizeStep, SweepStep,
       AllocateStep DEF Worker
<1>2. CASE UNCHANGED vars
    BY <1>2 DEF vars, OrphanInv, TypeOK, OneRow, CopiesBehind, TrialStays, AnswerKept,
       DisabledIsTrue, CallsCovered, Covered, At, ListedAbove, TaskServes,
       NoCredentialOrphaned, HasRow, Rows
<1> QED
    BY <1>1, <1>2, OperationsStep, DispatchStep, InlineCallStep, InlineRecordStep,
       EnvironmentStep DEF Next

\* Whatever is bought, moved, banned, reset, deleted, lost or restarted, and in
\* whatever order the sessions, the dispatches, the worker and the sweeps take their
\* steps: a node of the product that still serves the client and is not its origin
\* has a pending clean-up (white_internet_service.py:624).
THEOREM NobodyIsOrphaned == Spec => []NoCredentialOrphaned
<1>1. OrphanInv => NoCredentialOrphaned
    BY DEF OrphanInv
<1> QED
    BY <1>1, InitOrphan, OrphanNext, PTL DEF Spec

\* The rows, the outbox, the sessions and the node states are what TypeOK says, and
\* no version is confirmed that the row has not asked for.
THEOREM WhiteTypes == Spec => []TypeOK
<1>1. OrphanInv => TypeOK
    BY DEF OrphanInv
<1> QED
    BY <1>1, InitOrphan, OrphanNext, PTL DEF Spec

-----------------------------------------------------------------------------
\* The record that the worker trusts.  The invariant says what the row, a task that
\* was told "applied" and a confirmed session know of the origin: each is true as
\* long as it is of the row's version and of the node's generation.

\* The statuses that are served while there is time left.
Serves(s) == s.status \in {"PENDING", "ACTIVE"}

\* A session and a task read their epoch from the table, which follows the node;
\* so does what the row says of the generation it was confirmed by.
EpochsBehind ==
    /\ \A n \in Nodes : epoch[n] \in 1..node[n].gen
    /\ task # Idle => task.expected \in 1..epoch[task.node]
    /\ inline # Idle => inline.expected \in 1..epoch[inline.node]
    /\ HasRow => \A n \in Nodes : sub.seen[1] = n => sub.seen[2] <= node[n].gen

\* Until the row is DISABLED, what is dispatched goes to nodes that were left
\* because they were down.
CallsAway ==
    /\ ~HasRow /\ ~hardGone => calls = {}
    /\ HasRow /\ ~overtaken /\ sub.status # "DISABLED" =>
        \A c \in calls : server[c.node] # "online" /\ c.node # sub.origin

\* A session starts with a row that is to be served, and a task that is past the
\* expiry check has time left if it serves.
CopiesServe ==
    /\ inline # Idle => Serves(inline.copy)
    /\ task # Idle /\ task.phase # "read" /\ Serves(task.copy) => task.copy.left > 0

\* A copy that is of the row's version asks for what the row asks for.
SameVersion ==
    HasRow /\ ~overtaken =>
        /\ task # Idle /\ task.copy.desired = sub.desired =>
               (Serves(task.copy) <=> Serves(sub))
        /\ inline # Idle /\ inline.copy.desired = sub.desired => Serves(sub)

\* The node has the row's version and does what it asks for.
Does(n) ==
    /\ node[n].ver >= sub.desired
    /\ (sub.status \in Live /\ sub.left = 0) \/ node[n].on = ShouldServe(sub)

Trusted == HasRow /\ ~overtaken /\ sub.origin \in Rows
Now == node[sub.origin].gen

\* What the row was confirmed to say; what the task was told; what the session was.
RowTrue ==
    Trusted /\ sub.actual = sub.desired /\ sub.seen = Generation(sub.origin, Now)
    => Does(sub.origin)

TaskTrue ==
    /\ Trusted /\ task # Idle /\ task.copy.desired = sub.desired
    /\ task.node = sub.origin /\ task.expected = Now
    /\ task.phase = "called" /\ task.reply = "applied"
    => node[sub.origin].ver >= sub.desired /\ node[sub.origin].on = Serves(sub)

InlineTrue ==
    /\ Trusted /\ inline # Idle /\ inline.copy.desired = sub.desired
    /\ inline.node = sub.origin /\ inline.expected = Now
    /\ inline.reply = "confirmed"
    => node[sub.origin].ver >= sub.desired /\ node[sub.origin].on

\* A session of a later version than the task's knows an epoch as late as the task's.
InlineLater ==
    /\ Trusted /\ task # Idle /\ task.node = sub.origin
    /\ inline # Idle /\ inline.copy.desired = sub.desired
    /\ task.copy.desired < sub.desired
    => inline.node = task.node /\ inline.expected >= task.expected

\* So a row that was confirmed under an older task is confirmed by the generation
\* that the task would write.
SeenLater ==
    /\ Trusted /\ task # Idle /\ task.node = sub.origin /\ task.expected = Now
    /\ task.copy.desired < sub.desired /\ sub.actual = sub.desired
    => sub.seen = Generation(sub.origin, Now)

SettledInv ==
    /\ EpochsBehind /\ CallsAway /\ CopiesServe /\ SameVersion
    /\ RowTrue /\ TaskTrue /\ InlineTrue /\ InlineLater /\ SeenLater


-----------------------------------------------------------------------------
\* The fields, once for every step.
Known ==
    /\ \A n \in Nodes : /\ node[n].ver \in Nat /\ node[n].on \in BOOLEAN
                        /\ node[n].gen \in Nat /\ epoch[n] \in Nat
    /\ HasRow => /\ sub \in Subscriptions /\ sub.desired \in Nat /\ sub.actual \in Nat
                 /\ sub.actual <= sub.desired /\ sub.left \in Nat
                 /\ sub.origin \in Nodes \cup {NoNode}
    /\ inline # Idle => /\ inline.node \in Nodes /\ inline.copy.desired \in Nat
                        /\ inline.expected \in Nat
                        /\ HasRow => inline.copy.desired <= sub.desired
    /\ task # Idle => /\ task.node \in Nodes /\ task.copy.desired \in Nat
                      /\ task.copy.left \in Nat /\ task.expected \in Nat
                      /\ HasRow => task.copy.desired <= sub.desired

LEMMA KnownIs == ASSUME TypeOK, CopiesBehind PROVE Known
<1>1. HasRow => sub \in Subscriptions /\ sub.actual <= sub.desired
    BY DEF TypeOK, HasRow
<1>2. HasRow => /\ sub.desired \in Nat /\ sub.actual \in Nat /\ sub.left \in Nat
                /\ sub.origin \in Nodes \cup {NoNode}
    BY <1>1, RowFields, WhiteConstants
<1>3. inline # Idle => /\ inline.node \in Nodes /\ inline.copy.desired \in Nat
                       /\ inline.expected \in Nat
    BY SessionFields DEF TypeOK
<1>4. task # Idle => /\ task.node \in Nodes /\ task.copy.desired \in Nat
                     /\ task.copy.left \in Nat /\ task.expected \in Nat
    BY TaskFields DEF TypeOK
<1>5. \A n \in Nodes : /\ node[n].ver \in Nat /\ node[n].on \in BOOLEAN
                       /\ node[n].gen \in Nat /\ epoch[n] \in Nat
    BY DEF TypeOK
<1> QED
    BY <1>1, <1>2, <1>3, <1>4, <1>5 DEF Known, CopiesBehind

LEMMA KnownNext == ASSUME TypeOK', CopiesBehind' PROVE Known'
<1>1. HasRow' => sub' \in Subscriptions /\ sub'.actual <= sub'.desired
    BY DEF TypeOK, HasRow
<1>2. HasRow' => /\ sub'.desired \in Nat /\ sub'.actual \in Nat /\ sub'.left \in Nat
                 /\ sub'.origin \in Nodes \cup {NoNode}
    BY <1>1, RowFields, WhiteConstants
<1>3. inline' # Idle => /\ inline'.node \in Nodes /\ inline'.copy.desired \in Nat
                        /\ inline'.expected \in Nat
    BY SessionFields DEF TypeOK
<1>4. task' # Idle => /\ task'.node \in Nodes /\ task'.copy.desired \in Nat
                      /\ task'.copy.left \in Nat /\ task'.expected \in Nat
    BY TaskFields DEF TypeOK
<1>5. \A n \in Nodes : /\ node'[n].ver \in Nat /\ node'[n].on \in BOOLEAN
                       /\ node'[n].gen \in Nat /\ epoch'[n] \in Nat
    BY DEF TypeOK
<1> QED
    BY <1>1, <1>2, <1>3, <1>4, <1>5 DEF Known, CopiesBehind

Generations == /\ Never[1] \notin Nodes /\ Never[1] = NoNode
               /\ \A n \in Nodes, g \in Nat : Generation(n, g)[1] = n /\ Generation(n, g)[2] = g

LEMMA GenerationsAre == Generations
BY WhiteConstants DEF Generations, Never, Generation

-----------------------------------------------------------------------------
\* The session of an operation that gives the row a new version.
SessionStarts ==
    /\ inline'.reply = "none"
    /\ inline'.copy = sub' /\ Serves(sub') /\ inline'.node = sub'.origin
    /\ inline'.expected = epoch[inline'.node]

\* A step that gives the row a version nothing in flight and no node's answer is of:
\* all that is said of the row's version becomes void.
LEMMA NewVersionSettles ==
    ASSUME Known, Known', SettledInv, HasRow',
           sub'.actual < sub'.desired, HasRow => sub.desired < sub'.desired,
           ~HasRow => inline = Idle /\ task = Idle,
           sub'.seen = Never \/ (HasRow /\ sub'.seen = sub.seen),
           inline' = inline \/ SessionStarts,
           \/ task' \in {task, Idle}
           \/ /\ task # Idle /\ task'.copy = sub' /\ ~Serves(sub')
              /\ task'.node = task.node /\ task'.expected = task.expected
              /\ task'.phase = "planned",
           UNCHANGED <<epoch, node>>, CallsAway'
    PROVE  SettledInv'
<1> USE DEF SettledInv
<1>1. /\ task' # Idle /\ task' = task => task'.copy.desired < sub'.desired
      /\ inline' # Idle /\ inline' = inline => inline'.copy.desired < sub'.desired
    BY DEF Known
<1>2. EpochsBehind'
    <2>1. \A n \in Nodes : epoch'[n] \in 1..node'[n].gen
        BY DEF EpochsBehind
    <2>2. task' # Idle => task'.expected \in 1..epoch'[task'.node]
        BY DEF EpochsBehind
    <2>3. inline' # Idle => inline'.expected \in 1..epoch'[inline'.node]
        <3>1. CASE inline' = inline
            BY <3>1 DEF EpochsBehind
        <3>2. CASE SessionStarts
            BY <2>1, <3>2 DEF SessionStarts, Known
        <3> QED
            BY <3>1, <3>2
    <2>4. \A n \in Nodes : sub'.seen[1] = n => sub'.seen[2] <= node'[n].gen
        BY GenerationsAre DEF EpochsBehind, Generations
    <2> QED
        BY <2>1, <2>2, <2>3, <2>4 DEF EpochsBehind
<1>3. CopiesServe'
    BY DEF CopiesServe, SessionStarts
<1>4. SameVersion'
    BY <1>1 DEF SameVersion, SessionStarts, Serves, Known
<1>5. RowTrue' /\ SeenLater'
    BY DEF RowTrue, SeenLater, Known
<1>6. TaskTrue'
    BY <1>1 DEF TaskTrue, Known
<1>7. InlineTrue'
    BY <1>1 DEF InlineTrue, SessionStarts, Known
<1>8. InlineLater'
    <2> SUFFICES ASSUME task' # Idle, task'.node = sub'.origin, inline' # Idle,
                        inline'.copy.desired = sub'.desired, task'.copy.desired < sub'.desired
                 PROVE  inline'.node = task'.node /\ inline'.expected >= task'.expected
        BY DEF InlineLater
    <2>1. SessionStarts /\ task' = task
        BY <1>1 DEF Known
    <2>2. task.expected <= epoch[task.node]
        BY <2>1 DEF EpochsBehind, Known
    <2> QED
        BY <2>1, <2>2 DEF SessionStarts, Known
<1> QED
    BY <1>2, <1>3, <1>4, <1>5, <1>6, <1>7, <1>8

\* A call that is behind the row's version, or asks for what the row asks for.
Fits(n, v, active) ==
    Trusted /\ n = sub.origin => v < sub.desired \/ active = Serves(sub)

\* Nothing that was said of the origin becomes false by it.
LEMMA NodeCallSettles ==
    ASSUME TypeOK, Known, SettledInv, NEW n \in Nodes, NEW v \in Nat, NEW active \in BOOLEAN,
           NEW e \in Nat, Fits(n, v, active),
           NEW a \in NodeAnswers(n, v, active, e) \cup LostAnswers(n, v, active, e),
           node' = [node EXCEPT ![n] = a.after],
           UNCHANGED <<sub, server, epoch, overtaken>>
    PROVE  /\ \A m \in Nodes : node'[m].gen = node[m].gen
           /\ RowTrue'
           /\ task' = task => TaskTrue'
           /\ inline' = inline => InlineTrue'
<1> USE DEF SettledInv
<1>1. /\ a.after \in [ver : Nat, on : BOOLEAN, gen : Nat]
      /\ a.after.ver >= node[n].ver
      /\ a.after.on # node[n].on => a.after.on = active /\ node[n].ver <= v
      /\ a.after.gen = node[n].gen
    <2>1. node \in [Nodes -> [ver : Nat, on : BOOLEAN, gen : Nat]]
        BY DEF TypeOK
    <2> QED
        BY <2>1, AnswersAre
<1>2. \A m \in Nodes : /\ node'[m].ver \in Nat /\ node'[m].ver >= node[m].ver
                       /\ node'[m].gen = node[m].gen
                       /\ node'[m].on \in BOOLEAN
                       /\ node'[m].on # node[m].on =>
                              m = n /\ node'[m].on = active /\ node[m].ver <= v
    BY <1>1 DEF TypeOK
<1>3. Trusted' = Trusted /\ (Trusted => sub.origin \in Nodes)
    BY DEF Trusted, HasRow, Rows
<1>4. Trusted => Now' = Now
    BY <1>2, <1>3 DEF Now
<1>5. ASSUME Trusted, node[sub.origin].ver >= sub.desired
      PROVE  /\ node'[sub.origin].ver >= sub.desired
             /\ node'[sub.origin].on # node[sub.origin].on => node'[sub.origin].on = Serves(sub)
    BY <1>2, <1>3, <1>5 DEF Fits, Known, Trusted
<1>6. RowTrue'
    <2> SUFFICES ASSUME Trusted, sub.actual = sub.desired, sub.seen = Generation(sub.origin, Now)
                 PROVE  Does(sub.origin)'
        BY <1>3, <1>4 DEF RowTrue
    <2>1. Does(sub.origin)
        BY DEF RowTrue
    <2>2. sub.left # 0 => ShouldServe(sub) = Serves(sub)
        BY DEF ShouldServe, Serves, Known, Trusted
    <2>3. sub.status \notin Live => ShouldServe(sub) = FALSE /\ Serves(sub) = FALSE
        BY DEF ShouldServe, Serves, Live
    <2> QED
        BY <1>5, <2>1, <2>2, <2>3 DEF Does, ShouldServe, Serves, Live
<1>7. ASSUME task' = task PROVE TaskTrue'
    BY <1>3, <1>4, <1>5, <1>7 DEF TaskTrue
<1>8. ASSUME inline' = inline PROVE InlineTrue'
    BY <1>3, <1>4, <1>5, <1>8 DEF InlineTrue, SameVersion, Trusted
<1> QED
    BY <1>2, <1>6, <1>7, <1>8

LEMMA BothKnown ==
    ASSUME OrphanInv, OrphanInv' PROVE Known /\ Known' /\ TypeOK /\ TypeOK' /\ OneRow
BY KnownIs, KnownNext DEF OrphanInv

-----------------------------------------------------------------------------
\* A row that moves was confirmed by nothing, one that stays keeps what it has.
LEMMA MovedSeen ==
    ASSUME NEW s \in Subscriptions, NEW n \in Nodes
    PROVE  /\ Moved(s, n).seen \in {Never, s.seen}
           /\ n # s.origin => Moved(s, n).seen = Never
           /\ n = s.origin => Moved(s, n) = s
BY DEF Moved, Subscriptions

\* A move is dispatched to the node that was left because it was down.
LEMMA MoveCalls ==
    ASSUME Known, SettledInv, HasRow, sub.status # "DISABLED", HasRow',
           NEW n \in Placements(sub), sub'.origin = n, NEW v, MoveDispatch(sub, n, v),
           overtaken => overtaken', UNCHANGED server
    PROVE  CallsAway'
<1> SUFFICES ASSUME ~overtaken, NEW c \in calls'
             PROVE  server[c.node] # "online" /\ c.node # n
    BY DEF CallsAway
<1>1. \A d \in calls : server[d.node] # "online" /\ d.node # sub.origin
    BY DEF SettledInv, CallsAway
<1>2. CASE n = sub.origin
    BY <1>1, <1>2 DEF MoveDispatch
<1>3. CASE n # sub.origin
    <2>1. server[n] = "online"
        BY <1>3 DEF Placements, Allocatable
    <2>2. sub.origin \in Nodes => server[sub.origin] # "online"
        BY <1>3 DEF Placements, NeedsMigration, Allocatable
    <2>3. c \in calls \/ (sub.origin \in Nodes /\ c = [node |-> sub.origin, ver |-> v])
        BY <1>3 DEF MoveDispatch, Dispatch, Rows
    <2> QED
        BY <1>1, <1>3, <2>1, <2>2, <2>3
<1> QED
    BY <1>2, <1>3

\* A purchase, conversion or renewal, or a top-up of an exhausted subscription.
LEMMA PaidSettles ==
    ASSUME OrphanInv, OrphanInv', SettledInv, HasRow, sub.status # "DISABLED",
           NEW n \in Placements(sub), NEW left \in 0..MaxLeft,
           sub' = PaidRow(Moved(sub, n), left),
           NEW v, MoveDispatch(sub, n, v),
           inline' = inline \/ StartInline(sub', n),
           overtaken => overtaken', UNCHANGED <<server, epoch, node, task>>
    PROVE  SettledInv'
<1>1. Known /\ Known' /\ TypeOK'
    BY BothKnown
<1>2. n \in Nodes /\ sub \in Subscriptions /\ sub.actual <= sub.desired /\ sub.desired \in Nat
    BY <1>1 DEF Placements, Allocatable, NeedsMigration, Known
<1> DEFINE m == Moved(sub, n)
<1>3. /\ m \in Subscriptions /\ m.origin = n /\ m.actual <= m.desired /\ m.desired = sub.desired
      /\ m.actual \in Nat /\ m.seen \in {Never, sub.seen}
    BY <1>2, MovedIs, MovedSeen, RowFields
<1> HIDE DEF m
<1>4. /\ sub' \in Subscriptions /\ sub'.desired = sub.desired + 1 /\ sub'.origin = n
      /\ sub'.status = "ACTIVE" /\ sub'.actual = m.actual /\ sub'.seen = m.seen
    <2>1. sub' = PaidRow(m, left)
        BY DEF m
    <2>2. PaidRow(m, left).actual = m.actual /\ PaidRow(m, left).seen = m.seen
        BY <1>3 DEF PaidRow, Subscriptions
    <2> QED
        BY <1>3, <2>1, <2>2, PaidRowIs
<1>5. HasRow' /\ sub'.actual < sub'.desired /\ sub.desired < sub'.desired
    BY <1>2, <1>3, <1>4, WhiteConstants DEF HasRow
<1>6. CallsAway'
    BY <1>1, <1>4, <1>5, MoveCalls
<1>7. inline' = inline \/ SessionStarts
    BY <1>4 DEF StartInline, SessionStarts, Serves
<1> QED
    BY <1>1, <1>3, <1>4, <1>5, <1>6, <1>7, NewVersionSettles

LEMMA ConvertSettles ==
    ASSUME OrphanInv, OrphanInv', SettledInv, ConvertTrialToPaid,
           UNCHANGED <<overtaken, server, epoch, node, task>>
    PROVE  SettledInv'
<1>1. /\ HasRow /\ sub.status # "DISABLED" /\ sub \in Subscriptions
      /\ sub.actual <= sub.desired /\ sub.left + 1 \in 0..MaxLeft
    BY BothKnown, RowFields, WhiteConstants DEF Known, ConvertTrialToPaid
<1> DEFINE Row(n) == [Moved(sub, n) EXCEPT !.trial = FALSE, !.left = @ + 1,
                          !.status = "ACTIVE", !.desired = @ + 1, !.prov = "PENDING_UPDATE"]
<1>2. PICK n \in Placements(sub) :
          sub' = Row(n) /\ MoveDispatch(sub, n, Row(n).desired) /\ StartInline(Row(n), n)
    BY DEF ConvertTrialToPaid
<1>3. n \in Nodes
    BY DEF Placements, Allocatable, NeedsMigration
<1>4. Row(n) = PaidRow(Moved(sub, n), sub.left + 1)
    BY <1>1, <1>3, MovedIs DEF PaidRow
<1> HIDE DEF Row
<1> QED
    BY <1>1, <1>2, <1>4, PaidSettles

LEMMA RenewSettles ==
    ASSUME OrphanInv, OrphanInv', SettledInv, RenewSubscription,
           UNCHANGED <<overtaken, server, epoch, node, task>>
    PROVE  SettledInv'
<1>1. /\ HasRow /\ sub.status # "DISABLED" /\ sub \in Subscriptions /\ ~sub.trial
      /\ sub.actual <= sub.desired /\ sub.left + 1 \in 0..MaxLeft
    BY BothKnown, RowFields, WhiteConstants DEF Known, RenewSubscription
<1> DEFINE Row(n) == [Moved(sub, n) EXCEPT !.left = @ + 1, !.status = "ACTIVE",
                          !.desired = @ + 1, !.prov = "PENDING_UPDATE"]
<1>2. PICK n \in Placements(sub) : sub' = Row(n) /\ MoveDispatch(sub, n, Row(n).desired + 1)
    BY DEF RenewSubscription
<1>3. n \in Nodes
    BY DEF Placements, Allocatable, NeedsMigration
<1> DEFINE m == Moved(sub, n)
<1>4. m \in Subscriptions /\ m.left = sub.left /\ ~m.trial
    BY <1>1, <1>3, MovedIs
<1>5. Row(n) = PaidRow(m, sub.left + 1)
    BY <1>1, <1>4 DEF Subscriptions, PaidRow
<1> HIDE DEF Row
<1> QED
    BY <1>1, <1>2, <1>5, PaidSettles DEF RenewSubscription

-----------------------------------------------------------------------------
\* A step that leaves the row, the epochs and the generations alone, and of the
\* session and the task at most ends them or records an answer.
LEMMA QuietSettles ==
    ASSUME Known, SettledInv, UNCHANGED <<sub, epoch, hardGone>>, overtaken => overtaken',
           \A n \in Nodes : server'[n] = "gone" <=> server[n] = "gone",
           \A n \in Nodes : node'[n].gen = node[n].gen,
           \/ inline' = Idle
           \/ /\ inline # Idle /\ inline'.copy = inline.copy
              /\ inline'.node = inline.node /\ inline'.expected = inline.expected,
           \/ task' = Idle
           \/ /\ task # Idle /\ task'.copy = task.copy
              /\ task'.node = task.node /\ task'.expected = task.expected
              /\ task.phase = "read" => task'.phase = "read",
           CallsAway', RowTrue', TaskTrue', InlineTrue'
    PROVE  SettledInv'
<1> USE DEF SettledInv
<1>1. EpochsBehind'
    BY DEF EpochsBehind, HasRow, Known
<1>2. CopiesServe'
    BY DEF CopiesServe, Serves
<1>3. SameVersion'
    BY DEF SameVersion, Serves, HasRow
<1>4. (Trusted' => Trusted) /\ (Trusted => sub.origin \in Nodes)
    BY DEF Trusted, HasRow, Rows
<1>5. Trusted => Now' = Now
    BY <1>4 DEF Now
<1>6. InlineLater' /\ SeenLater'
    BY <1>4, <1>5 DEF InlineLater, SeenLater
<1> QED
    BY <1>1, <1>2, <1>3, <1>6

LEMMA SameSettles ==
    ASSUME Known, SettledInv,
           UNCHANGED <<sub, epoch, node, hardGone>>, overtaken => overtaken',
           \A n \in Nodes : server'[n] = "gone" <=> server[n] = "gone",
           inline' \in {inline, Idle}, task' \in {task, Idle}, CallsAway'
    PROVE  SettledInv'
<1>1. (Trusted' => Trusted) /\ Now' = Now
    BY DEF Trusted, HasRow, Rows, Now
<1>2. RowTrue' /\ TaskTrue' /\ InlineTrue'
    BY <1>1 DEF SettledInv, RowTrue, TaskTrue, InlineTrue, Does, Serves
<1>3. /\ inline' = Idle \/ (inline # Idle /\ inline' = inline)
      /\ task' = Idle \/ (task # Idle /\ task' = task)
    OBVIOUS
<1> QED
    BY <1>2, <1>3, QuietSettles

-----------------------------------------------------------------------------
\* A top-up: an exhausted subscription gets a new version; an active one keeps it,
\* and if it moves, it goes where no call under way can speak of it.
LEMMA TopupSettles ==
    ASSUME OrphanInv, OrphanInv', SettledInv, TopupQuota,
           UNCHANGED <<server, epoch, node, inline, task, hardGone>>
    PROVE  SettledInv'
<1> USE DEF SettledInv
<1>1. /\ Known /\ Known' /\ HasRow /\ sub.status \in {"ACTIVE", "EXHAUSTED"} /\ ~sub.trial
      /\ sub \in Subscriptions /\ sub.actual <= sub.desired /\ sub.left \in 0..MaxLeft
    BY BothKnown, RowFields DEF Known, TopupQuota
<1>2. PICK n \in Placements(sub) :
          /\ sub' = Refilled(Moved(sub, n))
          /\ overtaken' = (overtaken \/ Overtakes(n))
          /\ MoveDispatch(sub, n, Refilled(Moved(sub, n)).desired + 1)
    BY DEF TopupQuota
<1>3. n \in Nodes
    BY DEF Placements, Allocatable, NeedsMigration
<1> DEFINE m == Moved(sub, n)
<1>4. /\ m \in Subscriptions /\ m.origin = n /\ m.desired = sub.desired
      /\ m.left = sub.left /\ m.trial = sub.trial /\ m.status = sub.status
      /\ n # sub.origin => m.seen = Never
      /\ n = sub.origin => m = sub
    BY <1>1, <1>3, MovedIs, MovedSeen
<1> HIDE DEF m
<1>5. CASE sub.status = "EXHAUSTED"
    <2>1. sub' = PaidRow(m, sub.left)
        BY <1>1, <1>2, <1>4, <1>5 DEF Subscriptions, Refilled, PaidRow, m
    <2> QED
        BY <1>1, <1>2, <1>5, <2>1, PaidSettles DEF m
<1>6. CASE sub.status = "ACTIVE"
    <2>1. sub' = m /\ HasRow'
        BY <1>2, <1>4, <1>6, WhiteConstants DEF Refilled, HasRow, m
    <2>2. CallsAway'
        BY <1>1, <1>2, <1>4, <2>1, MoveCalls
    <2>3. CASE n = sub.origin
        <3>1. sub' = sub /\ (overtaken => overtaken')
            BY <1>2, <1>4, <2>1, <2>3
        <3> QED
            BY <1>1, <2>2, <3>1, SameSettles
    <2>4. CASE n # sub.origin
        <3>1. sub'.origin = n /\ sub'.seen = Never /\ sub'.desired = sub.desired
              /\ (Serves(sub') <=> Serves(sub))
            BY <1>4, <2>1, <2>4 DEF Serves
        <3>2. EpochsBehind'
            BY <1>1, <3>1, GenerationsAre DEF EpochsBehind, Generations
        <3>3. CopiesServe' /\ SameVersion'
            BY <1>1, <1>2, <2>1, <3>1 DEF CopiesServe, SameVersion, Serves
        <3>4. ~overtaken' => /\ ~(task # Idle /\ task.node = n)
                             /\ ~(inline # Idle /\ inline.node = n)
            BY <1>2, <2>4 DEF Overtakes
        <3>5. RowTrue'
            BY <1>1, <1>3, <3>1, GenerationsAre DEF RowTrue, Generations, Known, Now
        <3>6. TaskTrue' /\ InlineTrue' /\ InlineLater' /\ SeenLater'
            BY <3>1, <3>4 DEF TaskTrue, InlineTrue, InlineLater, SeenLater, Trusted
        <3> QED
            BY <2>2, <3>2, <3>3, <3>5, <3>6
    <2> QED
        BY <2>3, <2>4
<1> QED
    BY <1>1, <1>5, <1>6

\* The first row of the user: nothing is under way.
LEMMA CreateSettles ==
    ASSUME OrphanInv, OrphanInv', SettledInv, ~HasRow, ~hardGone, NEW trial \in BOOLEAN, Create(trial),
           UNCHANGED <<overtaken, server, epoch, node, calls, task, hardGone>>
    PROVE  SettledInv'
<1>1. Known /\ Known' /\ OneRow
    BY BothKnown
<1>2. PICK n \in Nodes : sub' = NewRow(n, trial) /\ StartInline(NewRow(n, trial), n)
    BY DEF Create, Allocatable
<1>3. /\ sub'.desired = 1 /\ sub'.actual = 0 /\ sub'.origin = n /\ sub'.status = "PENDING"
      /\ sub'.seen = Never /\ sub' \in Subscriptions
    BY <1>2, NewRowIs
<1>4. HasRow'
    BY <1>3, WhiteConstants DEF HasRow
<1>5. CallsAway'
    BY DEF SettledInv, CallsAway
<1>6. SessionStarts
    BY <1>2, <1>3 DEF StartInline, SessionStarts, Serves
<1> QED
    BY <1>1, <1>3, <1>4, <1>5, <1>6, NewVersionSettles DEF OneRow

LEMMA ExtendSettles ==
    ASSUME OrphanInv, OrphanInv', SettledInv, ExtendSubscription,
           UNCHANGED <<overtaken, server, epoch, node, calls, task, hardGone>>
    PROVE  SettledInv'
<1>1. /\ Known /\ Known' /\ HasRow /\ sub.status # "DISABLED" /\ sub \in Subscriptions
      /\ sub.left + 1 \in 0..MaxLeft /\ sub' = Extended(sub)
      /\ sub.desired \in Nat /\ sub.actual \in Nat /\ sub.actual <= sub.desired
    BY BothKnown, RowFields, WhiteConstants DEF Known, ExtendSubscription
<1>2. /\ sub'.desired = sub.desired + 1 /\ sub'.actual = sub.actual /\ sub'.seen = sub.seen
      /\ sub'.origin = sub.origin /\ sub'.status = "ACTIVE" /\ sub' \in Subscriptions
    BY <1>1, ExtendedIs
<1>3. HasRow'
    BY <1>2, WhiteConstants DEF HasRow
<1>4. sub'.actual < sub'.desired /\ sub.desired < sub'.desired
    BY <1>1, <1>2
<1>5. CallsAway'
    BY <1>1, <1>2, <1>3 DEF SettledInv, CallsAway
<1>6. inline' = inline \/ SessionStarts
    BY <1>1, <1>2 DEF ExtendSubscription, StartInline, SessionStarts, Serves
<1> QED
    BY <1>1, <1>2, <1>3, <1>4, <1>5, <1>6, NewVersionSettles

\* A ban, a refund, a trial reset, the end of the quota or of the period.
LEMMA VersionSettles ==
    ASSUME OrphanInv, OrphanInv', SettledInv, HasRow,
           NEW status \in Statuses, NEW prov \in Provisioning,
           \/ sub' = NewVersion(sub, status, prov)
           \/ sub' = [NewVersion(sub, status, prov) EXCEPT !.hard = TRUE],
           \/ status = "DISABLED"
           \/ sub.status # "DISABLED" /\ UNCHANGED calls,
           \/ task' \in {task, Idle}
           \/ /\ task # Idle /\ task' = [task EXCEPT !.phase = "planned", !.copy = sub']
              /\ status = "EXPIRED",
           inline' = inline, overtaken => overtaken', UNCHANGED <<server, epoch, node>>
    PROVE  SettledInv'
<1>1. /\ Known /\ Known' /\ sub \in Subscriptions /\ (task # Idle => task \in Tasks)
      /\ sub.desired \in Nat /\ sub.actual \in Nat /\ sub.actual <= sub.desired
    BY BothKnown DEF Known, TypeOK
<1> DEFINE s == NewVersion(sub, status, prov)
<1>2. /\ s \in Subscriptions /\ s.desired = sub.desired + 1 /\ s.actual = sub.actual
      /\ s.origin = sub.origin /\ s.seen = sub.seen /\ s.status = status
    BY <1>1, NewVersionIs
<1>3. sub' = s \/ sub' = [s EXCEPT !.hard = TRUE]
    OBVIOUS
<1> HIDE DEF s
<1>4. /\ sub' \in Subscriptions /\ sub'.desired = sub.desired + 1 /\ sub'.actual = sub.actual
      /\ sub'.origin = sub.origin /\ sub'.seen = sub.seen /\ sub'.status = status
    BY <1>2, <1>3 DEF Subscriptions
<1>5. HasRow' /\ sub'.actual < sub'.desired /\ sub.desired < sub'.desired
    BY <1>1, <1>4, WhiteConstants DEF HasRow
<1>6. CallsAway'
    BY <1>4, <1>5 DEF SettledInv, CallsAway
<1>7. \/ task' \in {task, Idle}
      \/ /\ task # Idle /\ task'.copy = sub' /\ ~Serves(sub')
         /\ task'.node = task.node /\ task'.expected = task.expected
         /\ task'.phase = "planned"
    BY <1>1, <1>4 DEF Serves, Tasks
<1> QED
    BY <1>1, <1>4, <1>5, <1>6, <1>7, NewVersionSettles

LEMMA OperationsSettle ==
    ASSUME OrphanInv, OrphanInv', SettledInv, Operations PROVE SettledInv'
<1>1. CASE ProcessBuy
    <2>1. CASE ~HasRow /\ ~hardGone /\ Create(FALSE) /\ UNCHANGED calls
        <3>1. FALSE \in BOOLEAN
            OBVIOUS
        <3> QED
            BY <1>1, <2>1, <3>1, CreateSettles DEF ProcessBuy
    <2> QED
        BY <1>1, <2>1, ConvertSettles, RenewSettles DEF ProcessBuy, PurchaseSubscription
<1>2. CASE ProcessRenew
    BY <1>2, ConvertSettles, RenewSettles DEF ProcessRenew
<1>3. CASE TrialActivate
    <2>1. TRUE \in BOOLEAN
        OBVIOUS
    <2> QED
        BY <1>3, <2>1, CreateSettles DEF TrialActivate, CreateTrialSubscription
<1>4. CASE TopupExecute \/ AddDeviceConfirm
    BY <1>4, TopupSettles DEF TopupExecute, AddDeviceConfirm, PurchaseDeviceSlot
<1>5. CASE AdminExtend
    BY <1>5, ExtendSettles DEF AdminExtend
<1>6. /\ "DISABLED" \in Statuses /\ "EXHAUSTED" \in Statuses
      /\ "PENDING_DELETE" \in Provisioning /\ "PENDING_UPDATE" \in Provisioning
    BY DEF Statuses, Provisioning, ProvPending
<1>7. CASE DeactivateUserSubscriptions
    <2>1. sub' = NewVersion(sub, "DISABLED", "PENDING_DELETE") /\ HasRow
        BY <1>7 DEF DeactivateUserSubscriptions, NewVersion
    <2> QED
        BY <1>6, <1>7, <2>1, VersionSettles DEF DeactivateUserSubscriptions
<1>8. CASE AdminResetTrial
    <2>1. sub' = [NewVersion(sub, "DISABLED", "PENDING_DELETE") EXCEPT !.hard = TRUE] /\ HasRow
        BY <1>8 DEF AdminResetTrial, ResetUserTrial, NewVersion
    <2> QED
        BY <1>6, <1>8, <2>1, VersionSettles DEF AdminResetTrial
<1>9. CASE QuotaExhausted
    <2>1. sub' = NewVersion(sub, "EXHAUSTED", "PENDING_UPDATE") /\ HasRow
        BY <1>9 DEF QuotaExhausted, NewVersion
    <2> QED
        BY <1>6, <1>9, <2>1, VersionSettles DEF QuotaExhausted
<1> QED
    BY <1>1, <1>2, <1>3, <1>4, <1>5, <1>7, <1>8, <1>9 DEF Operations

-----------------------------------------------------------------------------
\* A call that switches the client off finds its node left, or the row not to be
\* served.
LEMMA DispatchSettles ==
    ASSUME OrphanInv, OrphanInv', SettledInv, NEW c \in calls, DispatchRuns(c)
    PROVE  SettledInv'
<1>1. /\ Known /\ TypeOK /\ c.node \in Nodes /\ c.ver \in Nat
      /\ UNCHANGED <<overtaken, sub, server, epoch, inline, task, hardGone>>
    BY BothKnown DEF TypeOK, DispatchRuns
<1>2. CallsAway'
    BY <1>1 DEF SettledInv, CallsAway, DispatchRuns, HasRow
<1>3. CASE node' = node
    BY <1>1, <1>2, <1>3, SameSettles
<1>4. ASSUME NEW a \in NodeAnswers(c.node, c.ver, FALSE, 0), node' = [node EXCEPT ![c.node] = a.after]
      PROVE  SettledInv'
    <2>1. FALSE \in BOOLEAN /\ 0 \in Nat
        OBVIOUS
    <2>2. Fits(c.node, c.ver, FALSE)
        BY DEF SettledInv, CallsAway, Fits, Trusted, Serves
    <2>3. /\ \A m \in Nodes : node'[m].gen = node[m].gen
          /\ RowTrue' /\ TaskTrue' /\ InlineTrue'
        BY <1>1, <1>4, <2>1, <2>2, NodeCallSettles
    <2> QED
        BY <1>1, <1>2, <2>3, QuietSettles
<1> QED
    BY <1>3, <1>4 DEF DispatchRuns

LEMMA SweepSettles ==
    ASSUME OrphanInv, OrphanInv', SettledInv, NEW o \in orphans, SweepOrphan(o)
    PROVE  SettledInv'
<1>1. /\ Known /\ TypeOK /\ o.node \in Nodes /\ o.ver \in Nat /\ epoch[o.node] \in Nat
      /\ UNCHANGED <<overtaken, sub, server, epoch, calls, inline, task, hardGone>>
    BY BothKnown DEF TypeOK, SweepOrphan
<1>2. CallsAway'
    BY <1>1 DEF SettledInv, CallsAway, HasRow
<1>3. CASE node' = node
    BY <1>1, <1>2, <1>3, SameSettles
<1>4. ASSUME ~(HasRow /\ sub.origin = o.node /\ sub.status \in Live),
             NEW a \in NodeAnswers(o.node, o.ver, FALSE, epoch[o.node])
                       \cup LostAnswers(o.node, o.ver, FALSE, epoch[o.node]),
             node' = [node EXCEPT ![o.node] = a.after]
      PROVE  SettledInv'
    <2>1. FALSE \in BOOLEAN
        OBVIOUS
    <2>2. Fits(o.node, o.ver, FALSE)
        BY <1>4 DEF Fits, Trusted, Serves, Live
    <2>3. /\ \A m \in Nodes : node'[m].gen = node[m].gen
          /\ RowTrue' /\ TaskTrue' /\ InlineTrue'
        BY <1>1, <1>4, <2>1, <2>2, NodeCallSettles
    <2> QED
        BY <1>1, <1>2, <2>3, QuietSettles
<1> QED
    BY <1>3, <1>4 DEF SweepOrphan

\* The call of _try_inline_sync: what the session is told is true.
LEMMA InlineCallSettles ==
    ASSUME OrphanInv, OrphanInv', SettledInv, InlineCall PROVE SettledInv'
<1> USE DEF SettledInv
<1> DEFINE n == inline.node
           v == inline.copy.desired
<1>1. /\ Known /\ TypeOK /\ inline # Idle /\ inline \in Sessions
      /\ n \in Nodes /\ v \in Nat /\ inline.expected \in Nat
      /\ UNCHANGED <<overtaken, sub, server, epoch, calls, task, hardGone>>
    BY BothKnown DEF Known, TypeOK, InlineCall
<1>2. CallsAway'
    BY <1>1 DEF CallsAway, HasRow
<1>3. Fits(n, v, TRUE)
    BY <1>1 DEF Fits, SameVersion, Known, Trusted, Serves
<1>4. PICK a \in NodeAnswers(n, v, TRUE, inline.expected)
                 \cup LostAnswers(n, v, TRUE, inline.expected), r \in {"confirmed", "unconfirmed"} :
          /\ node' = [node EXCEPT ![n] = a.after]
          /\ inline' = [inline EXCEPT !.reply = r]
          /\ r = "confirmed" => a.reply = "applied" \/ (a.reply = "already_newer" /\ node[n].on)
    BY DEF InlineCall
<1>5. /\ inline'.copy = inline.copy /\ inline'.node = n /\ inline'.expected = inline.expected
      /\ inline'.reply = r
    BY <1>1, <1>4 DEF Sessions
<1> HIDE DEF n, v
<1>6. TRUE \in BOOLEAN
    OBVIOUS
<1>7. /\ \A m \in Nodes : node'[m].gen = node[m].gen
      /\ RowTrue' /\ TaskTrue'
    BY <1>1, <1>3, <1>4, <1>6, NodeCallSettles
<1>8. /\ a.after.ver \in Nat
      /\ a.reply \in {"applied", "already_newer"} => a.after.ver >= v
      /\ a.reply = "applied" => a.after.on = TRUE
      /\ a.reply = "already_newer" => a.after = node[n]
    <2>1. node \in [Nodes -> [ver : Nat, on : BOOLEAN, gen : Nat]]
        BY <1>1 DEF TypeOK
    <2> QED
        BY <1>1, <1>6, <2>1, AnswersAre
<1>9. node'[n] = a.after
    BY <1>1, <1>4 DEF TypeOK
<1>10. InlineTrue'
    BY <1>1, <1>4, <1>5, <1>8, <1>9 DEF InlineTrue, v
<1> QED
    BY <1>1, <1>2, <1>5, <1>7, <1>10, QuietSettles DEF n

\* The call of the worker.
LEMMA CallNodeSettles ==
    ASSUME OrphanInv, OrphanInv', SettledInv, CallNode PROVE SettledInv'
<1> USE DEF SettledInv
<1> DEFINE n == task.node
           v == task.copy.desired
           want == ShouldServe(task.copy)
<1>1. /\ Known /\ TypeOK /\ task # Idle /\ task \in Tasks /\ task.phase = "planned"
      /\ n \in Nodes /\ v \in Nat /\ task.expected \in Nat /\ task.copy.left \in Nat
      /\ UNCHANGED <<overtaken, sub, server, epoch, calls, inline, hardGone>>
    BY BothKnown DEF Known, TypeOK, CallNode
<1>2. CallsAway'
    BY <1>1 DEF CallsAway, HasRow
<1>3. want \in BOOLEAN /\ want = Serves(task.copy)
    BY <1>1 DEF ShouldServe, Serves, CopiesServe
<1>4. Fits(n, v, want)
    BY <1>1, <1>3 DEF Fits, SameVersion, Known, Trusted, Serves
<1>5. PICK a \in NodeAnswers(n, v, want, task.expected)
                 \cup LostAnswers(n, v, want, task.expected),
           r \in {"applied", "already_newer", "fenced", "failed"} :
          /\ node' = [node EXCEPT ![n] = a.after] /\ r \in {a.reply, "failed"}
          /\ task' = [task EXCEPT !.phase = "called", !.reply = r]
    <2>1. \A a \in NodeAnswers(n, v, want, task.expected) :
              a.reply \in {"applied", "already_newer", "fenced", "failed"}
        BY DEF NodeAnswers
    <2> HIDE DEF n, v, want
    <2> QED
        BY <2>1 DEF CallNode, n, v, want
<1>6. /\ task'.copy = task.copy /\ task'.node = n /\ task'.expected = task.expected
      /\ task'.reply = r /\ task'.phase = "called"
    BY <1>1, <1>5 DEF Tasks
<1> HIDE DEF n, v, want
<1>7. /\ \A m \in Nodes : node'[m].gen = node[m].gen
      /\ RowTrue' /\ InlineTrue'
    BY <1>1, <1>3, <1>4, <1>5, NodeCallSettles
<1>8. /\ a.after.ver \in Nat
      /\ a.reply = "applied" => a.after.ver >= v /\ a.after.on = want
    <2>1. node \in [Nodes -> [ver : Nat, on : BOOLEAN, gen : Nat]]
        BY <1>1 DEF TypeOK
    <2> QED
        BY <1>1, <1>3, <2>1, AnswersAre
<1>9. node'[n] = a.after
    BY <1>1, <1>5 DEF TypeOK
<1>10. TaskTrue'
    <2> SUFFICES ASSUME Trusted, v = sub.desired, n = sub.origin, r = "applied"
                 PROVE  node'[n].ver >= sub.desired /\ node'[n].on = Serves(sub)
        BY <1>1, <1>6 DEF TaskTrue, Trusted, HasRow, Rows, v, Serves
    <2>1. want = Serves(sub)
        BY <1>1, <1>3 DEF SameVersion, Trusted, v, Serves
    <2> QED
        BY <1>5, <1>8, <1>9, <2>1
<1> QED
    BY <1>1, <1>2, <1>6, <1>7, <1>10, QuietSettles DEF n

-----------------------------------------------------------------------------
\* The epoch of the table and of the task follow the node; the copy is the row.
LEMMA ReadSettles ==
    ASSUME OrphanInv, OrphanInv', SettledInv, NEW n \in Nodes, ReadBatch(n) \/ RefreshEpoch(n)
    PROVE  SettledInv'
<1> USE DEF SettledInv
<1>1. /\ Known /\ TypeOK /\ task = Idle
      /\ UNCHANGED <<overtaken, sub, server, node, calls, inline, hardGone>>
      /\ epoch' = [epoch EXCEPT ![n] = node[n].gen]
    BY BothKnown DEF ReadBatch, RefreshEpoch
<1>2. CallsAway'
    BY <1>1 DEF CallsAway, HasRow
<1>3. \A m \in Nodes : epoch'[m] \in epoch[m]..node[m].gen
    BY <1>1 DEF TypeOK, Known, EpochsBehind
<1>4. \/ task' = Idle
      \/ task' # Idle /\ task'.copy = sub /\ task'.phase = "read" /\ task'.node = n
         /\ task'.expected = node[n].gen /\ HasRow
    BY <1>1 DEF ReadBatch, RefreshEpoch
<1>5. EpochsBehind'
    <2>1. task' # Idle => task'.expected \in 1..epoch'[task'.node]
        BY <1>1, <1>4 DEF EpochsBehind, Known, TypeOK
    <2>2. inline # Idle => inline.expected \in 1..epoch'[inline.node]
        BY <1>1, <1>3 DEF EpochsBehind, Known
    <2>3. \A m \in Nodes : epoch'[m] \in 1..node[m].gen
        BY <1>1, <1>3 DEF EpochsBehind, Known
    <2> QED
        BY <1>1, <2>1, <2>2, <2>3 DEF EpochsBehind, HasRow
<1>6. CopiesServe' /\ SameVersion'
    BY <1>1, <1>4 DEF CopiesServe, SameVersion, Serves, HasRow
<1>7. Trusted' = Trusted /\ Now' = Now
    BY <1>1 DEF Trusted, Now, HasRow, Rows
<1>8. RowTrue' /\ InlineTrue'
    BY <1>1, <1>7 DEF RowTrue, InlineTrue, Does
<1>9. TaskTrue' /\ InlineLater' /\ SeenLater'
    BY <1>1, <1>4 DEF TaskTrue, InlineLater, SeenLater, Known
<1> QED
    BY <1>2, <1>5, <1>6, <1>8, <1>9

\* What the loop plans is the row's, or a copy it has not expired.
LEMMA PlanSettles ==
    ASSUME OrphanInv, OrphanInv', SettledInv, PlanTask PROVE SettledInv'
<1> USE DEF SettledInv
<1>1. /\ Known /\ TypeOK /\ task # Idle /\ task \in Tasks /\ task.phase = "read"
      /\ UNCHANGED <<overtaken, server, epoch, node, calls, inline, hardGone>>
    BY BothKnown DEF TypeOK, PlanTask
<1>2. CASE ~HasRow
    <2>1. task' = Idle /\ sub' = sub
        BY <1>2 DEF PlanTask
    <2>2. CallsAway'
        BY <1>1, <2>1 DEF CallsAway, HasRow
    <2> QED
        BY <1>1, <2>1, <2>2, SameSettles
<1>3. ASSUME HasRow, sub' = sub, NEW s, task' = [task EXCEPT !.phase = "planned", !.copy = s],
             s.desired <= sub.desired, Serves(s) => s.left > 0,
             s = task.copy \/ s = sub
      PROVE  SettledInv'
    <2>1. /\ task'.copy = s /\ task'.node = task.node /\ task'.expected = task.expected
          /\ task'.phase = "planned"
        BY <1>1, <1>3 DEF Tasks
    <2>2. CallsAway' /\ EpochsBehind'
        BY <1>1, <1>3, <2>1 DEF CallsAway, EpochsBehind, HasRow
    <2>3. CopiesServe'
        BY <1>1, <1>3, <2>1 DEF CopiesServe, Serves
    <2>4. SameVersion'
        BY <1>1, <1>3, <2>1 DEF SameVersion, Serves, HasRow
    <2>5. Trusted' = Trusted /\ Now' = Now
        BY <1>1, <1>3 DEF Trusted, Now, HasRow, Rows
    <2>6. RowTrue' /\ InlineTrue'
        BY <1>1, <1>3, <2>5 DEF RowTrue, InlineTrue, Does
    <2>7. TaskTrue'
        BY <2>1 DEF TaskTrue
    <2>8. InlineLater' /\ SeenLater'
        BY <1>1, <1>3, <2>1, <2>5 DEF InlineLater, SeenLater, Known
    <2> QED
        BY <2>2, <2>3, <2>4, <2>6, <2>7, <2>8
<1>4. CASE HasRow /\ task.copy.left = 0 /\ task.copy.status \in Live
    <2>1. /\ sub' = Expired(sub) /\ task' = [task EXCEPT !.phase = "planned", !.copy = sub']
          /\ sub.desired \in Nat
        BY <1>1, <1>4 DEF PlanTask, Known
    <2>2. CASE sub.status \in Live
        <3>1. /\ sub' = NewVersion(sub, "EXPIRED", "PENDING_DELETE")
              /\ "EXPIRED" \in Statuses /\ "PENDING_DELETE" \in Provisioning
              /\ sub.status # "DISABLED"
            BY <2>1, <2>2 DEF Expired, NewVersion, Statuses, Provisioning, ProvPending, Live
        <3> QED
            BY <1>1, <1>4, <2>1, <3>1, VersionSettles
    <2>3. CASE sub.status \notin Live
        <3>1. sub' = sub /\ ~Serves(sub) /\ sub.desired <= sub.desired
            BY <2>1, <2>3 DEF Expired, Serves, Live
        <3> QED
            BY <1>3, <1>4, <2>1, <3>1
    <2> QED
        BY <2>2, <2>3
<1>5. CASE HasRow /\ ~(task.copy.left = 0 /\ task.copy.status \in Live)
    <2>1. /\ sub' = sub /\ task' = [task EXCEPT !.phase = "planned", !.copy = task.copy]
          /\ task.copy.desired <= sub.desired
        BY <1>1, <1>5 DEF PlanTask, Known
    <2>2. Serves(task.copy) => task.copy.left > 0
        BY <1>1, <1>5 DEF Serves, Live, Known
    <2> QED
        BY <1>3, <1>5, <2>1, <2>2
<1> QED
    BY <1>2, <1>4, <1>5

\* The second phase of the reset: no row is left to speak of.
LEMMA FinalizeSettles ==
    ASSUME OrphanInv, OrphanInv', SettledInv, FinalizeHardDelete PROVE SettledInv'
<1>1. /\ task' = Idle /\ hardGone' = TRUE /\ ~HasRow'
      /\ UNCHANGED <<epoch, node, inline, task>>
    BY DEF FinalizeHardDelete, HasRow
<1>2. EpochsBehind' /\ CopiesServe'
    BY <1>1 DEF SettledInv, EpochsBehind, CopiesServe
<1> QED
    BY <1>1, <1>2
       DEF SettledInv, CallsAway, SameVersion, Trusted, RowTrue, TaskTrue, InlineTrue,
           InlineLater, SeenLater

LEMMA AllocateSettles ==
    ASSUME OrphanInv, OrphanInv', SettledInv, SweepUnallocated PROVE SettledInv'
<1>1. /\ Known /\ Known' /\ TypeOK /\ TypeOK' /\ HasRow /\ sub.status \in Live
      /\ sub \in Subscriptions /\ sub.desired \in Nat /\ sub.actual \in Nat
      /\ sub.actual <= sub.desired
      /\ UNCHANGED <<overtaken, server, epoch, node, calls, inline, task, hardGone>>
    BY BothKnown DEF Known, SweepUnallocated
<1>2. PICK n \in Allocatable :
          sub' = [sub EXCEPT !.origin = n, !.desired = @ + 1,
                             !.prov = "PENDING_UPDATE", !.seen = Never]
    BY DEF SweepUnallocated
<1>3. /\ sub'.desired = sub.desired + 1 /\ sub'.actual = sub.actual /\ sub'.origin = n
      /\ sub'.status = sub.status /\ sub'.seen = Never
    BY <1>1, <1>2 DEF Subscriptions
<1>4. HasRow' /\ sub'.actual < sub'.desired /\ sub.desired < sub'.desired
    <2>1. sub' \in Subscriptions
        <3>1. /\ sub.desired + 1 \in Nat /\ "PENDING_UPDATE" \in Provisioning
              /\ Never \in (Nodes \cup {NoNode}) \X Nat /\ n \in Nodes
            BY <1>1 DEF Provisioning, ProvPending, Never, Allocatable
        <3> QED
            BY <1>1, <1>2, <3>1 DEF Subscriptions
    <2> QED
        BY <1>1, <1>3, <2>1, WhiteConstants DEF HasRow
<1>5. CallsAway'
    BY <1>1, <1>2, <1>3, <1>4 DEF SettledInv, CallsAway, Live, Allocatable
<1> QED
    BY <1>1, <1>3, <1>4, <1>5, NewVersionSettles

-----------------------------------------------------------------------------
\* A write that keeps the row's version and origin, and whether it is to be served.
Confirms(x, n, g) ==
    /\ HasRow /\ HasRow'
    /\ sub'.actual = x /\ sub'.seen = Generation(n, g)
    /\ sub'.desired = sub.desired /\ sub'.origin = sub.origin /\ sub'.left = sub.left
    /\ ~overtaken' => /\ ~overtaken
                      /\ sub'.status = sub.status
                           \/ (sub.status = "PENDING" /\ sub'.status = "ACTIVE")

LEMMA ConfirmsKeeps ==
    ASSUME Known, SettledInv, NEW x \in Nat, NEW n \in Nodes, NEW g \in 1..epoch[n],
           Confirms(x, n, g),
           UNCHANGED <<server, epoch, node, calls>>,
           inline' \in {inline, Idle}, task' \in {task, Idle}
    PROVE  /\ EpochsBehind' /\ CallsAway' /\ CopiesServe' /\ SameVersion'
           /\ TaskTrue' /\ InlineTrue'
           /\ Trusted' => Trusted /\ Now' = Now
           /\ Trusted' /\ Does(sub.origin) => Does(sub.origin)'
<1> USE DEF SettledInv, Confirms
<1>1. EpochsBehind'
    <2>1. g <= node[n].gen
        BY DEF EpochsBehind, Known
    <2>2. \A m \in Nodes : sub'.seen[1] = m => sub'.seen[2] <= node[m].gen
        BY <2>1, GenerationsAre DEF Generations, Known
    <2> QED
        BY <2>2 DEF EpochsBehind
<1>2. CallsAway'
    BY DEF CallsAway
<1>3. CopiesServe'
    BY DEF CopiesServe, Serves
<1>4. ~overtaken' => /\ ~overtaken /\ (Serves(sub') <=> Serves(sub))
                     /\ (ShouldServe(sub') <=> ShouldServe(sub))
                     /\ (sub'.status \in Live <=> sub.status \in Live)
    BY DEF Serves, ShouldServe, Live
<1>5. SameVersion'
    BY <1>4 DEF SameVersion, Serves
<1>6. Trusted' => Trusted /\ Now' = Now
    BY DEF Trusted, Now, Rows
<1>7. TaskTrue'
    BY <1>4, <1>6 DEF TaskTrue, Trusted, Serves
<1>8. InlineTrue'
    BY <1>4, <1>6 DEF InlineTrue
<1>9. Trusted' /\ Does(sub.origin) => Does(sub.origin)'
    BY <1>4, <1>6 DEF Does, Trusted, ShouldServe
<1> QED
    BY <1>1, <1>2, <1>3, <1>5, <1>6, <1>7, <1>8, <1>9

\* The write of the session.
LEMMA InlineRecordSettles ==
    ASSUME OrphanInv, OrphanInv', SettledInv, InlineRecord PROVE SettledInv'
<1> USE DEF SettledInv
<1>1. /\ Known /\ Known' /\ TypeOK /\ TypeOK' /\ inline # Idle /\ inline' = Idle
      /\ UNCHANGED <<server, epoch, node, calls, task, hardGone>>
      /\ overtaken => overtaken'
    BY BothKnown DEF InlineRecord
<1>2. CASE sub' = sub
    <2>1. CallsAway'
        BY <1>1, <1>2 DEF CallsAway, HasRow
    <2> QED
        BY <1>1, <1>2, <2>1, SameSettles
<1>3. CASE HasRow /\ inline.reply = "confirmed" /\ sub' = InlineWrites(sub, inline.copy, inline.node)
    <2> DEFINE v == inline.copy.desired
               n == inline.node
    <2>1. /\ sub \in Subscriptions /\ n \in Nodes /\ v \in Nat /\ sub.desired \in Nat
          /\ sub.origin \in Nodes \cup {NoNode} /\ sub.left \in Nat
          /\ inline.expected \in 1..epoch[n] /\ inline.expected \in Nat
        BY <1>1, <1>3 DEF Known, EpochsBehind
    <2>2. /\ sub'.desired = sub.desired /\ sub'.actual = v /\ sub'.origin = sub.origin
          /\ sub'.left = sub.left /\ sub'.seen = Generation(n, inline.expected)
          /\ inline.copy.status = "ACTIVE" => sub'.status = sub.status
          /\ inline.copy.status # "ACTIVE" => sub'.status = "ACTIVE"
          /\ sub' \in Subscriptions
        <3>1. /\ inline.copy.desired \in Nat /\ inline.node \in Nodes
              /\ inline.expected \in Nat /\ sub \in Subscriptions
              /\ sub' = InlineWrites(sub, inline.copy, inline.node)
            BY <1>3, <2>1
        <3> HIDE DEF v, n
        <3>2. /\ sub' \in Subscriptions /\ sub'.desired = sub.desired
              /\ sub'.actual = inline.copy.desired /\ sub'.origin = sub.origin
              /\ sub'.left = sub.left /\ sub'.seen = Generation(inline.node, inline.expected)
              /\ inline.copy.status = "ACTIVE" => sub'.status = sub.status
              /\ inline.copy.status # "ACTIVE" => sub'.status = "ACTIVE"
            BY <3>1, InlineWritesIs
        <3> QED
            BY <3>2 DEF v, n
    <2>3. HasRow'
        BY <2>2, WhiteConstants DEF HasRow
    <2>4. Confirms(v, n, inline.expected)
        BY <1>1, <1>3, <2>2, <2>3 DEF Confirms, InlineRecord, CopiesServe, Serves
    <2>5. /\ EpochsBehind' /\ CallsAway' /\ CopiesServe' /\ SameVersion'
          /\ TaskTrue' /\ InlineTrue'
          /\ Trusted' => Trusted /\ Now' = Now
          /\ Trusted' /\ Does(sub.origin) => Does(sub.origin)'
        BY <1>1, <2>1, <2>4, ConfirmsKeeps
    <2> HIDE DEF v, n
    <2>6. sub.origin \in Nodes /\ sub'.seen = Generation(sub.origin, Now) =>
              n = sub.origin /\ inline.expected = Now
        BY <2>2 DEF Generation
    <2>7. RowTrue'
        <3> SUFFICES ASSUME Trusted', v = sub.desired, sub'.seen = Generation(sub.origin, Now)
                     PROVE  Does(sub.origin)'
            BY <2>2, <2>5 DEF RowTrue, Generation
        <3>1. Trusted /\ n = sub.origin /\ inline.expected = Now
            BY <2>5, <2>6 DEF Trusted, Rows
        <3>2. /\ node[sub.origin].ver >= sub.desired /\ node[sub.origin].on /\ Serves(sub)
              /\ node[sub.origin].on \in BOOLEAN
            BY <1>1, <1>3, <3>1 DEF InlineTrue, SameVersion, Trusted, Known, Rows, v, n
        <3>3. sub.left = 0 => sub.status \in Live
            BY <3>2 DEF Serves, Live
        <3>4. sub.left # 0 => ShouldServe(sub) = TRUE
            BY <2>1, <3>2 DEF ShouldServe, Serves
        <3>5. Does(sub.origin)
            BY <3>2, <3>3, <3>4 DEF Does
        <3> QED
            BY <2>5, <3>5
    <2>8. SeenLater'
        <3> SUFFICES ASSUME Trusted', task # Idle, task.node = sub.origin, task.expected = Now,
                            task.copy.desired < sub.desired, v = sub.desired
                     PROVE  sub'.seen = Generation(sub.origin, Now)
            BY <1>1, <2>2, <2>5 DEF SeenLater
        <3>1. Trusted /\ sub.origin \in Nodes
            BY <2>5 DEF Trusted, Rows
        <3>2. n = sub.origin /\ inline.expected >= Now
            BY <1>1, <3>1 DEF InlineLater, v, n
        <3>3. inline.expected <= Now
            BY <1>1, <2>1, <3>1, <3>2 DEF EpochsBehind, Known, Now
        <3>4. inline.expected = Now
            BY <1>1, <2>1, <3>1, <3>2, <3>3 DEF Known, Now
        <3> QED
            BY <2>2, <3>2, <3>4
    <2>9. InlineLater'
        BY <1>1 DEF InlineLater
    <2> QED
        BY <2>5, <2>7, <2>8, <2>9
<1> QED
    BY <1>2, <1>3 DEF InlineRecord

\* The record of the worker's answer.
LEMMA RecordSettles ==
    ASSUME OrphanInv, OrphanInv', SettledInv, RecordResult PROVE SettledInv'
<1> USE DEF SettledInv
<1> DEFINE v == task.copy.desired
           want == ShouldServe(task.copy)
<1>1. /\ Known /\ Known' /\ TypeOK /\ TypeOK' /\ task # Idle /\ task \in Tasks
      /\ task.phase = "called" /\ task' = Idle
      /\ UNCHANGED <<overtaken, server, epoch, node, calls, inline, hardGone>>
    BY BothKnown DEF TypeOK, RecordResult
<1>2. CASE sub' = sub
    <2>1. CallsAway'
        BY <1>1, <1>2 DEF CallsAway, HasRow
    <2> QED
        BY <1>1, <1>2, <2>1, SameSettles
<1>3. CASE HasRow /\ sub' # sub
    <2>1. /\ sub \in Subscriptions /\ sub.desired \in Nat /\ sub.actual \in Nat /\ sub.left \in Nat
          /\ sub.actual <= sub.desired /\ v \in Nat /\ v <= sub.desired
          /\ task.node \in Nodes /\ task.expected \in 1..epoch[task.node]
          /\ want \in BOOLEAN /\ want = Serves(task.copy)
        BY <1>1, <1>3 DEF Known, EpochsBehind, CopiesServe, ShouldServe, Serves
    <2>2. \A x : sub' = x /\ x \in Subscriptions => HasRow'
        BY WhiteConstants DEF HasRow
    <2> HIDE DEF v, want
    <2>3. ASSUME NEW x \in Nat, sub' = Confirmed(sub, x, want),
                 /\ Trusted /\ x = sub.desired /\ task.node = sub.origin /\ task.expected = Now
                 => Does(sub.origin)
          PROVE  SettledInv'
        <3>1. /\ sub' \in Subscriptions /\ sub'.actual = x /\ sub'.desired = sub.desired
              /\ sub'.origin = sub.origin /\ sub'.left = sub.left
              /\ sub'.seen = Generation(task.node, task.expected)
              /\ sub'.status = sub.status \/ (sub.status = "PENDING" /\ sub'.status = "ACTIVE")
            <4>1. x \in Nat /\ want \in BOOLEAN /\ sub \in Subscriptions /\ task \in Tasks
                BY <1>1, <2>1
            <4> QED
                BY <2>3, <4>1, ConfirmedIs, ZenonT(40)
        <3>2. Confirms(x, task.node, task.expected)
            BY <1>1, <1>3, <2>2, <3>1 DEF Confirms
        <3>3. /\ EpochsBehind' /\ CallsAway' /\ CopiesServe' /\ SameVersion'
              /\ TaskTrue' /\ InlineTrue'
              /\ Trusted' => Trusted /\ Now' = Now
              /\ Trusted' /\ Does(sub.origin) => Does(sub.origin)'
            BY <1>1, <2>1, <3>2, ConfirmsKeeps
        <3>4. RowTrue'
            BY <2>3, <3>1, <3>3 DEF RowTrue, Generation
        <3>5. InlineLater' /\ SeenLater'
            BY <1>1 DEF InlineLater, SeenLater
        <3> QED
            BY <3>3, <3>4, <3>5
    <2>4. ASSUME Trusted, v = sub.desired, task.node = sub.origin,
                 node[sub.origin].ver >= sub.desired, node[sub.origin].on = Serves(sub)
          PROVE  Does(sub.origin)
        <3>1. sub.left # 0 => ShouldServe(sub) = Serves(sub)
            BY <2>1 DEF ShouldServe, Serves
        <3>2. sub.status \notin Live => ShouldServe(sub) = FALSE /\ Serves(sub) = FALSE
            BY DEF ShouldServe, Serves, Live
        <3> QED
            BY <2>4, <3>1, <3>2 DEF Does
    <2>5. Trusted /\ v = sub.desired => want = Serves(sub)
        BY <1>1, <2>1 DEF SameVersion, Trusted, Serves, v
    <2>6. CASE task.reply = "applied" /\ sub.desired = v /\ sub' = Confirmed(sub, v, want)
        <3>1. Trusted /\ task.node = sub.origin /\ task.expected = Now =>
                  node[sub.origin].ver >= sub.desired /\ node[sub.origin].on = Serves(sub)
            BY <1>1, <2>6 DEF TaskTrue, v
        <3> QED
            BY <2>1, <2>3, <2>4, <2>6, <3>1
    <2>7. ASSUME NEW w \in {sub.actual, v}, task.reply = "already_newer",
                 node[task.node].on = want, sub' = Confirmed(sub, w, want)
          PROVE  SettledInv'
        <3>1. ASSUME Trusted, w = sub.desired, task.node = sub.origin, task.expected = Now
              PROVE  Does(sub.origin)
            <4>1. CASE v = sub.desired
                <5>1. node[task.node].ver >= v
                    BY <1>1, <2>7 DEF OrphanInv, AnswerKept, v
                <5>2. node[sub.origin].on = Serves(sub)
                    BY <2>5, <2>7, <3>1, <4>1
                <5> QED
                    BY <2>4, <3>1, <4>1, <5>1, <5>2
            <4>2. CASE v < sub.desired
                <5>1. sub.actual = sub.desired
                    BY <2>1, <3>1, <4>2
                <5>2. sub.seen = Generation(sub.origin, Now)
                    BY <1>1, <3>1, <4>2, <5>1 DEF SeenLater, v
                <5> QED
                    BY <3>1, <5>1, <5>2 DEF RowTrue
            <4> QED
                BY <2>1, <4>1, <4>2
        <3>2. w \in Nat
            BY <2>1
        <3> QED
            BY <2>3, <2>7, <3>1, <3>2
    <2>8. CASE sub' = Bumped(sub, v)
        <3>1. /\ sub' \in Subscriptions /\ sub'.desired > sub.desired /\ sub'.actual = sub.actual
              /\ sub'.origin = sub.origin /\ sub'.status = sub.status /\ sub'.seen = sub.seen
              /\ sub'.desired \in Nat
            BY <2>1, <2>8, BumpedIs, RowFields
        <3>2. HasRow' /\ sub'.actual < sub'.desired /\ sub.desired < sub'.desired
            BY <2>1, <2>2, <3>1
        <3>3. CallsAway'
            BY <1>1, <1>3, <3>1, <3>2 DEF CallsAway
        <3> QED
            BY <1>1, <1>3, <3>1, <3>2, <3>3, NewVersionSettles
    <2>9. CASE sub' = [sub EXCEPT !.prov = "PENDING_UPDATE"]
        <3>1. "PENDING_UPDATE" \in Provisioning
            BY DEF Provisioning, ProvPending
        <3>2. /\ sub' \in Subscriptions /\ sub'.desired = sub.desired /\ sub'.actual = sub.actual
              /\ sub'.origin = sub.origin /\ sub'.seen = sub.seen /\ sub'.status = sub.status
              /\ sub'.left = sub.left
            BY <2>1, <2>9, <3>1 DEF Subscriptions
        <3>3. HasRow'
            BY <2>2, <3>2
        <3>4. CallsAway' /\ EpochsBehind' /\ CopiesServe' /\ SameVersion'
            BY <1>1, <1>3, <3>2, <3>3
               DEF CallsAway, EpochsBehind, CopiesServe, SameVersion, Serves
        <3>5. Trusted' = Trusted /\ Now' = Now
            BY <1>1, <1>3, <3>2, <3>3 DEF Trusted, Now, Rows
        <3>6. RowTrue' /\ InlineTrue'
            BY <1>1, <3>2, <3>5 DEF RowTrue, InlineTrue, Does, ShouldServe, Generation
        <3>7. TaskTrue' /\ InlineLater' /\ SeenLater'
            BY <1>1 DEF TaskTrue, InlineLater, SeenLater
        <3> QED
            BY <3>4, <3>6, <3>7
    <2>10. sub' = Reconciled(sub) \/ sub' = Bumped(sub, v)
        BY <1>3 DEF RecordResult, v
    <2>11. ASSUME sub' = Reconciled(sub)
           PROVE  \/ task.reply = "applied" /\ sub.desired = v /\ sub' = Confirmed(sub, v, want)
                  \/ /\ task.reply = "already_newer" /\ node[task.node].on = want
                     /\ sub' = Confirmed(sub, IF sub.actual > v THEN sub.actual ELSE v, want)
                  \/ sub' = Bumped(sub, v)
                  \/ sub' = [sub EXCEPT !.prov = "PENDING_UPDATE"]
        BY <2>11 DEF Reconciled, v, want
    <2> QED
        BY <2>6, <2>7, <2>8, <2>9, <2>10, <2>11
<1> QED
    BY <1>1, <1>2, <1>3 DEF RecordResult

-----------------------------------------------------------------------------
\* What was confirmed by the generation before says nothing of the new one.
LEMMA RestartSettles ==
    ASSUME OrphanInv, OrphanInv', SettledInv, NEW n \in Nodes, NodeRestarts(n)
    PROVE  SettledInv'
<1> USE DEF SettledInv
<1>1. /\ Known /\ TypeOK
      /\ UNCHANGED <<overtaken, sub, server, epoch, calls, inline, task, hardGone>>
    BY BothKnown DEF NodeRestarts
<1>2. /\ node'[n].gen = node[n].gen + 1
      /\ \A m \in Nodes : m # n => node'[m] = node[m]
    BY <1>1 DEF NodeRestarts, TypeOK
<1>3. CallsAway' /\ CopiesServe' /\ SameVersion'
    BY <1>1 DEF CallsAway, CopiesServe, SameVersion, Serves, HasRow
<1>4. \A m \in Nodes : node[m].gen <= node'[m].gen /\ epoch[m] <= node[m].gen
    BY <1>1, <1>2 DEF Known, EpochsBehind
<1>5. EpochsBehind'
    <2>1. \A m \in Nodes : epoch[m] \in 1..node'[m].gen
        BY <1>1, <1>2 DEF EpochsBehind, Known
    <2>2. HasRow => \A m \in Nodes : sub.seen[1] = m => sub.seen[2] <= node'[m].gen
        <3> SUFFICES ASSUME HasRow, NEW m \in Nodes, sub.seen[1] = m
                     PROVE  sub.seen[2] <= node'[m].gen
            OBVIOUS
        <3>1. sub.seen[2] \in Nat
            BY <1>1 DEF Known, Subscriptions
        <3> QED
            BY <1>1, <1>2, <3>1 DEF EpochsBehind, Known
    <2> QED
        BY <1>1, <2>1, <2>2 DEF EpochsBehind, HasRow
<1>6. CASE HasRow /\ sub.origin = n
    <2>1. Now' = node[n].gen + 1 /\ node[n].gen \in Nat
        BY <1>1, <1>2, <1>6 DEF Now, Known
    <2>2. sub.seen # Generation(sub.origin, Now)'
        BY <1>1, <1>6, <2>1, GenerationsAre DEF EpochsBehind, Generations
    <2>3. /\ task # Idle /\ task.node = n => task.expected # Now'
          /\ inline # Idle /\ inline.node = n => inline.expected # Now'
        BY <1>1, <1>4, <2>1 DEF EpochsBehind, Known
    <2>4. RowTrue' /\ TaskTrue' /\ InlineTrue' /\ SeenLater'
        BY <1>1, <1>6, <2>2, <2>3 DEF RowTrue, TaskTrue, InlineTrue, SeenLater
    <2>5. InlineLater'
        BY <1>1 DEF InlineLater, Trusted, HasRow, Rows
    <2> QED
        BY <1>3, <1>5, <2>4, <2>5
<1>7. CASE ~(HasRow /\ sub.origin = n)
    <2>1. Trusted' = Trusted /\ (Trusted => sub.origin \in Nodes /\ sub.origin # n)
        BY <1>1, <1>7 DEF Trusted, HasRow, Rows
    <2>2. Trusted => node'[sub.origin] = node[sub.origin] /\ Now' = Now
        BY <1>1, <1>2, <2>1 DEF Now
    <2>3. RowTrue'
        BY <1>1, <2>1, <2>2 DEF RowTrue, Does, Generation
    <2>4. TaskTrue' /\ InlineTrue'
        BY <1>1, <2>1, <2>2 DEF TaskTrue, InlineTrue, Serves
    <2>5. InlineLater' /\ SeenLater'
        BY <1>1, <2>1, <2>2 DEF InlineLater, SeenLater, Generation
    <2> QED
        BY <1>3, <1>5, <2>3, <2>4, <2>5
<1> QED
    BY <1>6, <1>7

\* A subscription whose server is deleted has no origin.
LEMMA ServerDeletedSettles ==
    ASSUME OrphanInv, OrphanInv', SettledInv, NEW n \in Nodes, ServerDeleted(n)
    PROVE  SettledInv'
<1> USE DEF SettledInv
<1>1. /\ Known /\ TypeOK /\ UNCHANGED <<overtaken, epoch, calls, inline, task, hardGone>>
      /\ server' = [server EXCEPT ![n] = "gone"] /\ node' = [node EXCEPT ![n].on = FALSE]
    BY BothKnown DEF ServerDeleted
<1>2. /\ \A m \in Nodes : node'[m].gen = node[m].gen
      /\ \A m \in Nodes : m # n => node'[m] = node[m] /\ server'[m] = server[m]
      /\ server'[n] = "gone"
    BY <1>1 DEF TypeOK
<1>3. CASE HasRow /\ sub.origin = n
    <2>1. sub \in Subscriptions /\ sub' = [sub EXCEPT !.origin = NoNode]
        BY <1>1, <1>3 DEF Known, ServerDeleted
    <2>2. /\ sub'.desired = sub.desired /\ sub'.origin = NoNode /\ sub'.status = sub.status
          /\ sub'.seen = sub.seen
        BY <2>1 DEF Subscriptions
    <2>3. ~Trusted'
        BY <2>2, WhiteConstants DEF Trusted, Rows
    <2>4. EpochsBehind'
        BY <1>1, <1>2, <1>3, <2>2 DEF EpochsBehind
    <2>5. CopiesServe' /\ SameVersion'
        BY <1>1, <1>3, <2>2 DEF CopiesServe, SameVersion, Serves
    <2>6. CallsAway'
        <3>1. \A c \in calls : c.node \in Nodes
            BY <1>1 DEF TypeOK
        <3>2. \A m \in Nodes : server[m] # "online" => server'[m] # "online"
            BY <1>2
        <3>3. HasRow'
            <4>1. sub' \in Subscriptions
                BY <2>1 DEF Subscriptions
            <4> QED
                BY <4>1, WhiteConstants DEF HasRow
        <3> QED
            BY <1>1, <1>3, <2>2, <3>1, <3>2, <3>3, WhiteConstants DEF CallsAway
    <2> QED
        BY <2>3, <2>4, <2>5, <2>6 DEF RowTrue, TaskTrue, InlineTrue, InlineLater, SeenLater
<1>4. CASE ~(HasRow /\ sub.origin = n)
    <2>1. sub' = sub
        BY <1>4 DEF ServerDeleted
    <2>2. EpochsBehind' /\ CopiesServe' /\ SameVersion'
        BY <1>1, <1>2, <2>1 DEF EpochsBehind, CopiesServe, SameVersion, Serves, HasRow
    <2>3. CallsAway'
        <3>1. \A c \in calls : c.node \in Nodes
            BY <1>1 DEF TypeOK
        <3>2. \A m \in Nodes : server[m] # "online" => server'[m] # "online"
            BY <1>2
        <3> QED
            BY <1>1, <2>1, <3>1, <3>2 DEF CallsAway, HasRow
    <2>4. (Trusted' => Trusted) /\ (Trusted => sub.origin \in Nodes /\ sub.origin # n)
        BY <1>1, <1>2, <1>4, <2>1 DEF Trusted, HasRow, Rows
    <2>5. Trusted => node'[sub.origin] = node[sub.origin] /\ Now' = Now
        BY <1>2, <2>1, <2>4 DEF Now
    <2>6. RowTrue'
        BY <1>1, <2>1, <2>4, <2>5 DEF RowTrue, Does, Generation
    <2>7. TaskTrue' /\ InlineTrue'
        BY <1>1, <2>1, <2>4, <2>5 DEF TaskTrue, InlineTrue, Serves
    <2>8. InlineLater' /\ SeenLater'
        BY <1>1, <2>1, <2>4, <2>5 DEF InlineLater, SeenLater, Generation
    <2> QED
        BY <2>2, <2>3, <2>6, <2>7, <2>8
<1> QED
    BY <1>3, <1>4

\* The horizon comes nearer.
LEMMA TimeSettles ==
    ASSUME OrphanInv, OrphanInv', SettledInv, TimePasses PROVE SettledInv'
<1> USE DEF SettledInv
<1>1. /\ Known /\ TypeOK /\ HasRow /\ sub \in Subscriptions /\ sub.left \in Nat /\ sub.left > 0
      /\ sub' = [sub EXCEPT !.left = @ - 1]
      /\ UNCHANGED <<overtaken, server, epoch, node, calls, inline, task, hardGone>>
    BY BothKnown DEF Known, TimePasses
<1>2. /\ sub'.desired = sub.desired /\ sub'.actual = sub.actual /\ sub'.origin = sub.origin
      /\ sub'.status = sub.status /\ sub'.seen = sub.seen /\ sub'.left = sub.left - 1
    BY <1>1 DEF Subscriptions
<1>3. HasRow'
    <2>1. sub.left - 1 \in 0..MaxLeft
        BY <1>1, RowFields, WhiteConstants
    <2>2. sub' \in Subscriptions
        BY <1>1, <2>1 DEF Subscriptions
    <2> QED
        BY <2>2, WhiteConstants DEF HasRow
<1>4. CallsAway' /\ EpochsBehind' /\ CopiesServe' /\ SameVersion'
    BY <1>1, <1>2, <1>3 DEF CallsAway, EpochsBehind, CopiesServe, SameVersion, Serves
<1>5. Trusted' = Trusted /\ Now' = Now
    BY <1>1, <1>2, <1>3 DEF Trusted, Now, Rows
<1>6. RowTrue'
    <2>1. sub'.left # 0 => ShouldServe(sub') = ShouldServe(sub)
        BY <1>1, <1>2 DEF ShouldServe
    <2>2. sub.status \notin Live => ShouldServe(sub') = ShouldServe(sub)
        BY <1>1, <1>2 DEF ShouldServe, Live
    <2>3. ASSUME Does(sub.origin) PROVE Does(sub.origin)'
        BY <1>1, <1>2, <2>1, <2>2, <2>3 DEF Does
    <2> QED
        BY <1>2, <1>5, <2>3 DEF RowTrue, Generation
<1>7. TaskTrue' /\ InlineTrue' /\ InlineLater' /\ SeenLater'
    BY <1>1, <1>2, <1>5 DEF TaskTrue, InlineTrue, InlineLater, SeenLater, Serves, Generation
<1> QED
    BY <1>4, <1>6, <1>7

LEMMA EnvironmentSettles ==
    ASSUME OrphanInv, OrphanInv', SettledInv, Environment PROVE SettledInv'
<1>1. ASSUME NEW n \in Nodes, HealthChanges(n) PROVE SettledInv'
    <2>1. Known /\ TypeOK
        BY BothKnown
    <2>2. CallsAway'
        BY <1>1 DEF HealthChanges, CallsAway
    <2>3. \A m \in Nodes : server'[m] = "gone" <=> server[m] = "gone"
        BY <1>1, <2>1 DEF HealthChanges, TypeOK, Rows, ServerStates
    <2> QED
        BY <1>1, <2>1, <2>2, <2>3, SameSettles DEF HealthChanges
<1>2. CASE Crash
    <2>1. CallsAway'
        BY <1>2 DEF Crash, CallsAway
    <2> QED
        BY <1>2, <2>1, BothKnown, SameSettles DEF Crash
<1> QED
    BY <1>1, <1>2, RestartSettles, ServerDeletedSettles, TimeSettles DEF Environment

-----------------------------------------------------------------------------
LEMMA InitSettles == ASSUME Init, OrphanInv PROVE SettledInv
<1> USE DEF SettledInv
<1>1. /\ server = [n \in Nodes |-> "online"] /\ epoch = [n \in Nodes |-> 1]
      /\ calls = {} /\ inline = Idle /\ task = Idle
    BY DEF Init
<1>2. /\ CallsAway /\ CopiesServe /\ SameVersion
      /\ TaskTrue /\ InlineTrue /\ InlineLater /\ SeenLater
    BY <1>1 DEF CallsAway, CopiesServe, SameVersion, TaskTrue, InlineTrue, InlineLater, SeenLater
<1>3. CASE sub = NoRow /\ node = [n \in Nodes |-> [ver |-> 0, on |-> FALSE, gen |-> 1]]
    BY <1>1, <1>2, <1>3 DEF EpochsBehind, RowTrue, Trusted, HasRow
<1>4. ASSUME NEW n \in Nodes, NEW trial \in BOOLEAN, sub = Settled(n, trial),
             node = [m \in Nodes |-> [ver |-> IF m = n THEN 1 ELSE 0, on |-> m = n, gen |-> 1]]
      PROVE  SettledInv
    <2>1. /\ sub.seen = Generation(n, 1) /\ sub.origin = n /\ sub.status = "ACTIVE"
          /\ sub.desired = 1 /\ sub.left = 1
        BY <1>4 DEF Settled, NewRow
    <2>2. /\ \A m \in Nodes : node[m].gen = 1
          /\ node[n].ver = 1 /\ node[n].on = TRUE
        BY <1>4
    <2>3. EpochsBehind
        BY <1>1, <2>1, <2>2, GenerationsAre DEF EpochsBehind, Generations
    <2>4. ShouldServe(sub) = TRUE
        BY <2>1 DEF ShouldServe
    <2>5. Does(n)
        <3>1. node[n].ver >= sub.desired
            BY <2>1, <2>2
        <3>2. node[n].on = ShouldServe(sub)
            BY <2>2, <2>4
        <3> QED
            BY <3>1, <3>2 DEF Does
    <2>6. RowTrue
        BY <2>1, <2>5 DEF RowTrue
    <2> QED
        BY <1>2, <2>3, <2>6
<1> QED
    BY <1>3, <1>4 DEF Init

LEMMA SettledNext == ASSUME OrphanInv, SettledInv, [Next]_vars PROVE SettledInv'
<1>1. OrphanInv'
    BY OrphanNext
<1>2. CASE Worker
    BY <1>1, <1>2, ReadSettles, PlanSettles, CallNodeSettles, RecordSettles, FinalizeSettles,
       SweepSettles, AllocateSettles DEF Worker
<1>3. CASE UNCHANGED vars
    <2>1. CallsAway'
        BY <1>3 DEF vars, SettledInv, CallsAway, HasRow
    <2> QED
        BY <1>1, <1>3, <2>1, BothKnown, SameSettles DEF vars
<1> QED
    BY <1>1, <1>2, <1>3, OperationsSettle, DispatchSettles, InlineCallSettles,
       InlineRecordSettles, EnvironmentSettles DEF Next

\* When the row says that its origin has its version and its generation, and nothing
\* is pending, the node serves exactly if the row is to be served, whatever sessions,
\* tasks and dispatches are still under way (NeedsSync is all the worker looks at).
THEOREM SettledTrue == Spec => []SettledIsTrue
<1>1. ASSUME SettledInv, OrphanInv PROVE SettledIsTrue
    BY <1>1 DEF SettledInv, SettledIsTrue, RowTrue, Trusted, Now, Does, NeedsSync
<1>2. Init => OrphanInv /\ SettledInv
    BY InitOrphan, InitSettles
<1>3. OrphanInv /\ SettledInv /\ [Next]_vars => (OrphanInv /\ SettledInv)'
    BY OrphanNext, SettledNext
<1> QED
    BY <1>1, <1>2, <1>3, PTL DEF Spec
=============================================================================
