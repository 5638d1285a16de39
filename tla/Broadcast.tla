------------------------------ MODULE Broadcast ------------------------------
(***************************************************************************)
(* A broadcast of the admin menu: one row of BroadcastProgress per launch, *)
(* a task that sends to the users of its audience in the order of their    *)
(* ids and commits after each how far it has come, and the resumption of   *)
(* what a crash interrupted, before the bot takes updates again.           *)
(***************************************************************************)
EXTENDS Naturals, FiniteSets

CONSTANTS
    MaxUser,   \* users 1..MaxUser, ordered as their ids
    Admins,
    Rows,      \* bound on the launches: 1..n, the later the newer
    Audiences, \* classes of users an admin may choose
    BatchSize, \* 50 in the code
    Kinds,     \* operations of an instance
    MaxEvents, \* bound on their number
    Idle

VARIABLES
    up,      \* the process takes updates
    user,    \* per user: the audiences it is in, and whether it can be written to
    form,    \* per admin: the conversation
    row,     \* BroadcastProgress
    claim,   \* _broadcast_in_progress
    owned,   \* _active_broadcast_progress_ids
    worker,  \* per row: its task
    launch,  \* per admin: the launch handler between its waits
    got,     \* history: per row and user, messages delivered
    tried,   \* history: per row, users that were attempted
    due,     \* history: per row, users in its audience all the time
    breaks,  \* history: per row, tasks that ended with the row in progress
    events

vars == <<up, user, form, row, claim, owned, worker, launch, got, tried, due, breaks, events>>
hist == <<got, tried, due, breaks>>

Users == 1..MaxUser
Event(kind) == kind \in Kinds /\ events < MaxEvents /\ events' = events + 1
Blank == [state |-> "none", aud |-> Idle, text |-> FALSE]
NoTask == [pc |-> "none", aud |-> Idle, last |-> 0, batch |-> {}, sent |-> "no"]

\* Who is written to: of the audience, neither gone nor known to have blocked the bot.
Audience(aud) == {u \in Users : aud \in user[u].in /\ ~user[u].blocked}

-----------------------------------------------------------------------------
\* The form.
StartBroadcast(a) ==
    /\ up /\ Event("form") /\ form' = [form EXCEPT ![a] = Blank]
    /\ UNCHANGED <<up, user, row, claim, owned, worker, launch, hist>>

SelectAudience(a, aud) ==
    /\ up /\ Event("form") /\ form' = [form EXCEPT ![a].state = "message", ![a].aud = aud]
    /\ UNCHANGED <<up, user, row, claim, owned, worker, launch, hist>>

\* A text or a media file with or without one; nothing else is taken.
Message(a, text) ==
    /\ up /\ form[a].state = "message"
    /\ form' = [form EXCEPT ![a].state = "confirm", ![a].text = text]
    /\ UNCHANGED <<up, user, row, claim, owned, worker, launch, hist, events>>

-----------------------------------------------------------------------------
\* The launch claims before its first wait ...
LaunchClaims(a) ==
    /\ up /\ Event("launch") /\ form[a].state = "confirm" /\ a \notin claim
    /\ claim' = claim \cup {a} /\ launch' = [launch EXCEPT ![a] = form[a]]
    /\ UNCHANGED <<up, user, form, row, owned, worker, hist>>

InProgress(a) == {r \in Rows : row[r] # Idle /\ row[r].admin = a /\ row[r].status = "in_progress"}

\* ... gives the claim back when the admin has a row in progress, there is no
\* text, or nobody to write to (media without a text end here, although the form
\* has shown a preview of them) ...
LaunchRefused(a) ==
    /\ launch[a] # Idle
    /\ InProgress(a) # {} \/ ~launch[a].text \/ Audience(launch[a].aud) = {}
    /\ form' = [form EXCEPT ![a] = IF InProgress(a) # {} THEN @ ELSE Blank]
    /\ claim' = claim \ {a} /\ launch' = [launch EXCEPT ![a] = Idle]
    /\ UNCHANGED <<up, user, row, owned, worker, hist, events>>

NewRow(a) == [admin |-> a, aud |-> launch[a].aud, status |-> "in_progress", last |-> 0, ok |-> 0, failed |-> 0]
NextRow == {r \in Rows : row[r] = Idle /\ \A q \in Rows : q < r => row[q] # Idle}

\* ... and creates the row and its task.  A failed look for rows in progress is no obstacle.
LaunchCreates(a) ==
    \E r \in NextRow :
       /\ launch[a] # Idle /\ launch[a].text /\ Audience(launch[a].aud) # {}
       /\ \/ InProgress(a) = {} /\ UNCHANGED events
          \/ InProgress(a) # {} /\ Event("dbfail")
       /\ row' = [row EXCEPT ![r] = NewRow(a)]
       /\ worker' = [worker EXCEPT ![r] = [NoTask EXCEPT !.pc = "start"]]
       /\ due' = [due EXCEPT ![r] = Audience(launch[a].aud)]
       /\ launch' = [launch EXCEPT ![a] = Idle] /\ form' = [form EXCEPT ![a] = Blank]
       /\ UNCHANGED <<up, user, claim, owned, got, tried, breaks>>

-----------------------------------------------------------------------------
\* The task: a row that is owned already is left to its owner.
Begins(r) ==
    /\ worker[r].pc = "start"
    /\ IF r \in owned \/ row[r].status # "in_progress"
       THEN worker' = [worker EXCEPT ![r] = NoTask] /\ UNCHANGED <<owned, claim>>
       ELSE /\ owned' = owned \cup {r} /\ claim' = claim \cup {row[r].admin}
            /\ worker' = [worker EXCEPT ![r] = [NoTask EXCEPT !.pc = "batch", !.aud = row[r].aud, !.last = row[r].last]]
    /\ UNCHANGED <<up, user, form, row, launch, hist, events>>

Beyond(r) == {u \in Audience(worker[r].aud) : u > worker[r].last}

\* Variant: the batch takes users in no order.
Unordered(r) == {u \in Beyond(r) : Cardinality({w \in Beyond(r) : w > u}) < BatchSize}

Batch(r) == {u \in Beyond(r) : Cardinality({w \in Beyond(r) : w < u}) < BatchSize}

NextBatch(r) ==
    /\ worker[r].pc = "batch"
    /\ worker' = IF row[r].status # "in_progress" \/ Batch(r) = {}
                 THEN [worker EXCEPT ![r].pc = "end"]
                 ELSE [worker EXCEPT ![r].pc = "send", ![r].batch = Batch(r)]
    /\ UNCHANGED <<up, user, form, row, claim, owned, launch, hist, events>>

Current(r) == CHOOSE u \in worker[r].batch : \A w \in worker[r].batch : u <= w

\* One attempt (two when Telegram asks to wait): delivered, refused, or failed.
Sends(r, outcome) ==
    /\ worker[r].pc = "send" /\ worker[r].batch # {}
    /\ outcome = "forbidden" <=> user[Current(r)].deaf
    /\ outcome = "error" => Event("error")
    /\ outcome # "error" => UNCHANGED events
    /\ worker' = [worker EXCEPT ![r].pc = "checkpoint", ![r].sent = outcome, ![r].last = Current(r)]
    /\ got' = [got EXCEPT ![r][Current(r)] = IF outcome = "ok" THEN @ + 1 ELSE @]
    /\ tried' = [tried EXCEPT ![r] = @ \cup {Current(r)}]
    /\ UNCHANGED <<up, user, form, row, claim, owned, launch, due, breaks>>

Checkpointed(r) == [row[r] EXCEPT !.last = worker[r].last,
                                  !.ok = IF worker[r].sent = "ok" THEN @ + 1 ELSE @,
                                  !.failed = IF worker[r].sent = "ok" THEN @ ELSE @ + 1]

Checkpoints(r) ==
    /\ worker[r].pc = "checkpoint"
    /\ row' = [row EXCEPT ![r] = Checkpointed(r)]
    /\ worker' = [worker EXCEPT ![r].pc = IF worker[r].batch = {worker[r].last} THEN "batch" ELSE "send",
                                ![r].batch = @ \ {worker[r].last}, ![r].sent = "no"]
    /\ user' = IF worker[r].sent = "forbidden" THEN [user EXCEPT ![worker[r].last].blocked = TRUE] ELSE user
    /\ UNCHANGED <<up, form, claim, owned, launch, hist, events>>

\* Whatever the end, the task gives up the row and the admin's claim.
Leaves(r) ==
    /\ owned' = owned \ {r} /\ claim' = claim \ {row[r].admin}
    /\ worker' = [worker EXCEPT ![r] = NoTask]

Finalises(r) ==
    /\ worker[r].pc = "end"
    /\ row' = [row EXCEPT ![r].status = "completed"] /\ Leaves(r)
    /\ UNCHANGED <<up, user, form, launch, hist, events>>

\* The database fails between two recipients: the row is stopped, or, when that
\* fails as well, stays in progress without a task.
Fails(r) ==
    /\ Event("fail") /\ worker[r].pc \in {"batch", "checkpoint", "end"}
    /\ \/ row' = [row EXCEPT ![r].status = "stopped"] /\ UNCHANGED breaks
       \/ "dbfail" \in Kinds /\ UNCHANGED row /\ breaks' = [breaks EXCEPT ![r] = @ + 1]
    /\ Leaves(r)
    /\ UNCHANGED <<up, user, form, launch, got, tried, due>>

-----------------------------------------------------------------------------
Crash ==
    /\ up /\ Event("crash") /\ up' = FALSE
    /\ breaks' = [r \in Rows |-> IF worker[r].pc = "none" THEN breaks[r] ELSE breaks[r] + 1]
    /\ claim' = {} /\ owned' = {} /\ worker' = [r \in Rows |-> NoTask]
    /\ launch' = [a \in Admins |-> Idle]
    /\ UNCHANGED <<user, form, row, got, tried, due>>

\* resume_pending_broadcasts resumes the newest row of an admin ...
Newest(a) == {r \in InProgress(a) : \A q \in InProgress(a) : q <= r}

Resumed == UNION {Newest(a) : a \in Admins}

\* ... and stops the older ones.
Resume ==
    /\ ~up /\ up' = TRUE
    /\ row' = [r \in Rows |-> IF row[r] # Idle /\ row[r].status = "in_progress" /\ r \notin Resumed
                              THEN [row[r] EXCEPT !.status = "stopped"] ELSE row[r]]
    /\ worker' = [r \in Rows |-> IF r \in Resumed THEN [NoTask EXCEPT !.pc = "start"] ELSE NoTask]
    /\ claim' = {row[r].admin : r \in Resumed}
    /\ UNCHANGED <<user, form, owned, launch, hist, events>>

\* Users enter and leave audiences, and stop the bot.
UserChanges(u, in, deaf) ==
    /\ Event("user") /\ user' = [user EXCEPT ![u].in = in, ![u].deaf = deaf]
    /\ due' = [r \in Rows |-> IF row[r] # Idle /\ row[r].aud \notin in THEN due[r] \ {u} ELSE due[r]]
    /\ UNCHANGED <<up, form, row, claim, owned, worker, launch, got, tried, breaks>>

Init ==
    /\ up = TRUE
    /\ user = [u \in Users |-> [in |-> Audiences, deaf |-> FALSE, blocked |-> FALSE]]
    /\ form = [a \in Admins |-> Blank] /\ row = [r \in Rows |-> Idle]
    /\ claim = {} /\ owned = {} /\ worker = [r \in Rows |-> NoTask]
    /\ launch = [a \in Admins |-> Idle]
    /\ got = [r \in Rows |-> [u \in Users |-> 0]] /\ tried = [r \in Rows |-> {}]
    /\ due = [r \in Rows |-> {}] /\ breaks = [r \in Rows |-> 0] /\ events = 0

Next ==
    \/ \E a \in Admins :
         \/ StartBroadcast(a) \/ LaunchClaims(a) \/ LaunchRefused(a) \/ LaunchCreates(a)
         \/ \E aud \in Audiences : SelectAudience(a, aud)
         \/ \E text \in BOOLEAN : Message(a, text)
    \/ \E r \in Rows :
         \/ Begins(r) \/ NextBatch(r) \/ Checkpoints(r) \/ Finalises(r) \/ Fails(r)
         \/ \E outcome \in {"ok", "forbidden", "error"} : Sends(r, outcome)
    \/ \E u \in Users, in \in SUBSET Audiences, deaf \in BOOLEAN : UserChanges(u, in, deaf)
    \/ Crash \/ Resume

Spec == Init /\ [][Next]_vars

-----------------------------------------------------------------------------
\* Rows of BroadcastProgress, and an administrator's conversation.
Progress == [admin : Admins, aud : Audiences \cup {Idle}, last : 0..MaxUser, ok : Nat, failed : Nat,
             status : {"in_progress", "completed", "stopped"}]
Forms == [state : {"none", "message", "confirm"}, aud : Audiences \cup {Idle}, text : BOOLEAN]

\* What an instance has to satisfy: ids are numbers, and so are the rows, which
\* are created one after the other; Idle is no row and no conversation.
BroadcastConstants ==
    /\ MaxUser \in Nat /\ BatchSize \in Nat \ {0} /\ Rows \subseteq Nat
    /\ Idle \notin Progress /\ Idle \notin Forms

TypeOK ==
    /\ claim \subseteq Admins /\ owned \subseteq Rows
    /\ \A r \in Rows : /\ row[r] # Idle => row[r].last \in 0..MaxUser
                       /\ worker[r].batch \subseteq Users /\ due[r] \subseteq Users

\* _send_broadcast_to_users_with_resume: a crash replays at most the one
\* message that was in flight.
OneReplayPerCrash ==
    \A r \in Rows :
       /\ \A u \in Users : got[r][u] <= 1 + breaks[r]
       /\ Cardinality({u \in Users : got[r][u] > 1}) <= breaks[r]

\* A completed broadcast has tried everyone who was in its audience all the time.
CompletedReachedAll ==
    \A r \in Rows : row[r] # Idle /\ row[r].status = "completed" =>
       \A u \in due[r] : user[u].blocked \/ u \in tried[r]

\* At most one task sends for an admin, in spite of crashes and of launches
\* whose look into the database fails.
OneTaskPerAdmin ==
    \A r, q \in Rows : r # q /\ worker[r].pc # "none" /\ worker[q].pc # "none" => row[r].admin # row[q].admin
==============================================================================
