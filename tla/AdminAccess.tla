------------------------------ MODULE AdminAccess -----------------------------
(***************************************************************************)
(* The cards on which administrators change one user's subscriptions and   *)
(* bonus balance.  A card is a message edited in place with its buttons; a *)
(* tap is handled later, maybe when the message shows something else.  The *)
(* action lock of an administrator is given back when the handler returns, *)
(* before the session commits.                                             *)
(***************************************************************************)
EXTENDS Integers, FiniteSets, Sequences

CONSTANTS
    Admins, Sessions,
    Numbers,     \* days, gigabytes or roubles an administrator may pick or type
    MaxNumber,   \* 36500 days, 1000000 roubles
    Limits,      \* device limits of the tariffs
    Day, Grace,  \* a day, and VPN_ACCESS_GRACE_HOURS, in ticks of the clock
    Cap,         \* most traffic of one device
    MaxNow, Kinds, MaxEvents, Idle

ASSUME AdminConstants ==
    /\ Numbers \subseteq Nat /\ Limits \subseteq Nat \ {0} /\ Idle \notin Sessions
    /\ MaxNumber \in Nat /\ Day \in Nat /\ Grace \in Nat /\ Cap \in Nat
    /\ MaxNow \in Nat /\ MaxEvents \in Nat

VARIABLES
    user,    \* the standard subscription: end, limit, devices, banned
    serves,  \* is_active of the VLESS subscription
    wi,      \* the White Internet subscription
    purse,   \* bonus balance
    keys,    \* admin_operation_idempotency, and the keys of adjustments
    screen,  \* per admin: the buttons shown
    form,    \* per admin: the conversation
    task,    \* per session: the tap it handles
    held,    \* the session that holds the user's row, or Idle
    now,
    talks,   \* adjustment ids and tokens handed out
    due, wiDue, cut, taken,   \* history: see below
    events

vars == <<user, serves, wi, purse, keys, screen, form, task, held, now, talks,
          due, wiDue, cut, taken, events>>
money == <<purse, keys>>
history == <<due, wiDue, cut, taken>>

Event(kind) == kind \in Kinds /\ events < MaxEvents /\ events' = events + 1

NoForm == [state |-> "none", n |-> 0, lim |-> 0, adj |-> 0]
Button(op, n, lim, token) == [op |-> op, n |-> n, lim |-> lim, token |-> token]

Shows(a, buttons) == screen' = [screen EXCEPT ![a] = buttons]
Forgets(a) == form' = [form EXCEPT ![a] = NoForm]

-----------------------------------------------------------------------------
\* check_vpn_access.
Access(banned, end) == ~banned /\ end + Grace >= now

IsActive(end) == end > now

Larger(x, y) == IF x > y THEN x ELSE y

\* resolve_subscription_end: an end in the past counts from now.
EndAfter(end, days) == Larger(end, now) + days * Day

\* calculate_extension_end of White Internet is the same rule.
WiEndAfter(end, days) == Larger(end, now) + days * Day

Paid == wi.kind = "paid"

-----------------------------------------------------------------------------
\* Cards.  What a card needs is asked again when its button is handled.
Shown(kind, a, buttons) ==
    /\ Event(kind) /\ Shows(a, buttons)
    /\ UNCHANGED <<user, serves, wi, money, task, held, now, history>>

Open(kind, a, buttons) == Shown(kind, a, buttons) /\ UNCHANGED <<form, talks>>

Menu(a) == screen[a] # {} /\ Open("std", a, {})

ExtendCard(a, days) ==
    /\ days \in 1..MaxNumber /\ Open("std", a, {Button("extend", days, 0, 0)})

GrantMenu(a) == ~user.banned /\ Menu(a)

GrantGroup(a, lim) == lim \in Limits /\ Menu(a)

GrantCard(a, days, lim) ==
    /\ days \in 1..MaxNumber /\ Open("std", a, {Button("grant", days, lim, 0)})

ChangeCard(a, lim) ==
    /\ user.devices <= lim /\ user.limit # lim
    /\ Open("std", a, {Button("change", 0, lim, 0)})

\* The forms that ask for a number of days.
Asks(kind, a, state, lim) ==
    /\ Shown(kind, a, {}) /\ UNCHANGED talks
    /\ form' = [form EXCEPT ![a] = [state |-> state, n |-> 0, lim |-> lim, adj |-> 0]]

AskExtend(a) == Asks("std", a, "extend", 0)
AskGrant(a, lim) == Asks("std", a, "grant", lim)
AskReduce(a) == Asks("std", a, "reduce", 0)
AskWiExtend(a) == Paid /\ Asks("wi", a, "wi_extend", 0)

\* The typed number ends the form.
Types(a, state, n, token) ==
    /\ form[a].state = state /\ n \in 1..MaxNumber
    /\ Shows(a, {Button(state, n, form[a].lim, token)}) /\ Forgets(a)
    /\ UNCHANGED <<user, serves, wi, money, task, held, now, history, events>>

TypeExtend(a, n) == Types(a, "extend", n, 0) /\ UNCHANGED talks
TypeGrant(a, n) == Types(a, "grant", n, 0) /\ UNCHANGED talks
TypeReduce(a, n) == Types(a, "reduce", n, 0) /\ UNCHANGED talks

\* A White Internet extension gets a token for each card.
TypeWiExtend(a, n) ==
    /\ ~user.banned /\ Paid
    /\ Types(a, "wi_extend", n, talks + 1) /\ talks' = talks + 1

WiExtendCard(a, n) ==
    /\ ~user.banned /\ Paid /\ n \in 1..MaxNumber
    /\ Shown("wi", a, {Button("wi_extend", n, 0, talks + 1)}) /\ talks' = talks + 1
    /\ UNCHANGED form

\* The menus of White Internet that end a conversation, too.
WiMenu(a) == Shown("wi", a, {}) /\ Forgets(a) /\ UNCHANGED talks
WiExtendMenu(a) == Paid /\ Shown("wi", a, {}) /\ Forgets(a) /\ UNCHANGED talks

TrafficMenu(a) == Paid /\ Open("wi", a, {Button("traffic", n, 0, 0) : n \in Numbers})
QuotaMenu(a) == Paid /\ Open("wi", a, {Button("quota", n, 0, 0) : n \in Numbers})
LimitMenu(a) == Paid /\ Open("wi", a, {Button("limit", 0, l, 0) : l \in Limits})
TrafficResetCard(a) == Paid /\ Open("wi", a, {Button("traffic_reset", 0, 0, 0)})
SeatsResetCard(a) == Open("wi", a, {Button("seats_reset", 0, 0, 0)})
TokenResetCard(a) == Open("wi", a, {Button("token_reset", 0, 0, 0)})
TrialResetCard(a) == Open("wi", a, {Button("trial_reset", 0, 0, 0)})
TrialMenu(a) == wi.kind = "none" /\ Open("wi", a, {Button("trial", 0, 0, 0)})

\* The balance: presets, or a conversation of amount and reason.
BalanceMenu(a) ==
    /\ Shown("bal", a, {Button("preset", n, 0, 0) : n \in Numbers}) /\ Forgets(a)
    /\ UNCHANGED talks

AskTopup(a) == Asks("bal", a, "topup", 0)
AskDeduct(a) == Asks("bal", a, "deduct", 0)

Amount(a, signed) ==
    /\ form' = [form EXCEPT ![a].state = "reason", ![a].n = signed]
    /\ UNCHANGED <<user, serves, wi, money, screen, task, held, now, talks, history, events>>

TypeTopup(a, n) == form[a].state = "topup" /\ n \in 1..MaxNumber /\ Amount(a, n)

\* Without the money the conversation ends.
TypeDeduct(a, n) ==
    /\ form[a].state = "deduct" /\ n \in 1..MaxNumber
    /\ \/ n <= purse /\ Amount(a, -n)
       \/ /\ n > purse /\ Forgets(a)
          /\ UNCHANGED <<user, serves, wi, money, screen, task, held, now, talks, history, events>>

\* The reason completes the form and names the adjustment.
TypeReason(a) ==
    /\ form[a].state = "reason"
    /\ form' = [form EXCEPT ![a].state = "confirm", ![a].adj = talks + 1]
    /\ Shows(a, {Button("adjust", 0, 0, 0)}) /\ talks' = talks + 1
    /\ UNCHANGED <<user, serves, wi, money, task, held, now, history, events>>

-----------------------------------------------------------------------------
\* A tap, and the handler that gets it.
Tap(a, s, b) ==
    /\ task[s] = Idle /\ b \in screen[a] /\ Event("tap")
    /\ task' = [task EXCEPT ![s] = [admin |-> a, stage |-> "tapped", b |-> b, copy |-> Idle,
                                    form |-> NoForm, new |-> Idle, at |-> 0]]
    /\ UNCHANGED <<user, serves, wi, money, screen, form, held, now, talks, history>>

\* ActionLockMiddleware refuses a tap while a handler of the same administrator runs.
Busy(a) == \E s \in Sessions : task[s] # Idle /\ task[s].admin = a /\ task[s].stage = "read"

Standard == {"extend", "grant", "change", "reduce"}

\* What the handlers check in their unlocked copy.
Allowed(b) ==
    CASE b.op \in {"extend", "grant"} -> ~user.banned
      [] b.op = "change"  -> ~user.banned /\ IsActive(user.end) /\ user.devices <= b.lim
      [] b.op = "reduce"  -> TRUE
      [] b.op = "wi_extend" -> Paid /\ ~user.banned
      [] b.op \in {"traffic", "traffic_reset", "quota", "limit"} -> Paid
      [] b.op \in {"seats_reset", "token_reset", "trial_reset"} -> wi.kind # "none"
      [] b.op = "trial" -> wi.kind = "none"
      [] b.op = "adjust" -> TRUE
      [] OTHER -> TRUE

Ends(s) == task' = [task EXCEPT ![s] = Idle]

Reads(s) ==
    /\ task[s] # Idle /\ task[s].stage = "tapped"
    /\ IF Busy(task[s].admin) \/ ~Allowed(task[s].b) THEN Ends(s)
       ELSE task' = [task EXCEPT ![s].stage = "read",
                                 ![s].copy = IF task[s].b.op \in Standard THEN user ELSE wi,
                                 ![s].form = form[task[s].admin]]
    /\ UNCHANGED <<user, serves, wi, money, screen, form, held, now, talks, history, events>>

Handling(s, ops) == task[s] # Idle /\ task[s].stage = "read" /\ task[s].b.op \in ops

-----------------------------------------------------------------------------
\* The standard subscription.  extend_subscription locks the row and goes on
\* with the attributes of the copy that the handler had loaded before.
Extended(t) ==
    [t.copy EXCEPT !.end = IF t.b.n = 0 THEN @ ELSE EndAfter(@, t.b.n),
                   !.limit = IF t.b.lim = 0 THEN @ ELSE t.b.lim]

\* Variant: the devices were counted when the handler started.
FitsCopy(t) == t.b.lim = 0 \/ t.copy.devices <= t.b.lim

\* The devices are counted under the lock.
Fits(t) == t.b.lim = 0 \/ user.devices <= t.b.lim

\* An end at which the grace is over, too.
Cutoff == now - (Grace + 1)

\* The reduction reads the row with its lock, never before.
Reduced(t) ==
    LET end == user.end - t.b.n * Day
    IN  [user EXCEPT !.end = IF end <= now THEN Cutoff ELSE end]

Writes(s, new, copy) ==
    /\ held' = s /\ Shows(task[s].admin, {})
    /\ task' = [task EXCEPT ![s].stage = "written", ![s].new = new, ![s].copy = copy, ![s].at = now]
    /\ UNCHANGED <<user, serves, wi, money, form, now, talks, history, events>>

Fails(s) ==
    /\ Ends(s)
    /\ UNCHANGED <<user, serves, wi, money, screen, form, held, now, talks, history, events>>

Applies(s) ==
    /\ held = Idle
    /\ IF Fits(task[s]) THEN Writes(s, Extended(task[s]), task[s].copy) ELSE Fails(s)

Extends(s) == Handling(s, {"extend"}) /\ Applies(s)
Grants(s) == Handling(s, {"grant"}) /\ Applies(s)
Changes(s) == Handling(s, {"change"}) /\ Applies(s)

Reduces(s) ==
    /\ Handling(s, {"reduce"}) /\ held = Idle
    /\ IF user.banned THEN Fails(s) ELSE Writes(s, Reduced(task[s]), user)

\* The columns that differ from the copy are written.
Flushed(t) ==
    [user EXCEPT !.end = IF t.new.end # t.copy.end THEN t.new.end ELSE @,
                 !.limit = IF t.new.limit # t.copy.limit THEN t.new.limit ELSE @]

Commits(s) ==
    /\ task[s] # Idle /\ task[s].stage = "written"
    /\ user' = Flushed(task[s])
    /\ serves' = Access(task[s].new.banned, task[s].new.end)
    /\ held' = Idle /\ Ends(s)
    /\ LET t == task[s] IN
         /\ due' = IF t.b.op = "reduce" THEN user'.end
                   ELSE IF t.b.n = 0 THEN due ELSE Larger(due, t.at) + t.b.n * Day
         /\ cut' = (t.b.op = "reduce" /\ user.end - t.b.n * Day <= t.at)
    /\ UNCHANGED <<wi, money, screen, form, now, talks, wiDue, taken, events>>

\* The connection is lost before the commit.
Rollback(s) ==
    /\ Event("fail") /\ task[s] # Idle /\ task[s].stage = "written"
    /\ held' = Idle /\ Ends(s)
    /\ UNCHANGED <<user, serves, wi, money, screen, form, now, talks, history>>

-----------------------------------------------------------------------------
\* White Internet: the row is read anew under its lock.
\* Variant: the row is used as the handler had read it.
AsRead(t) == t.copy

\* populate_existing.
Fresh(t) == wi

\* make_admin_op_key: of an extension with its token, of traffic without one.
\* The message stays the same while it is edited.
OpKey(t) == <<t.b.op, t.admin, t.b.n, t.b.token>>

\* Variant: the key is recorded and its answer ignored.
Always(t) == TRUE

\* check_and_record_admin_op.
IsNew(t) == OpKey(t) \notin keys

Records(s) ==
    keys' = keys \cup {OpKey(task[s])} /\ taken' = Append(taken, OpKey(task[s]))

\* A new period clears what was bought for the old one.
WiExtended(t) ==
    LET renews == ~IsActive(Fresh(t).end) \/ Fresh(t).status = "expired"
    IN  [Fresh(t) EXCEPT !.end = WiEndAfter(@, t.b.n), !.status = "active",
                         !.extra = IF renews THEN 0 ELSE @, !.used = @ /\ ~renews]

Done(s) == Ends(s) /\ Shows(task[s].admin, {})

WiExtends(s) ==
    /\ Handling(s, {"wi_extend"}) /\ IsNew(task[s]) /\ Paid /\ wi.status # "disabled"
    /\ wi' = WiExtended(task[s]) /\ Records(s) /\ Done(s)
    /\ wiDue' = Larger(wiDue, now) + task[s].b.n * Day
    /\ UNCHANGED <<user, serves, purse, form, held, now, talks, due, cut, events>>

\* The other buttons change the row, and show the menu again.
WiChanges(s, new) ==
    /\ Done(s) /\ wi' = new
    /\ UNCHANGED <<user, serves, purse, form, held, now, talks, due, wiDue, cut, events>>

Plain(s, new) == WiChanges(s, new) /\ UNCHANGED <<keys, taken>>

\* More traffic wakes up an exhausted subscription, if it is enough.
Woken(new) ==
    IF new.status = "exhausted" THEN {new, [new EXCEPT !.status = "active", !.used = FALSE]}
                                ELSE {new}

Open4Traffic == Paid /\ wi.status \in {"active", "exhausted"}

\* A number is added once from one message, however often its button is meant.
TrafficAdds(s) ==
    /\ Handling(s, {"traffic"}) /\ IsNew(task[s]) /\ Open4Traffic
    /\ wi.extra + task[s].b.n <= wi.limit * Cap
    /\ Records(s)
    /\ \E new \in Woken([wi EXCEPT !.extra = @ + task[s].b.n]) : WiChanges(s, new)

TrafficResets(s) ==
    /\ Handling(s, {"traffic_reset"}) /\ Open4Traffic
    /\ Plain(s, [wi EXCEPT !.status = "active", !.used = FALSE])

QuotaSets(s) ==
    /\ Handling(s, {"quota"}) /\ Open4Traffic /\ task[s].b.n <= wi.limit * Cap
    /\ \E new \in Woken([wi EXCEPT !.quota = task[s].b.n]) : Plain(s, new)

\* These lock without reading anew: a seat taken meanwhile is not in the copy.
Emptied(t, most) == IF t.copy.seats > most THEN most ELSE wi.seats

LimitSets(s) ==
    LET lim == task[s].b.lim IN
    /\ Handling(s, {"limit"}) /\ Paid
    /\ Plain(s, [wi EXCEPT !.limit = lim, !.seats = Emptied(task[s], lim),
                           !.extra = IF task[s].copy.extra > lim * Cap THEN lim * Cap ELSE @])

SeatsReset(s) ==
    /\ Handling(s, {"seats_reset"}) /\ Plain(s, [wi EXCEPT !.seats = Emptied(task[s], 0)])

TokenResets(s) ==
    /\ Handling(s, {"token_reset"})
    /\ Plain(s, [wi EXCEPT !.seats = Emptied(task[s], 0), !.link = 1 - @])

\* Only a trial is taken away; the worker deletes its row.
TrialResets(s) ==
    /\ Handling(s, {"trial_reset"})
    /\ Plain(s, IF wi.kind = "trial" THEN [wi EXCEPT !.status = "disabled"] ELSE wi)

TrialGrants(s) ==
    /\ Handling(s, {"trial"}) /\ wi.kind = "none" /\ ~user.banned
    /\ Plain(s, [wi EXCEPT !.kind = "trial", !.status = "active", !.end = now + Day, !.limit = 1,
                           !.seats = 0, !.extra = 0, !.used = FALSE])

-----------------------------------------------------------------------------
\* The bonus balance.
Credits(s, n, key) ==
    /\ purse' = purse + n /\ keys' = keys \cup {key} /\ taken' = Append(taken, key)
    /\ UNCHANGED <<user, serves, wi, held, now, talks, due, wiDue, cut, events>>

Presets(s) ==
    /\ Handling(s, {"preset"}) /\ IsNew(task[s])
    /\ Credits(s, task[s].b.n, OpKey(task[s])) /\ Ends(s) /\ UNCHANGED <<screen, form>>

AdjKey(t) == <<"adj", t.form.adj>>

\* A deduction looks at the balance under the lock.
Covers(t) == t.form.adj # 0 /\ purse + t.form.n >= 0

\* The adjustment carries its own key.  The conversation ends in any case.
Adjusts(s) ==
    /\ Handling(s, {"adjust"}) /\ Forgets(task[s].admin) /\ Ends(s)
    /\ IF Covers(task[s]) /\ AdjKey(task[s]) \notin keys
       THEN Credits(s, task[s].form.n, AdjKey(task[s])) /\ Shows(task[s].admin, {})
       ELSE UNCHANGED <<user, serves, wi, money, screen, held, now, talks, history, events>>

\* A handler that is refused under the lock changes nothing.
Refused(s) ==
    \/ Handling(s, {"wi_extend"}) /\ (~IsNew(task[s]) \/ ~Paid \/ wi.status = "disabled") /\ Fails(s)
    \/ Handling(s, {"traffic"}) /\ (~IsNew(task[s]) \/ ~Open4Traffic
                                     \/ wi.extra + task[s].b.n > wi.limit * Cap) /\ Fails(s)
    \/ Handling(s, {"traffic_reset"}) /\ ~Open4Traffic /\ Fails(s)
    \/ Handling(s, {"quota"}) /\ ~(Open4Traffic /\ task[s].b.n <= wi.limit * Cap) /\ Fails(s)
    \/ Handling(s, {"limit"}) /\ ~Paid /\ Fails(s)
    \/ Handling(s, {"trial"}) /\ ~(wi.kind = "none" /\ ~user.banned) /\ Fails(s)
    \/ Handling(s, {"preset"}) /\ ~IsNew(task[s]) /\ Fails(s)

-----------------------------------------------------------------------------
\* What others do to the user: they read the row with its lock.
Elsewhere(kind) == Event(kind) /\ held = Idle /\ UNCHANGED <<money, screen, form, task, held, talks, taken>>

\* A paid renewal.
Renewal(days) ==
    /\ Elsewhere("renewal") /\ ~user.banned
    /\ user' = [user EXCEPT !.end = EndAfter(@, days)]
    /\ serves' = Access(FALSE, user'.end)
    /\ due' = Larger(due, now) + days * Day /\ cut' = FALSE
    /\ UNCHANGED <<wi, now, wiDue>>

BanOrUnban ==
    /\ Elsewhere("ban")
    /\ user' = [user EXCEPT !.banned = ~@]
    /\ serves' = Access(user'.banned, user.end)
    /\ UNCHANGED <<wi, now, due, wiDue, cut>>

\* A device takes a place under the lock of the user, or gives one up.
Device(n) ==
    /\ Elsewhere("device") /\ n \in 0..user.limit /\ n # user.devices
    /\ user' = [user EXCEPT !.devices = n]
    /\ UNCHANGED <<serves, wi, now, due, wiDue, cut>>

\* The White Internet row changes elsewhere: a renewal, a seat, its end.
WiElsewhere ==
    /\ Elsewhere("wi") /\ wi.kind # "none"
    /\ \/ /\ Paid /\ wi.status # "disabled"
          /\ wi' = [wi EXCEPT !.end = WiEndAfter(@, 1), !.status = "active"]
          /\ wiDue' = Larger(wiDue, now) + Day
       \/ wi.seats < wi.limit /\ wi' = [wi EXCEPT !.seats = @ + 1] /\ UNCHANGED wiDue
       \/ wi.status = "active" /\ wi' = [wi EXCEPT !.status = "exhausted", !.used = TRUE] /\ UNCHANGED wiDue
       \/ wi.status = "disabled" /\ wi' = [wi EXCEPT !.kind = "none"] /\ UNCHANGED wiDue
    /\ UNCHANGED <<user, serves, now, due, cut>>

Tick ==
    /\ now < MaxNow /\ now' = now + 1
    /\ serves' = (serves /\ ~user.banned /\ user.end + Grace >= now')
    /\ wi' = [wi EXCEPT !.status = IF @ # "disabled" /\ wi.end <= now' THEN "expired" ELSE @]
    /\ UNCHANGED <<user, money, screen, form, task, held, talks, history, events>>

Init ==
    /\ user \in [end : {0, 2 * Day}, limit : Limits, devices : {0, 1}, banned : {FALSE}]
    /\ user.devices <= user.limit
    /\ now = Grace + 2
    /\ serves = Access(user.banned, user.end)
    /\ wi \in [kind : {"none", "paid", "trial"}, status : {"active"}, end : {2 * Day}, extra : {0},
              quota : {1}, limit : {1}, seats : {0}, link : {0}, used : {FALSE}]
    /\ purse = 0 /\ keys = {} /\ screen = [a \in Admins |-> {}]
    /\ form = [a \in Admins |-> NoForm] /\ task = [s \in Sessions |-> Idle] /\ held = Idle
    /\ talks = 0 /\ due = user.end /\ wiDue = wi.end /\ cut = FALSE /\ taken = <<>> /\ events = 0

Next ==
    \/ \E a \in Admins :
         \/ Menu(a) \/ GrantMenu(a) \/ AskExtend(a) \/ AskReduce(a) \/ AskWiExtend(a)
         \/ WiMenu(a) \/ WiExtendMenu(a) \/ TrafficMenu(a) \/ QuotaMenu(a) \/ LimitMenu(a)
         \/ TrafficResetCard(a) \/ SeatsResetCard(a) \/ TokenResetCard(a) \/ TrialResetCard(a)
         \/ TrialMenu(a) \/ BalanceMenu(a) \/ AskTopup(a) \/ AskDeduct(a) \/ TypeReason(a)
         \/ \E n \in Numbers :
              \/ ExtendCard(a, n) \/ TypeExtend(a, n) \/ TypeGrant(a, n) \/ TypeReduce(a, n)
              \/ TypeWiExtend(a, n) \/ WiExtendCard(a, n) \/ TypeTopup(a, n) \/ TypeDeduct(a, n)
         \/ \E l \in Limits : GrantGroup(a, l) \/ ChangeCard(a, l) \/ AskGrant(a, l)
         \/ \E n \in Numbers, l \in Limits : GrantCard(a, n, l)
         \/ \E s \in Sessions, b \in screen[a] : Tap(a, s, b)
    \/ \E s \in Sessions :
         \/ Reads(s) \/ Extends(s) \/ Grants(s) \/ Changes(s) \/ Reduces(s) \/ Commits(s) \/ Rollback(s) \/ WiExtends(s)
         \/ TrafficAdds(s) \/ TrafficResets(s) \/ QuotaSets(s) \/ LimitSets(s) \/ SeatsReset(s)
         \/ TokenResets(s) \/ TrialResets(s) \/ TrialGrants(s) \/ Presets(s) \/ Adjusts(s) \/ Refused(s)
    \/ \E n \in Numbers : Renewal(n)
    \/ \E n \in 0..3 : Device(n)
    \/ BanOrUnban \/ WiElsewhere \/ Tick

Spec == Init /\ [][Next]_vars

-----------------------------------------------------------------------------
Users == [end : Int, limit : Limits, devices : Nat, banned : BOOLEAN]
Whites ==
    [kind : {"none", "trial", "paid"}, status : {"active", "exhausted", "expired", "disabled"},
     end : Int, extra : Nat, quota : Nat, limit : Nat, seats : Nat, link : {0, 1}, used : BOOLEAN]
Ops == Standard \cup {"wi_extend", "traffic", "traffic_reset", "quota", "limit", "seats_reset",
                      "token_reset", "trial_reset", "trial", "preset", "adjust"}
Buttons == [op : Ops, n : Nat, lim : Limits \cup {0}, token : Nat]
Forms ==
    [state : {"none", "extend", "grant", "reduce", "wi_extend", "topup", "deduct", "reason", "confirm"},
     n : Int, lim : Limits \cup {0}, adj : Nat]
Tasks ==
    [admin : Admins, stage : {"tapped", "read", "written"}, b : Buttons,
     copy : Users \cup Whites \cup {Idle}, form : Forms, new : Users \cup {Idle}, at : Nat]

\* Rows, cards, conversations and taps; the balance is not overdrawn.
TypeOK ==
    /\ user \in Users /\ serves \in BOOLEAN /\ wi \in Whites /\ purse \in Nat
    /\ screen \in [Admins -> SUBSET Buttons] /\ form \in [Admins -> Forms]
    /\ task \in [Sessions -> Tasks \cup {Idle}] /\ held \in Sessions \cup {Idle}
    /\ taken \in Seq(keys) /\ now \in Nat /\ talks \in Nat /\ wiDue \in Int /\ cut \in BOOLEAN
    /\ events \in 0..MaxEvents

\* extend_subscription: no change of tariff leaves more devices than its limit,
\* although the cards count them long before the change is applied.
DevicesFit == user.devices <= user.limit

\* admin_sub_apply_reduce: a subscription reduced to the past gives no access
\* any more, the grace included.
ReducedIsCut == cut => ~serves /\ ~Access(user.banned, user.end)

\* What administrators and payments leave of the standard subscription.
StandardFits == DevicesFit /\ ReducedIsCut

\* check_and_record_admin_op: one card with its token, and one message with
\* its number, take effect once, however often and late their buttons are tapped.
OncePerKey == \A i, j \in DOMAIN taken : taken[i] = taken[j] => i = j

\* extend_subscription_atomic: every accepted extension of White Internet, an
\* administrator's or a paid one, adds its days to the end the others left.
WiExtensionsCount == wi.kind = "paid" => wi.end = wiDue

\* extend_subscription of the standard subscription: "an extension always adds
\* its days to the current end".
EveryExtensionCounts == user.end >= due

==============================================================================
