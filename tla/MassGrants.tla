------------------------------ MODULE MassGrants ------------------------------
(***************************************************************************)
(* The two campaigns of the admin menu: extending every subscription of an *)
(* audience by some days, and crediting a bonus to every member of one.    *)
(* An admin walks through a form; its last card has the button that starts *)
(* a background task, which works off the audience in chunks.  A crash     *)
(* ends every task, guard and lock; the forms are kept in Redis.           *)
(***************************************************************************)
EXTENDS Naturals, FiniteSets, Sequences

CONSTANTS
    Users, Admins,
    Audiences,   \* of both menus, e.g. active_standard active_wi active_all server
    ServerCaps,  \* capabilities of the server of audience "server"
    Numbers,     \* what an admin may pick or type for days or roubles
    MaxDays,     \* 365 in the code
    MaxAmount,   \* 100000 in the code
    ChunkSize,   \* 50 in the code
    Runs,        \* bound on the tasks ever started
    Kinds,       \* operations of an instance
    MaxEvents,   \* bound on their number
    Idle

VARIABLES
    person,  \* per user: standard and White Internet active, devices seen at the node, out
    form,    \* per admin: the conversation
    click,   \* per admin: apply handlers between their check and their claim
    busy,    \* _mass_extend_in_progress and _mass_bonus_in_progress
    lock,    \* action locks held
    run,     \* the background tasks
    talks,   \* history: conversations begun
    chosen,  \* history: per admin what was picked since the form was opened
    events

vars == <<person, form, click, busy, lock, run, talks, chosen, events>>

Event(kind) == kind \in Kinds /\ events < MaxEvents /\ events' = events + 1
Unset == 0
Blank == [state |-> "none", aud |-> Idle, days |-> Unset, amount |-> Unset, talk |-> 0]
Nothing == [aud |-> {}, days |-> {}]

-----------------------------------------------------------------------------
\* Audiences.
ExtendAudience(aud) ==
    {u \in Users : /\ ~person[u].out
                   /\ CASE aud = "active_wi"  -> person[u].wi
                        [] aud = "active_all" -> person[u].std \/ person[u].wi
                        [] aud = "server"     -> \/ "vless" \in ServerCaps /\ person[u].std /\ person[u].seen
                                                 \/ "origin" \in ServerCaps /\ person[u].wi
                        [] OTHER              -> person[u].std}

\* The server of a bonus, by its id: the task asks for traffic, too (the card
\* asks by the row, and counts who has devices without traffic as well).
ServerAudience(u) ==
    \/ "vless" \in ServerCaps /\ person[u].std /\ person[u].seen
    \/ "origin" \in ServerCaps /\ person[u].wi

BonusAudience(aud) ==
    {u \in Users : /\ ~person[u].out
                   /\ CASE aud = "server"  -> ServerAudience(u)
                        [] aud = "active"  -> person[u].std \/ person[u].wi
                        [] aud = "expired" -> ~person[u].std /\ ~person[u].wi
                        [] OTHER           -> TRUE}

-----------------------------------------------------------------------------
\* Opening either form forgets the conversation.
Opened(a) ==
    /\ form' = [form EXCEPT ![a] = [Blank EXCEPT !.talk = talks + 1]]
    /\ talks' = talks + 1
    /\ chosen' = [chosen EXCEPT ![a] = Nothing]

StartExtend(a) ==
    /\ Event("open") /\ Opened(a) /\ UNCHANGED <<person, click, busy, lock, run>>

StartBonus(a) ==
    /\ Event("open") /\ Opened(a) /\ UNCHANGED <<person, click, busy, lock, run>>

\* Picking an audience of the extension leaves the state of the conversation alone.
PickExtendAudience(a, aud) ==
    /\ Event("pick") /\ form' = [form EXCEPT ![a].aud = aud]
    /\ chosen' = [chosen EXCEPT ![a].aud = @ \cup {aud}]
    /\ UNCHANGED <<person, click, busy, lock, run, talks>>

PickBonusAudience(a, aud) ==
    /\ Event("pick") /\ form' = [form EXCEPT ![a].aud = aud, ![a].state = "amount"]
    /\ chosen' = [chosen EXCEPT ![a].aud = @ \cup {aud}]
    /\ UNCHANGED <<person, click, busy, lock, run, talks>>

\* A card of the extension shows what the form holds, or the defaults.
ExtendCard(a, days) == form' = [form EXCEPT ![a].days = days, ![a].state = "confirm"]

Chose(a, days) == chosen' = [chosen EXCEPT ![a].days = @ \cup {days}]

\* A number of days from the keyboard, or the wish to type one.
PickDays(a, days) ==
    /\ Event("pick") /\ days \in 1..MaxDays
    /\ ExtendCard(a, days) /\ Chose(a, days)
    /\ UNCHANGED <<person, click, busy, lock, run, talks>>

CustomDays(a) ==
    /\ Event("pick") /\ form' = [form EXCEPT ![a].state = "days"]
    /\ UNCHANGED <<person, click, busy, lock, run, talks, chosen>>

\* A typed one; what is out of range is asked for again.
TypeDays(a, days) ==
    /\ form[a].state = "days" /\ days \in 1..MaxDays
    /\ ExtendCard(a, days) /\ Chose(a, days)
    /\ UNCHANGED <<person, click, busy, lock, run, talks, events>>

EditReason(a) ==
    /\ Event("pick") /\ form' = [form EXCEPT ![a].state = "reason"]
    /\ UNCHANGED <<person, click, busy, lock, run, talks, chosen>>

\* The buttons that show the card again put the default of a missing number on
\* it without storing it.
CardAgain(a) == form' = [form EXCEPT ![a].state = "confirm"]

SkipReason(a) ==
    /\ Event("again") /\ CardAgain(a) /\ UNCHANGED <<person, click, busy, lock, run, talks, chosen>>

BackToConfirm(a) ==
    /\ Event("again") /\ CardAgain(a) /\ UNCHANGED <<person, click, busy, lock, run, talks, chosen>>

TypeReason(a) ==
    /\ form[a].state = "reason" /\ CardAgain(a)
    /\ UNCHANGED <<person, click, busy, lock, run, talks, chosen, events>>

\* A command cancels the form.
Cancel(a) ==
    /\ form[a].state \in {"days", "reason", "bonus_reason"} /\ Event("cancel") /\ Opened(a)
    /\ UNCHANGED <<person, click, busy, lock, run>>

TypeAmount(a, n) ==
    /\ form[a].state = "amount" /\ n \in 1..MaxAmount
    /\ form' = [form EXCEPT ![a].amount = n, ![a].state = "bonus_reason"]
    /\ UNCHANGED <<person, click, busy, lock, run, talks, chosen, events>>

\* The reason of a bonus completes its form; the card counts the audience.
TypeBonusReason(a) ==
    /\ form[a].state = "bonus_reason"
    /\ form' = [form EXCEPT ![a].state = "bonus_confirm"]
    /\ UNCHANGED <<person, click, busy, lock, run, talks, chosen, events>>

-----------------------------------------------------------------------------
\* Variant: what is missing is replaced by its default.
Defaulted(f) == TRUE

\* A conversation that says whom to extend, and by how many days.
Complete(f) == f.aud # Idle /\ f.days # Unset

\* apply_mass_extend: its check, and then the wait for Telegram to take the
\* keyboard away, during which other clicks are handled.
ExtendAsks(a) ==
    /\ Event("apply") /\ form[a].state = "confirm" /\ busy.extend = {}
    /\ IF Complete(form[a])
       THEN /\ click' = [click EXCEPT ![a] = Append(@, [of |-> form[a], picked |-> chosen[a]])]
            /\ UNCHANGED <<form, talks, chosen>>
       ELSE Opened(a) /\ UNCHANGED click
    /\ UNCHANGED <<person, busy, lock, run>>

Task(kind, a, c, n) ==
    [kind |-> kind, admin |-> a, talk |-> c.of.talk, aud |-> c.of.aud, n |-> n,
     phase |-> "new", todo |-> {}, given |-> {}, picked |-> c.picked]

FreeRuns == {r \in Runs : run[r] = Idle}

\* The claim, the end of the conversation and the task of its own.
ExtendStarts(a, r) ==
    /\ click[a] # <<>> /\ r \in FreeRuns
    /\ run' = [run EXCEPT ![r] = Task("extend", a, Head(click[a]), Head(click[a]).of.days)]
    /\ click' = [click EXCEPT ![a] = Tail(@)]
    /\ busy' = [busy EXCEPT !.extend = @ \cup {a}]
    /\ Opened(a)
    /\ UNCHANGED <<person, lock, events>>

\* Telegram refuses an answer or the new text: the claim is given back.
ExtendBreaks(a) ==
    /\ Event("refuse") /\ click[a] # <<>>
    /\ click' = [click EXCEPT ![a] = Tail(@)]
    /\ busy' = [busy EXCEPT !.extend = @ \ {a}]
    /\ Opened(a)
    /\ UNCHANGED <<person, lock, run>>

\* A click on a confirmation button without a conversation that waits for it.
StaleConfirm(a) ==
    /\ Event("apply") /\ form[a].state # "confirm" /\ Opened(a)
    /\ UNCHANGED <<person, click, busy, lock, run>>

\* ActionLockMiddleware: this button waits for no handler of the same admin.
Unlocked(a) == lock[a] = Idle

\* apply_mass_bonus claims before its first wait.
BonusClaims(a) ==
    /\ Event("bonus") /\ Unlocked(a) /\ a \notin busy.bonus
    /\ busy' = [busy EXCEPT !.bonus = @ \cup {a}]
    /\ lock' = [lock EXCEPT ![a] = [of |-> form[a], picked |-> chosen[a]]]
    /\ UNCHANGED <<person, form, click, run, talks, chosen>>

\* The conversation ends with the click that confirms it.
Closed(a) == Opened(a)

BonusStarts(a, r) ==
    /\ lock[a] # Idle /\ r \in FreeRuns
    /\ run' = [run EXCEPT ![r] = Task("bonus", a, lock[a], lock[a].of.amount)]
    /\ lock' = [lock EXCEPT ![a] = Idle] /\ Closed(a)
    /\ UNCHANGED <<person, click, busy, events>>

\* Telegram refuses the answer to the click: the conversation is over, the
\* lock released, and the claim stays.
BonusBreaks(a) ==
    /\ Event("refuse") /\ lock[a] # Idle
    /\ lock' = [lock EXCEPT ![a] = Idle] /\ Closed(a)
    /\ UNCHANGED <<person, click, busy, run>>

-----------------------------------------------------------------------------
\* The tasks.  The audience is read once.
Selects(r) ==
    /\ run[r] # Idle /\ run[r].phase = "new"
    /\ run' = [run EXCEPT ![r].phase = "work",
               ![r].todo = IF run[r].kind = "extend" THEN ExtendAudience(run[r].aud)
                                                     ELSE BonusAudience(run[r].aud)]
    /\ UNCHANGED <<person, form, click, busy, lock, talks, chosen, events>>

\* What a user of the audience is given when the turn comes: every condition
\* is checked again.
Extends(r, u) ==
    LET std == IF person[u].std THEN {"std"} ELSE {}
        wi == IF person[u].wi THEN {"wi"} ELSE {}
        due == CASE run[r].aud = "active_standard" -> std
                 [] run[r].aud = "active_wi" -> wi
                 [] run[r].aud = "active_all" -> std \cup wi
                 [] run[r].aud = "server" /\ "origin" \in ServerCaps -> wi
                 [] run[r].aud = "server" /\ "origin" \notin ServerCaps /\ "vless" \in ServerCaps -> std
                 [] OTHER -> {}
    IN IF person[u].out THEN {} ELSE due

\* A bonus that is not positive is refused by the ledger.
Credits(r) == IF run[r].n = Unset THEN {} ELSE {"bonus"}

Given(r, u) == IF run[r].kind = "extend" THEN Extends(r, u) ELSE Credits(r)

\* One chunk commits; a user whose savepoint fails is passed over.
Chunk(r, C, failed) ==
    /\ run[r] # Idle /\ run[r].phase = "work" /\ C \subseteq run[r].todo
    /\ C # {} /\ (Cardinality(C) = ChunkSize \/ (C = run[r].todo /\ Cardinality(C) < ChunkSize))
    /\ failed \subseteq C
    /\ run' = [run EXCEPT ![r].todo = @ \ C,
               ![r].given = @ \cup UNION {{<<u, part>> : part \in Given(r, u)} : u \in C \ failed}]
    /\ UNCHANGED <<person, form, click, busy, lock, talks, chosen, events>>

\* The claim is given up at the end, whatever the end is.
Released(r) ==
    IF run[r].kind = "extend" THEN [busy EXCEPT !.extend = @ \ {run[r].admin}]
                              ELSE [busy EXCEPT !.bonus = @ \ {run[r].admin}]

Finish(r) ==
    /\ run[r] # Idle /\ run[r].phase = "work" /\ run[r].todo = {}
    /\ run' = [run EXCEPT ![r].phase = "over"]
    /\ busy' = Released(r)
    /\ UNCHANGED <<person, form, click, lock, talks, chosen, events>>

\* Users come and go meanwhile: subscriptions run out, users are banned.
PersonChanges(u, p) ==
    /\ Event("person") /\ person' = [person EXCEPT ![u] = p]
    /\ UNCHANGED <<form, click, busy, lock, run, talks, chosen>>

Crash ==
    /\ Event("crash")
    /\ click' = [a \in Admins |-> <<>>] /\ lock' = [a \in Admins |-> Idle]
    /\ busy' = [extend |-> {}, bonus |-> {}]
    /\ run' = [r \in Runs |-> IF run[r] = Idle THEN Idle ELSE [run[r] EXCEPT !.phase = "over"]]
    /\ UNCHANGED <<person, form, talks, chosen>>

Persons == [std : BOOLEAN, wi : BOOLEAN, seen : BOOLEAN, out : BOOLEAN]

Init ==
    /\ person \in [Users -> {p \in Persons : p.std \/ p.wi}]
    /\ form = [a \in Admins |-> Blank] /\ click = [a \in Admins |-> <<>>]
    /\ busy = [extend |-> {}, bonus |-> {}] /\ lock = [a \in Admins |-> Idle]
    /\ run = [r \in Runs |-> Idle] /\ talks = 0
    /\ chosen = [a \in Admins |-> Nothing] /\ events = 0

Next ==
    \/ \E a \in Admins :
         \/ StartExtend(a) \/ StartBonus(a) \/ CustomDays(a) \/ EditReason(a) \/ SkipReason(a)
         \/ BackToConfirm(a) \/ TypeReason(a) \/ Cancel(a) \/ TypeBonusReason(a)
         \/ ExtendAsks(a) \/ ExtendBreaks(a) \/ StaleConfirm(a) \/ BonusClaims(a) \/ BonusBreaks(a)
         \/ \E aud \in Audiences : PickExtendAudience(a, aud) \/ PickBonusAudience(a, aud)
         \/ \E n \in Numbers : PickDays(a, n) \/ TypeDays(a, n) \/ TypeAmount(a, n)
         \/ \E r \in Runs : ExtendStarts(a, r) \/ BonusStarts(a, r)
    \/ \E r \in Runs :
         \/ Selects(r) \/ Finish(r)
         \/ \E C \in SUBSET Users : \E failed \in SUBSET C : Chunk(r, C, failed)
    \/ \E u \in Users, p \in Persons : PersonChanges(u, p)
    \/ Crash

Spec == Init /\ [][Next]_vars

-----------------------------------------------------------------------------
\* What an instance has to satisfy: the limits of the two forms are numbers.
GrantConstants == MaxDays \in Nat /\ MaxAmount \in Nat

TypeOK ==
    /\ person \in [Users -> Persons]
    /\ DOMAIN form = Admins /\ \A a \in Admins : form[a].days \in 0..MaxDays /\ form[a].amount \in 0..MaxAmount
    /\ busy \in [extend : SUBSET Admins, bonus : SUBSET Admins]
    /\ DOMAIN run = Runs /\ \A r \in Runs : run[r] # Idle => run[r].todo \subseteq Users

Of(kind) == {r \in Runs : run[r] # Idle /\ run[r].kind = kind}
Beneficiaries(r) == {g[1] : g \in run[r].given}

\* apply_mass_bonus: one conversation credits nobody twice, however often its last
\* button is clicked: lock, claim and the emptied conversation see to it.
OneBonusPerTalk ==
    \A r, s \in Of("bonus") : r # s /\ run[r].admin = run[s].admin /\ run[r].talk = run[s].talk
                                => Beneficiaries(r) \cap Beneficiaries(s) = {}

\* What an extension applies was picked in this conversation: the defaults that
\* talks and handlers put in place of missing answers never reach a user.
ExtendsWhatWasPicked ==
    \A r \in Of("extend") : run[r].aud \in run[r].picked.aud /\ run[r].n \in run[r].picked.days

\* Both: what a conversation grants is what was said in it, and it grants once.
GrantsAsTalked == OneBonusPerTalk /\ ExtendsWhatWasPicked

==============================================================================
