------------------------- MODULE AdminProofs -------------------------
(* What administrators do.  To one user (AdminAccess): the devices fit       *)
(* whatever limit was set, a reduction to the past holds, a key takes effect *)
(* once, and every extension of White Internet counts.  To many: messages    *)
(* (Broadcast), and extensions and bonuses (MassGrants).  Proved for any     *)
(* administrators, users, sessions, numbers and limits.                      *)
EXTENDS Administration, SequenceTheorems, FiniteSetTheorems, TLAPS

-----------------------------------------------------------------------------
\* The card of one user.

\* A change of the standard subscription that is flushed and not committed: it
\* holds the row, what it fits is counted, and a reduction has read the row.
Pending(s, t) ==
    /\ held = s /\ t.b.op \in Standard /\ t.copy \in Users /\ t.new \in Users /\ t.at <= now
    /\ t.new.limit # t.copy.limit => user.devices <= t.new.limit
    /\ t.b.op = "reduce" =>
          /\ t.copy = user
          /\ user.end - t.b.n * Day <= t.at => t.new.end = t.at - (Grace + 1)

\* What a handler has read is a row of the kind its button is about.
HasRead(t) == IF t.b.op \in Standard THEN t.copy \in Users ELSE t.copy \in Whites

Working ==
    \A s \in Sessions : task[s] # Idle =>
        /\ task[s].stage = "read" => HasRead(task[s])
        /\ task[s].stage = "written" => Pending(s, task[s])

\* What was cut stays cut when the ban of the user is lifted, too.
CutEnd == cut => ~serves /\ user.end + Grace < now

AccessInv == TypeOK /\ Working /\ DevicesFit /\ CutEnd /\ OncePerKey /\ WiExtensionsCount

-----------------------------------------------------------------------------
LEMMA AccessInit == ASSUME Init PROVE AccessInv
<1>1. TypeOK
    <2>1. 2 * Day \in Nat  BY AdminConstants
    <2>2. user \in Users
        <3>1. {0, 2 * Day} \subseteq Int /\ {0, 1} \subseteq Nat /\ {FALSE} \subseteq BOOLEAN
            BY <2>1
        <3> QED  BY <3>1, Zenon DEF Init, Users
    <2>3. wi \in Whites
        <3>1. /\ {2 * Day} \subseteq Int /\ {0} \subseteq Nat /\ {1} \subseteq Nat
              /\ {0} \subseteq {0, 1} /\ {FALSE} \subseteq BOOLEAN
            BY <2>1
        <3>2. /\ {"none", "paid", "trial"} \subseteq {"none", "trial", "paid"}
              /\ {"active"} \subseteq {"active", "exhausted", "expired", "disabled"}
            OBVIOUS
        <3> QED  BY <3>1, <3>2, ZenonT(30) DEF Init, Whites
    <2>4. NoForm \in Forms  BY DEF NoForm, Forms
    <2>5. taken \in Seq(keys)  BY EmptySeq DEF Init
    <2>6. wiDue \in Int /\ now \in Nat
        <3>1. wi.end \in Int  BY <2>3 DEF Whites
        <3>2. wiDue = wi.end /\ now = Grace + 2  BY DEF Init
        <3> QED  BY <3>1, <3>2, AdminConstants
    <2>7. screen \in [Admins -> SUBSET Buttons] /\ form \in [Admins -> Forms]
        BY <2>4 DEF Init
    <2>8. purse \in Nat /\ talks \in Nat /\ events \in 0..MaxEvents  BY AdminConstants DEF Init
    <2>9. task \in [Sessions -> Tasks \cup {Idle}] /\ held \in Sessions \cup {Idle}  BY DEF Init
    <2>10. serves \in BOOLEAN /\ cut \in BOOLEAN  BY Zenon DEF Init, Access
    <2> QED  BY <2>2, <2>3, <2>5, <2>6, <2>7, <2>8, <2>9, <2>10, Zenon DEF TypeOK
<1>2. Working  BY DEF Init, Working
<1>3. DevicesFit /\ CutEnd /\ OncePerKey /\ WiExtensionsCount
    BY DEF Init, DevicesFit, CutEnd, OncePerKey, WiExtensionsCount
<1> QED  BY <1>1, <1>2, <1>3 DEF AccessInv

\* A card is a matter of its buttons and of the conversation.
LEMMA CardStep ==
    ASSUME AccessInv, UNCHANGED <<user, serves, wi, money, task, held, now, history>>,
           screen' \in [Admins -> SUBSET Buttons], form' \in [Admins -> Forms],
           talks' \in Nat, events' \in 0..MaxEvents
    PROVE  AccessInv'
<1> USE DEF AccessInv, money, history
<1>1. TypeOK'  BY DEF TypeOK
<1>2. Working'  BY DEF Working, Pending, HasRead
<1>3. DevicesFit' /\ CutEnd' /\ OncePerKey' /\ WiExtensionsCount'
    BY DEF DevicesFit, CutEnd, OncePerKey, WiExtensionsCount
<1> QED  BY <1>1, <1>2, <1>3

LEMMA ButtonType ==
    ASSUME NEW op \in Ops, NEW n \in Nat, NEW lim \in Limits \cup {0}, NEW token \in Nat
    PROVE  Button(op, n, lim, token) \in Buttons
BY DEF Button, Buttons

LEMMA ShowsType ==
    ASSUME TypeOK, NEW a \in Admins, NEW buttons \in SUBSET Buttons, Shows(a, buttons)
    PROVE  screen' \in [Admins -> SUBSET Buttons]
BY DEF TypeOK, Shows

LEMMA ForgetsType ==
    ASSUME TypeOK, NEW a \in Admins, Forgets(a)
    PROVE  form' \in [Admins -> Forms]
<1>1. NoForm \in Forms  BY DEF NoForm, Forms
<1> QED  BY <1>1 DEF TypeOK, Forgets

LEMMA EventType == ASSUME TypeOK, NEW kind, Event(kind) PROVE events' \in 0..MaxEvents
BY AdminConstants DEF TypeOK, Event

LEMMA ShownStep ==
    ASSUME AccessInv, NEW a \in Admins, NEW kind, NEW buttons \in SUBSET Buttons,
           Shown(kind, a, buttons), form' \in [Admins -> Forms], talks' \in Nat
    PROVE  AccessInv'
<1>1. TypeOK  BY DEF AccessInv
<1>2. Shows(a, buttons) /\ Event(kind)  BY DEF Shown
<1>3. screen' \in [Admins -> SUBSET Buttons]  BY <1>1, <1>2, ShowsType
<1>4. events' \in 0..MaxEvents  BY <1>1, <1>2, EventType
<1> QED  BY <1>3, <1>4, CardStep DEF Shown

LEMMA OpenStep ==
    ASSUME AccessInv, NEW a \in Admins, NEW kind, NEW buttons \in SUBSET Buttons,
           Open(kind, a, buttons)
    PROVE  AccessInv'
<1>1. form' \in [Admins -> Forms] /\ talks' \in Nat  BY DEF AccessInv, TypeOK, Open
<1> QED  BY <1>1, ShownStep DEF Open

LEMMA AsksStep ==
    ASSUME AccessInv, NEW a \in Admins, NEW kind, NEW lim \in Limits \cup {0},
           NEW state \in {"extend", "grant", "reduce", "wi_extend", "topup", "deduct"},
           Asks(kind, a, state, lim)
    PROVE  AccessInv'
<1>1. [state |-> state, n |-> 0, lim |-> lim, adj |-> 0] \in Forms  BY DEF Forms
<1>2. form' \in [Admins -> Forms] /\ talks' \in Nat  BY <1>1 DEF AccessInv, TypeOK, Asks
<1> QED  BY <1>2, ShownStep DEF Asks

LEMMA TypesStep ==
    ASSUME AccessInv, NEW a \in Admins, NEW n \in Nat, NEW token \in Nat,
           NEW state \in {"extend", "grant", "reduce", "wi_extend"},
           Types(a, state, n, token), talks' \in Nat
    PROVE  AccessInv'
<1>1. TypeOK  BY DEF AccessInv
<1>2. form[a].lim \in Limits \cup {0}  BY <1>1 DEF TypeOK, Forms
<1>3. Button(state, n, form[a].lim, token) \in Buttons
    BY <1>2, ButtonType DEF Ops, Standard
<1>4. screen' \in [Admins -> SUBSET Buttons]  BY <1>1, <1>3, ShowsType DEF Types
<1>5. form' \in [Admins -> Forms]  BY <1>1, ForgetsType DEF Types
<1>6. events' \in 0..MaxEvents  BY <1>1 DEF TypeOK, Types
<1> QED  BY <1>4, <1>5, <1>6, CardStep DEF Types

\* The cards of the standard subscription.
LEMMA StandardCardStep ==
    ASSUME AccessInv, NEW a \in Admins,
           \/ Menu(a) \/ GrantMenu(a) \/ AskExtend(a) \/ AskReduce(a)
           \/ \E n \in Numbers : ExtendCard(a, n) \/ TypeExtend(a, n) \/ TypeGrant(a, n)
                                   \/ TypeReduce(a, n)
           \/ \E l \in Limits : GrantGroup(a, l) \/ ChangeCard(a, l) \/ AskGrant(a, l)
           \/ \E n \in Numbers, l \in Limits : GrantCard(a, n, l)
    PROVE  AccessInv'
<1> USE AdminConstants DEF Ops, Standard
<1>1. talks \in Nat  BY DEF AccessInv, TypeOK
<1>2. CASE Menu(a) \/ GrantMenu(a) \/ \E l \in Limits : GrantGroup(a, l)
    BY <1>2, OpenStep DEF Menu, GrantMenu, GrantGroup
<1>3. CASE AskExtend(a) \/ AskReduce(a)  BY <1>3, AsksStep DEF AskExtend, AskReduce
<1>4. ASSUME NEW n \in Numbers,
             ExtendCard(a, n) \/ TypeExtend(a, n) \/ TypeGrant(a, n) \/ TypeReduce(a, n)
      PROVE  AccessInv'
    <2>1. n \in Nat  OBVIOUS
    <2>2. CASE ExtendCard(a, n)
        <3>1. {Button("extend", n, 0, 0)} \subseteq Buttons  BY <2>1, ButtonType
        <3> QED  BY <2>2, <3>1, OpenStep DEF ExtendCard
    <2>3. CASE TypeExtend(a, n) \/ TypeGrant(a, n) \/ TypeReduce(a, n)
        BY <1>1, <2>1, <2>3, TypesStep DEF TypeExtend, TypeGrant, TypeReduce
    <2> QED  BY <1>4, <2>2, <2>3
<1>5. ASSUME NEW l \in Limits, ChangeCard(a, l) \/ AskGrant(a, l) PROVE AccessInv'
    <2>1. {Button("change", 0, l, 0)} \subseteq Buttons  BY ButtonType
    <2>2. CASE ChangeCard(a, l)  BY <2>1, <2>2, OpenStep DEF ChangeCard
    <2>3. CASE AskGrant(a, l)  BY <2>3, AsksStep DEF AskGrant
    <2> QED  BY <1>5, <2>2, <2>3
<1>6. ASSUME NEW n \in Numbers, NEW l \in Limits, GrantCard(a, n, l) PROVE AccessInv'
    <2>1. {Button("grant", n, l, 0)} \subseteq Buttons  BY ButtonType
    <2> QED  BY <1>6, <2>1, OpenStep DEF GrantCard
<1> QED  BY <1>2, <1>3, <1>4, <1>5, <1>6

\* Those of White Internet.
LEMMA WiCardStep ==
    ASSUME AccessInv, NEW a \in Admins,
           \/ AskWiExtend(a) \/ WiMenu(a) \/ WiExtendMenu(a) \/ TrafficMenu(a) \/ QuotaMenu(a)
           \/ LimitMenu(a) \/ TrafficResetCard(a) \/ SeatsResetCard(a) \/ TokenResetCard(a)
           \/ TrialResetCard(a) \/ TrialMenu(a)
           \/ \E n \in Numbers : TypeWiExtend(a, n) \/ WiExtendCard(a, n)
    PROVE  AccessInv'
<1> USE AdminConstants DEF Ops, Standard
<1>1. TypeOK /\ talks \in Nat /\ talks + 1 \in Nat /\ form \in [Admins -> Forms]
    BY DEF AccessInv, TypeOK
<1>2. CASE AskWiExtend(a)  BY <1>2, AsksStep DEF AskWiExtend
<1>3. CASE WiMenu(a) \/ WiExtendMenu(a)
    <2>1. Shown("wi", a, {}) /\ Forgets(a) /\ talks' \in Nat
        BY <1>1, <1>3 DEF WiMenu, WiExtendMenu
    <2>2. form' \in [Admins -> Forms]  BY <1>1, <2>1, ForgetsType
    <2> QED  BY <2>1, <2>2, ShownStep
<1>4. CASE TrafficMenu(a) \/ QuotaMenu(a) \/ LimitMenu(a)
    <2>1. /\ {Button("traffic", n, 0, 0) : n \in Numbers} \subseteq Buttons
          /\ {Button("quota", n, 0, 0) : n \in Numbers} \subseteq Buttons
          /\ {Button("limit", 0, l, 0) : l \in Limits} \subseteq Buttons
        <3>1. {"traffic", "quota", "limit"} \subseteq Ops /\ 0 \in Nat /\ 0 \in Limits \cup {0}
            OBVIOUS
        <3>2. Numbers \subseteq Nat /\ Limits \subseteq Limits \cup {0}  OBVIOUS
        <3> HIDE AdminConstants DEF Ops, Standard
        <3> QED  BY <3>1, <3>2, ButtonType
    <2> QED  BY <1>4, <2>1, OpenStep DEF TrafficMenu, QuotaMenu, LimitMenu
<1>5. CASE \/ TrafficResetCard(a) \/ SeatsResetCard(a) \/ TokenResetCard(a)
           \/ TrialResetCard(a) \/ TrialMenu(a)
    <2>1. \A op \in Ops : {Button(op, 0, 0, 0)} \subseteq Buttons  BY ButtonType
    <2>2. \A op \in Ops : Open("wi", a, {Button(op, 0, 0, 0)}) => AccessInv'
        BY <2>1, OpenStep
    <2> QED
        BY <1>5, <2>2 DEF TrafficResetCard, SeatsResetCard, TokenResetCard, TrialResetCard, TrialMenu
<1>6. ASSUME NEW n \in Numbers, TypeWiExtend(a, n) \/ WiExtendCard(a, n) PROVE AccessInv'
    <2>1. n \in Nat /\ {Button("wi_extend", n, 0, talks + 1)} \subseteq Buttons
        BY <1>1, ButtonType
    <2>2. CASE TypeWiExtend(a, n)  BY <1>1, <2>1, <2>2, TypesStep DEF TypeWiExtend
    <2>3. CASE WiExtendCard(a, n)  BY <1>1, <2>1, <2>3, ShownStep DEF WiExtendCard
    <2> QED  BY <1>6, <2>2, <2>3
<1> QED  BY <1>2, <1>3, <1>4, <1>5, <1>6

\* And those of the balance.
LEMMA BalanceCardStep ==
    ASSUME AccessInv, NEW a \in Admins,
           \/ BalanceMenu(a) \/ AskTopup(a) \/ AskDeduct(a) \/ TypeReason(a)
           \/ \E n \in Numbers : TypeTopup(a, n) \/ TypeDeduct(a, n)
    PROVE  AccessInv'
<1> USE AdminConstants DEF Ops
<1>1. /\ TypeOK /\ talks \in Nat /\ talks + 1 \in Nat /\ form \in [Admins -> Forms]
      /\ screen \in [Admins -> SUBSET Buttons] /\ events \in 0..MaxEvents
    BY DEF AccessInv, TypeOK
<1>2. CASE BalanceMenu(a)
    <2>1. {Button("preset", n, 0, 0) : n \in Numbers} \subseteq Buttons
        <3>1. "preset" \in Ops /\ Numbers \subseteq Nat /\ 0 \in Nat  OBVIOUS
        <3>2. \A n \in Numbers : Button("preset", n, 0, 0) \in Buttons  BY <3>1, ButtonType
        <3> QED  BY <3>2
    <2>2. form' \in [Admins -> Forms]  BY <1>1, <1>2, ForgetsType DEF BalanceMenu
    <2> QED  BY <1>1, <1>2, <2>1, <2>2, ShownStep DEF BalanceMenu
<1>3. CASE AskTopup(a) \/ AskDeduct(a)  BY <1>3, AsksStep DEF AskTopup, AskDeduct
<1>4. ASSUME NEW n \in Int, Amount(a, n) PROVE AccessInv'
    <2>1. [form[a] EXCEPT !.state = "reason", !.n = n] \in Forms  BY <1>1 DEF Forms
    <2>2. form' = [form EXCEPT ![a] = [form[a] EXCEPT !.state = "reason", !.n = n]]
        BY <1>1, <1>4 DEF Amount
    <2>3. form' \in [Admins -> Forms]  BY <1>1, <2>1, <2>2
    <2> QED  BY <1>1, <1>4, <2>3, CardStep DEF Amount
<1>5. ASSUME NEW n \in Numbers, TypeTopup(a, n) \/ TypeDeduct(a, n) PROVE AccessInv'
    <2>1. n \in Int /\ -n \in Int  OBVIOUS
    <2>2. CASE Amount(a, n) \/ Amount(a, -n)  BY <1>4, <2>1, <2>2
    <2>3. CASE /\ Forgets(a)
               /\ UNCHANGED <<user, serves, wi, money, screen, task, held, now, talks, history, events>>
        BY <1>1, <2>3, ForgetsType, CardStep
    <2> QED  BY <1>5, <2>2, <2>3 DEF TypeTopup, TypeDeduct
<1>6. CASE TypeReason(a)
    <2>1. ASSUME NEW adj \in Nat
          PROVE  [form[a] EXCEPT !.state = "confirm", !.adj = adj] \in Forms
        BY <1>1 DEF Forms
    <2>2. form' = [form EXCEPT ![a] = [form[a] EXCEPT !.state = "confirm", !.adj = talks + 1]]
        BY <1>1, <1>6 DEF TypeReason
    <2>3. form' \in [Admins -> Forms]
        <3>1. [form[a] EXCEPT !.state = "confirm", !.adj = talks + 1] \in Forms  BY <1>1, <2>1
        <3> QED  BY <1>1, <2>2, <3>1
    <2>4. {Button("adjust", 0, 0, 0)} \subseteq Buttons  BY ButtonType
    <2>5. screen' \in [Admins -> SUBSET Buttons]
        BY <1>1, <1>6, <2>4, ShowsType DEF TypeReason
    <2> QED  BY <1>1, <1>6, <2>3, <2>5, CardStep DEF TypeReason
<1> QED  BY <1>2, <1>3, <1>5, <1>6

-----------------------------------------------------------------------------
\* A handler that ends gives its task up.
LEMMA EndsTask ==
    ASSUME TypeOK, NEW s \in Sessions, Ends(s)
    PROVE  /\ task' \in [Sessions -> Tasks \cup {Idle}] /\ task'[s] = Idle
           /\ \A r \in Sessions \ {s} : task'[r] = task[r]
BY DEF TypeOK, Ends

\* The other handlers go on, for what concerns them is unchanged.
LEMMA EndsWorking ==
    ASSUME TypeOK, Working, NEW s \in Sessions, Ends(s), UNCHANGED <<user, held, now>>
    PROVE  Working'
<1>1. /\ task'[s] = Idle
      /\ \A r \in Sessions \ {s} : task'[r] = task[r]
    BY EndsTask
<1> QED  BY <1>1 DEF Working, Pending, HasRead

LEMMA FailsStep ==
    ASSUME AccessInv, NEW s \in Sessions, Fails(s)
    PROVE  AccessInv'
<1> USE DEF AccessInv, Fails, money, history
<1>1. TypeOK'  BY EndsTask DEF TypeOK
<1>2. Working'  BY EndsWorking
<1>3. DevicesFit' /\ CutEnd' /\ OncePerKey' /\ WiExtensionsCount'
    BY DEF DevicesFit, CutEnd, OncePerKey, WiExtensionsCount
<1> QED  BY <1>1, <1>2, <1>3

\* A tap, and the reads of its handler.
LEMMA TapStep ==
    ASSUME AccessInv, NEW a \in Admins, NEW s \in Sessions, NEW b \in screen[a], Tap(a, s, b)
    PROVE  AccessInv'
<1> DEFINE t == [admin |-> a, stage |-> "tapped", b |-> b, copy |-> Idle,
                 form |-> NoForm, new |-> Idle, at |-> 0]
<1> USE DEF AccessInv
<1>1. TypeOK /\ task' = [task EXCEPT ![s] = t]  BY DEF Tap
<1>2. t \in Tasks /\ t.stage = "tapped"
    <2>1. b \in Buttons  BY <1>1 DEF TypeOK
    <2>2. NoForm \in Forms  BY DEF NoForm, Forms
    <2> QED  BY <2>1, <2>2 DEF Tasks
<1> HIDE DEF t
<1>3. events' \in 0..MaxEvents  BY <1>1, EventType DEF Tap
<1>4. TypeOK'  BY <1>1, <1>2, <1>3 DEF Tap, TypeOK, money, history
<1>5. Working'  BY <1>1, <1>2 DEF Tap, TypeOK, Working, Pending, HasRead
<1>6. DevicesFit' /\ CutEnd' /\ OncePerKey' /\ WiExtensionsCount'
    BY DEF Tap, DevicesFit, CutEnd, OncePerKey, WiExtensionsCount, money, history
<1> QED  BY <1>4, <1>5, <1>6

LEMMA ReadsStep ==
    ASSUME AccessInv, NEW s \in Sessions, Reads(s)
    PROVE  AccessInv'
<1> DEFINE copy == IF task[s].b.op \in Standard THEN user ELSE wi
           t == [task[s] EXCEPT !.stage = "read", !.copy = copy, !.form = form[task[s].admin]]
<1> USE DEF AccessInv
<1>1. CASE Ends(s)  BY <1>1, FailsStep DEF Reads, Fails
<1>2. CASE task' = [task EXCEPT ![s] = t]
    <2>1. TypeOK /\ task[s] \in Tasks  BY DEF TypeOK, Reads
    <2>2. copy \in Users \cup Whites /\ form[task[s].admin] \in Forms
        BY <2>1 DEF TypeOK, Tasks
    <2>3. HasRead(t) /\ t.stage = "read"
        BY <2>1 DEF TypeOK, HasRead, Tasks
    <2> HIDE DEF copy
    <2>4. t \in Tasks  BY <2>1, <2>2 DEF Tasks
    <2> HIDE DEF t
    <2>5. TypeOK'  BY <1>2, <2>1, <2>4 DEF Reads, TypeOK, money, history
    <2>6. Working'  BY <1>2, <2>1, <2>3 DEF Reads, TypeOK, Working, Pending, HasRead
    <2>7. DevicesFit' /\ CutEnd' /\ OncePerKey' /\ WiExtensionsCount'
        BY DEF Reads, DevicesFit, CutEnd, OncePerKey, WiExtensionsCount, money, history
    <2> QED  BY <2>5, <2>6, <2>7
<1>3. Ends(s) \/ task' = [task EXCEPT ![s] = t]
    BY DEF Reads, TypeOK
<1> QED  BY <1>1, <1>2, <1>3

-----------------------------------------------------------------------------
\* extend_subscription: an end counts from now at the earliest.
LEMMA EndType ==
    ASSUME AdminConstants, now \in Nat, NEW end \in Int, NEW days \in Nat
    PROVE  EndAfter(end, days) \in Int /\ WiEndAfter(end, days) \in Int
<1>1. days * Day \in Int  BY DEF AdminConstants
<1> QED  BY <1>1 DEF EndAfter, WiEndAfter, Larger

LEMMA ExtendedType ==
    ASSUME TypeOK, NEW t \in Tasks, t.copy \in Users
    PROVE  /\ Extended(t) \in Users
           /\ Extended(t).limit # t.copy.limit => t.b.lim # 0 /\ Extended(t).limit = t.b.lim
<1> DEFINE end == IF t.b.n = 0 THEN t.copy.end ELSE EndAfter(t.copy.end, t.b.n)
           limit == IF t.b.lim = 0 THEN t.copy.limit ELSE t.b.lim
<1>1. t.b.n \in Nat /\ t.b.lim \in Limits \cup {0} /\ t.copy.end \in Int /\ t.copy.limit \in Limits
    BY DEF Tasks, Buttons, Users
<1>2. end \in Int  BY <1>1, EndType, AdminConstants DEF TypeOK
<1>3. limit \in Limits  BY <1>1
<1>4. Extended(t) = [t.copy EXCEPT !.end = end, !.limit = limit]  BY DEF Extended, Users
<1> HIDE DEF end
<1>5. Extended(t).limit = limit  BY <1>4 DEF Users
<1>6. limit # t.copy.limit => t.b.lim # 0 /\ limit = t.b.lim  OBVIOUS
<1> HIDE DEF limit
<1>7. Extended(t) \in Users  BY <1>2, <1>3, <1>4 DEF Users
<1> QED  BY <1>5, <1>6, <1>7

LEMMA ReducedType ==
    ASSUME TypeOK, NEW t \in Tasks
    PROVE  /\ Reduced(t) \in Users /\ Reduced(t).limit = user.limit
           /\ user.end - t.b.n * Day <= now => Reduced(t).end = now - (Grace + 1)
<1> DEFINE left == user.end - t.b.n * Day
           end == IF left <= now THEN Cutoff ELSE left
<1>1. t.b.n \in Nat /\ user \in Users /\ now \in Nat /\ Grace \in Nat /\ Day \in Nat
    BY AdminConstants DEF TypeOK, Tasks, Buttons
<1>2. t.b.n * Day \in Int /\ user.end \in Int  BY <1>1 DEF Users
<1>3. left \in Int  BY <1>2
<1> HIDE DEF left
<1>4. end \in Int /\ (left <= now => end = now - (Grace + 1))  BY <1>1, <1>3 DEF Cutoff
<1>5. Reduced(t) = [user EXCEPT !.end = end]  BY DEF Reduced, left
<1> HIDE DEF end
<1>6. Reduced(t) \in Users /\ Reduced(t).limit = user.limit /\ Reduced(t).end = end
    BY <1>1, <1>4, <1>5 DEF Users
<1> QED  BY <1>4, <1>6 DEF left

\* A change is flushed under the lock of the row.
LEMMA WritesStep ==
    ASSUME AccessInv, NEW s \in Sessions, NEW new \in Users, NEW copy \in Users,
           held = Idle, Handling(s, Standard), Writes(s, new, copy),
           new.limit # copy.limit => user.devices <= new.limit,
           task[s].b.op = "reduce" =>
              /\ copy = user
              /\ user.end - task[s].b.n * Day <= now => new.end = now - (Grace + 1)
    PROVE  AccessInv'
<1> DEFINE t == [task[s] EXCEPT !.stage = "written", !.new = new, !.copy = copy, !.at = now]
<1> USE DEF AccessInv
<1>1. TypeOK /\ task[s] \in Tasks /\ now \in Nat  BY DEF TypeOK, Handling
<1>2. t \in Tasks  BY <1>1 DEF Tasks
<1>3. /\ t.stage = "written" /\ t.new = new /\ t.copy = copy /\ t.at = now
      /\ t.b = task[s].b
    BY <1>1 DEF Tasks
<1> HIDE DEF t
<1>4. task' = [task EXCEPT ![s] = t]  BY DEF Writes, t
<1>5. screen' \in [Admins -> SUBSET Buttons]
    BY <1>1, ShowsType DEF Writes, Tasks
<1>6. TypeOK'  BY <1>1, <1>2, <1>4, <1>5 DEF Writes, TypeOK, money, history
<1>7. Working'
    <2>1. \A r \in Sessions \ {s} : task'[r] = task[r] /\ (task[r] # Idle => task[r].stage # "written")
        BY <1>1, <1>4, AdminConstants DEF TypeOK, Working, Pending
    <2>2. task'[s] = t  BY <1>1, <1>4 DEF TypeOK
    <2>3. /\ held' = s /\ t.b.op \in Standard /\ t.copy \in Users /\ t.new \in Users
          /\ t.at <= now'
          /\ t.new.limit # t.copy.limit => user'.devices <= t.new.limit
          /\ t.b.op = "reduce" =>
                /\ t.copy = user'
                /\ user'.end - t.b.n * Day <= t.at => t.new.end = t.at - (Grace + 1)
        BY <1>1, <1>3 DEF Writes, Handling
    <2> QED  BY <1>3, <2>1, <2>2, <2>3 DEF Working, HasRead, Pending
<1>8. DevicesFit' /\ CutEnd' /\ OncePerKey' /\ WiExtensionsCount'
    BY DEF Writes, DevicesFit, CutEnd, OncePerKey, WiExtensionsCount, money, history
<1> QED  BY <1>6, <1>7, <1>8

LEMMA ApplyStep ==
    ASSUME AccessInv, NEW s \in Sessions,
           Extends(s) \/ Grants(s) \/ Changes(s) \/ Reduces(s)
    PROVE  AccessInv'
<1>1. /\ TypeOK /\ held = Idle /\ Handling(s, Standard) /\ task[s] \in Tasks /\ user \in Users
    BY DEF AccessInv, TypeOK, Extends, Grants, Changes, Reduces, Applies, Handling, Standard
<1>2. CASE Fails(s)  BY <1>2, FailsStep
<1>3. CASE /\ Fits(task[s]) /\ Writes(s, Extended(task[s]), task[s].copy)
           /\ Handling(s, {"extend", "grant", "change"})
    <2>1. task[s].copy \in Users /\ task[s].b.op # "reduce"
        BY <1>1, <1>3 DEF AccessInv, Working, HasRead, Handling
    <2>2. /\ Extended(task[s]) \in Users
          /\ Extended(task[s]).limit # task[s].copy.limit =>
                task[s].b.lim # 0 /\ Extended(task[s]).limit = task[s].b.lim
        BY <1>1, <2>1, ExtendedType
    <2>3. Extended(task[s]).limit # task[s].copy.limit => user.devices <= Extended(task[s]).limit
        BY <1>3, <2>2 DEF Fits
    <2> QED  BY <1>1, <1>3, <2>1, <2>2, <2>3, WritesStep
<1>4. CASE Writes(s, Reduced(task[s]), user)
    <2>1. /\ Reduced(task[s]) \in Users /\ Reduced(task[s]).limit = user.limit
          /\ user.end - task[s].b.n * Day <= now => Reduced(task[s]).end = now - (Grace + 1)
        BY <1>1, ReducedType
    <2> QED  BY <1>1, <1>4, <2>1, WritesStep
<1> QED
    BY <1>2, <1>3, <1>4 DEF Extends, Grants, Changes, Reduces, Applies, Handling

\* The columns that the handler had changed, over the row as it is.
LEMMA FlushedType ==
    ASSUME NEW t, user \in Users, t.new \in Users, t.copy \in Users
    PROVE  /\ Flushed(t) \in Users /\ Flushed(t).devices = user.devices
           /\ Flushed(t).banned = user.banned
           /\ Flushed(t).limit = IF t.new.limit # t.copy.limit THEN t.new.limit ELSE user.limit
           /\ Flushed(t).end = IF t.new.end # t.copy.end THEN t.new.end ELSE user.end
<1> DEFINE end == IF t.new.end # t.copy.end THEN t.new.end ELSE user.end
           limit == IF t.new.limit # t.copy.limit THEN t.new.limit ELSE user.limit
<1>1. end \in Int /\ limit \in Limits
    <2>1. /\ user.end \in Int /\ t.new.end \in Int
          /\ user.limit \in Limits /\ t.new.limit \in Limits
        BY DEF Users
    <2> QED  BY <2>1
<1>2. Flushed(t) = [user EXCEPT !.end = end, !.limit = limit]
    <2>1. user = [end |-> user.end, limit |-> user.limit, devices |-> user.devices,
                  banned |-> user.banned]
        BY DEF Users
    <2> QED  BY <2>1 DEF Flushed
<1> HIDE DEF end, limit
<1>3. /\ Flushed(t) \in Users /\ Flushed(t).devices = user.devices
      /\ Flushed(t).banned = user.banned /\ Flushed(t).limit = limit /\ Flushed(t).end = end
    BY <1>1, <1>2 DEF Users
<1> QED  BY <1>3 DEF end, limit

LEMMA CommitsStep ==
    ASSUME AccessInv, NEW s \in Sessions, Commits(s)
    PROVE  AccessInv'
<1> DEFINE t == task[s]
<1> USE DEF AccessInv
<1>1. /\ TypeOK /\ t \in Tasks /\ Pending(s, t) /\ user \in Users /\ now \in Nat
      /\ Grace \in Nat /\ t.at \in Nat
    BY AdminConstants DEF TypeOK, Commits, Working, Tasks
<1>2. /\ Flushed(t) \in Users /\ Flushed(t).devices = user.devices
      /\ Flushed(t).limit = IF t.new.limit # t.copy.limit THEN t.new.limit ELSE user.limit
      /\ Flushed(t).end = IF t.new.end # t.copy.end THEN t.new.end ELSE user.end
    BY <1>1, FlushedType DEF Pending
<1>3. user' = Flushed(t) /\ Ends(s) /\ held' = Idle  BY DEF Commits
<1>4. serves' \in BOOLEAN /\ cut' \in BOOLEAN  BY Zenon DEF Commits, Access
<1>5. TypeOK'  BY <1>1, <1>2, <1>3, <1>4, EndsTask DEF Commits, TypeOK, money
<1>6. Working'
    <2>1. /\ task'[s] = Idle
          /\ \A r \in Sessions \ {s} : task'[r] = task[r]
        BY <1>1, <1>3, EndsTask
    <2>2. \A r \in Sessions \ {s} : task[r] # Idle => task[r].stage # "written"
        BY <1>1 DEF Working, Pending
    <2> QED  BY <2>1, <2>2 DEF Working, HasRead
<1>7. DevicesFit'
    <2>1. user.devices <= user.limit  BY DEF DevicesFit
    <2>2. user'.devices = user.devices /\ user'.limit = Flushed(t).limit  BY <1>2, <1>3
    <2>3. user.devices <= Flushed(t).limit  BY <1>1, <1>2, <2>1 DEF Pending
    <2> QED  BY <2>2, <2>3 DEF DevicesFit
<1>8. CutEnd'
    <2>1. cut' = (t.b.op = "reduce" /\ user.end - t.b.n * Day <= t.at) /\ now' = now
          /\ serves' = Access(t.new.banned, t.new.end)
        BY DEF Commits
    <2> SUFFICES ASSUME cut' PROVE ~serves' /\ user'.end + Grace < now
        BY <2>1 DEF CutEnd
    <2>2. t.copy = user /\ t.new.end = t.at - (Grace + 1) /\ t.at <= now
        BY <1>1, <2>1 DEF Pending
    <2>3. t.new.end + Grace < now /\ t.new.end \in Int  BY <1>1, <2>2
    <2>4. user'.end = t.new.end  BY <1>2, <1>3, <2>2
    <2>5. ~(t.new.end + Grace >= now)  BY <1>1, <2>3
    <2>6. ~serves'  BY <2>1, <2>5 DEF Access
    <2> QED  BY <2>3, <2>4, <2>6
<1>9. OncePerKey' /\ WiExtensionsCount'
    BY DEF Commits, OncePerKey, WiExtensionsCount, money
<1> QED  BY <1>5, <1>6, <1>7, <1>8, <1>9

LEMMA RollbackStep ==
    ASSUME AccessInv, NEW s \in Sessions, Rollback(s)
    PROVE  AccessInv'
<1> USE DEF AccessInv
<1>1. TypeOK /\ Ends(s) /\ held' = Idle /\ Event("fail") /\ task[s] # Idle /\ task[s].stage = "written"
    BY DEF Rollback
<1>2. TypeOK'  BY <1>1, EndsTask, EventType DEF Rollback, TypeOK, money, history
<1>3. Working'
    <2>1. /\ task'[s] = Idle
          /\ \A r \in Sessions \ {s} : task'[r] = task[r]
        BY <1>1, EndsTask
    <2>2. \A r \in Sessions \ {s} : task[r] # Idle => task[r].stage # "written"
        BY <1>1 DEF Working, Pending
    <2> QED  BY <2>1, <2>2 DEF Working, HasRead
<1>4. DevicesFit' /\ CutEnd' /\ OncePerKey' /\ WiExtensionsCount'
    BY DEF Rollback, DevicesFit, CutEnd, OncePerKey, WiExtensionsCount, money, history
<1> QED  BY <1>2, <1>3, <1>4

-----------------------------------------------------------------------------
\* A key that was not there is recorded once.
LEMMA KeyRecorded ==
    ASSUME TypeOK, OncePerKey, NEW key, key \notin keys,
           keys' = keys \cup {key}, taken' = Append(taken, key)
    PROVE  taken' \in Seq(keys') /\ OncePerKey'
<1>1. taken \in Seq(keys) /\ taken \in Seq(keys')
    BY SeqMonotonic DEF TypeOK
<1>2. /\ Len(taken) \in Nat /\ DOMAIN taken = 1..Len(taken)
      /\ \A i \in 1..Len(taken) : taken[i] \in keys
    BY <1>1, LenProperties, ElementOfSeq
<1>3. /\ taken' \in Seq(keys') /\ Len(taken') = Len(taken) + 1
      /\ \A i \in 1..Len(taken) : taken'[i] = taken[i]
      /\ taken'[Len(taken) + 1] = key
    BY <1>1, AppendProperties
<1>4. DOMAIN taken' = 1..(Len(taken) + 1)  BY <1>3, LenProperties
<1>5. ASSUME NEW i \in DOMAIN taken', NEW j \in DOMAIN taken', taken'[i] = taken'[j]
      PROVE  i = j
    <2>1. CASE i \in 1..Len(taken) /\ j \in 1..Len(taken)
        BY <1>2, <1>3, <1>5, <2>1 DEF OncePerKey
    <2>2. CASE i \notin 1..Len(taken) \/ j \notin 1..Len(taken)
        <3>1. \A k \in 1..Len(taken) : taken'[k] # key  BY <1>2, <1>3
        <3>2. \A k \in DOMAIN taken' : k \in 1..Len(taken) \/ k = Len(taken) + 1
            BY <1>2, <1>4
        <3> QED  BY <1>3, <1>5, <2>2, <3>1, <3>2
    <2> QED  BY <2>1, <2>2
<1> QED  BY <1>3, <1>5 DEF OncePerKey

\* A handler that ends without touching the standard subscription.
LEMMA EndingStep ==
    ASSUME AccessInv, NEW s \in Sessions, Ends(s), UNCHANGED <<user, serves, held, now, cut, events>>,
           screen' \in [Admins -> SUBSET Buttons], form' \in [Admins -> Forms], talks' \in Nat,
           wi' \in Whites, purse' \in Nat, wiDue' \in Int,
           taken' \in Seq(keys'), OncePerKey', WiExtensionsCount'
    PROVE  AccessInv'
<1> USE DEF AccessInv
<1>1. TypeOK'  BY EndsTask DEF TypeOK
<1>2. Working'  BY EndsWorking
<1>3. DevicesFit' /\ CutEnd'  BY DEF DevicesFit, CutEnd
<1> QED  BY <1>1, <1>2, <1>3

\* What a button does to White Internet.
LEMMA WiChangesStep ==
    ASSUME AccessInv, NEW s \in Sessions, NEW new \in Whites, WiChanges(s, new),
           task[s] # Idle,
           new.kind = "paid" => wi.kind = "paid" /\ new.end = wi.end,
           (IsNew(task[s]) /\ Records(s)) \/ UNCHANGED <<keys, taken>>
    PROVE  AccessInv'
<1> USE DEF AccessInv
<1>1. /\ TypeOK /\ task[s] \in Tasks /\ Shows(task[s].admin, {}) /\ task[s].admin \in Admins
      /\ form' = form /\ talks' = talks /\ purse' = purse /\ wiDue' = wiDue /\ wi' = new
    BY DEF TypeOK, Tasks, WiChanges, Done
<1>2. screen' \in [Admins -> SUBSET Buttons]  BY <1>1, ShowsType
<1>3. taken' \in Seq(keys') /\ OncePerKey'
    <2>1. CASE IsNew(task[s]) /\ Records(s)
        BY <1>1, <2>1, KeyRecorded DEF IsNew, Records
    <2>2. CASE UNCHANGED <<keys, taken>>  BY <1>1, <2>2 DEF TypeOK, OncePerKey
    <2> QED  BY <2>1, <2>2
<1>4. WiExtensionsCount'  BY <1>1 DEF WiExtensionsCount
<1>5. /\ form' \in [Admins -> Forms] /\ talks' \in Nat /\ purse' \in Nat /\ wiDue' \in Int
    BY <1>1 DEF TypeOK
<1> QED  BY <1>1, <1>2, <1>3, <1>4, <1>5, EndingStep DEF WiChanges, Done

LEMMA AwakeType ==
    ASSUME NEW row \in Whites
    PROVE  LET awake == [row EXCEPT !.status = "active", !.used = FALSE]
           IN  awake \in Whites /\ awake.kind = row.kind /\ awake.end = row.end
<1>1. ASSUME NEW used \in BOOLEAN
      PROVE  LET awake == [row EXCEPT !.status = "active", !.used = used]
             IN  awake \in Whites /\ awake.kind = row.kind /\ awake.end = row.end
    BY DEF Whites
<1>2. FALSE \in BOOLEAN  BY Zenon
<1> QED  BY <1>1, <1>2, Zenon

LEMMA WokenType ==
    ASSUME NEW new \in Whites, NEW row \in Woken(new)
    PROVE  row \in Whites /\ row.kind = new.kind /\ row.end = new.end
<1> DEFINE awake == [new EXCEPT !.status = "active", !.used = FALSE]
<1>1. awake \in Whites /\ awake.kind = new.kind /\ awake.end = new.end
    BY AwakeType
<1>2. row = new \/ row = awake  BY DEF Woken
<1> QED  BY <1>1, <1>2

\* extend_subscription_atomic: the end and what was due move together.
LEMMA WiExtendsStep ==
    ASSUME AccessInv, NEW s \in Sessions, WiExtends(s)
    PROVE  AccessInv'
<1> DEFINE t == task[s]
           renews == ~IsActive(wi.end) \/ wi.status = "expired"
           end == WiEndAfter(wi.end, t.b.n)
           added == IF renews THEN 0 ELSE wi.extra
           used == wi.used /\ ~renews
<1> USE DEF AccessInv
<1>1. /\ TypeOK /\ t \in Tasks /\ t # Idle /\ wi \in Whites /\ wi.kind = "paid" /\ wi.end \in Int
      /\ wiDue = wi.end /\ now \in Nat /\ t.b.n \in Nat
    BY DEF TypeOK, Tasks, Buttons, WiExtends, Handling, Paid, WiExtensionsCount, Whites
<1>2. end \in Int /\ added \in Nat /\ used \in BOOLEAN
    <2>1. wi.extra \in Nat  BY <1>1 DEF Whites
    <2>2. added \in Nat  BY <2>1
    <2>3. used \in BOOLEAN  BY Zenon
    <2> QED  BY <1>1, <2>2, <2>3, EndType, AdminConstants
<1>3. wi' = [wi EXCEPT !.end = end, !.status = "active", !.extra = added, !.used = used]
    BY <1>1 DEF WiExtends, WiExtended, Fresh, Whites
<1>4. wiDue' = end  BY <1>1 DEF WiExtends, WiEndAfter
<1> HIDE DEF end, added, used, renews
<1>5. wi' \in Whites /\ wi'.end = end /\ wi'.kind = "paid"  BY <1>1, <1>2, <1>3 DEF Whites
<1>6. WiExtensionsCount' /\ wiDue' \in Int  BY <1>2, <1>4, <1>5 DEF WiExtensionsCount
<1>7. taken' \in Seq(keys') /\ OncePerKey'
    BY <1>1, KeyRecorded DEF WiExtends, IsNew, Records
<1>8. screen' \in [Admins -> SUBSET Buttons]
    BY <1>1, ShowsType DEF WiExtends, Done, Tasks
<1>9. /\ form' \in [Admins -> Forms] /\ talks' \in Nat /\ purse' \in Nat
    BY <1>1 DEF WiExtends, TypeOK
<1> QED  BY <1>5, <1>6, <1>7, <1>8, <1>9, EndingStep DEF WiExtends, Done

LEMMA TrafficStep ==
    ASSUME AccessInv, NEW s \in Sessions, TrafficAdds(s) \/ TrafficResets(s) \/ QuotaSets(s)
    PROVE  AccessInv'
<1> DEFINE n == task[s].b.n
           more == [wi EXCEPT !.extra = @ + n]
           reset == [wi EXCEPT !.status = "active", !.used = FALSE]
           set == [wi EXCEPT !.quota = n]
<1>1. TypeOK /\ task[s] # Idle /\ task[s] \in Tasks /\ wi \in Whites /\ n \in Nat
    BY DEF AccessInv, TypeOK, TrafficAdds, TrafficResets, QuotaSets, Handling, Tasks, Buttons
<1>2. more \in Whites /\ more.kind = wi.kind /\ more.end = wi.end
    <2>1. wi.extra + n \in Nat  BY <1>1 DEF Whites
    <2>2. ASSUME NEW x \in Nat
          PROVE  [wi EXCEPT !.extra = x] \in Whites /\ [wi EXCEPT !.extra = x].kind = wi.kind
                 /\ [wi EXCEPT !.extra = x].end = wi.end
        BY <1>1 DEF Whites
    <2>3. more = [wi EXCEPT !.extra = wi.extra + n]  BY <1>1 DEF Whites
    <2> QED  BY <2>1, <2>2, <2>3
<1>3. reset \in Whites /\ reset.kind = wi.kind /\ reset.end = wi.end
    BY <1>1, AwakeType
<1>4. set \in Whites /\ set.kind = wi.kind /\ set.end = wi.end  BY <1>1 DEF Whites
<1>5. CASE TrafficAdds(s)
    <2>1. PICK new \in Woken(more) : WiChanges(s, new)  BY <1>5 DEF TrafficAdds
    <2>2. IsNew(task[s]) /\ Records(s)  BY <1>5 DEF TrafficAdds
    <2> HIDE DEF more
    <2>3. new \in Whites /\ new.kind = wi.kind /\ new.end = wi.end  BY <1>2, <2>1, WokenType
    <2> QED  BY <1>1, <2>1, <2>2, <2>3, WiChangesStep
<1>6. CASE TrafficResets(s)
    <2>1. WiChanges(s, reset) /\ UNCHANGED <<keys, taken>>  BY <1>6 DEF TrafficResets, Plain
    <2> HIDE DEF reset
    <2> QED  BY <1>1, <1>3, <2>1, WiChangesStep
<1>7. CASE QuotaSets(s)
    <2>1. PICK new \in Woken(set) : Plain(s, new)  BY <1>7 DEF QuotaSets
    <2> HIDE DEF set
    <2>2. new \in Whites /\ new.kind = wi.kind /\ new.end = wi.end  BY <1>4, <2>1, WokenType
    <2> QED  BY <1>1, <2>1, <2>2, WiChangesStep DEF Plain
<1> QED  BY <1>5, <1>6, <1>7

LEMMA EmptiedType ==
    ASSUME TypeOK, NEW t, t.copy \in Whites, NEW most \in Nat
    PROVE  Emptied(t, most) \in Nat
<1>1. t.copy.seats \in Nat /\ wi.seats \in Nat  BY DEF TypeOK, Whites
<1> QED  BY <1>1 DEF Emptied

LEMMA SeatsStep ==
    ASSUME AccessInv, NEW s \in Sessions, LimitSets(s) \/ SeatsReset(s) \/ TokenResets(s)
    PROVE  AccessInv'
<1> DEFINE lim == task[s].b.lim
           added == IF task[s].copy.extra > lim * Cap THEN lim * Cap ELSE wi.extra
           seats == Emptied(task[s], lim)
           none == Emptied(task[s], 0)
           link == 1 - wi.link
           limited == [wi EXCEPT !.limit = lim, !.seats = seats, !.extra = added]
           reset == [wi EXCEPT !.seats = none]
           renewed == [wi EXCEPT !.seats = none, !.link = link]
<1>1. /\ TypeOK /\ task[s] # Idle /\ task[s] \in Tasks /\ wi \in Whites /\ task[s].copy \in Whites
      /\ lim \in Nat
    <2>1. TypeOK /\ Working  BY DEF AccessInv
    <2>2. Handling(s, {"limit", "seats_reset", "token_reset"})
        BY DEF LimitSets, SeatsReset, TokenResets, Handling
    <2>3. task[s] # Idle /\ task[s] \in Tasks /\ wi \in Whites  BY <2>1, <2>2 DEF TypeOK, Handling
    <2>4. task[s].b \in Buttons  BY <2>3 DEF Tasks
    <2>5. lim \in Nat
        <3>1. task[s].b.lim \in Limits \cup {0}  BY <2>4 DEF Buttons
        <3>2. \A l \in Limits : l \in Nat  BY AdminConstants
        <3> QED  BY <3>1, <3>2
    <2>6. task[s].copy \in Whites
        BY <2>1, <2>2 DEF Working, HasRead, Handling, Standard
    <2> QED  BY <2>1, <2>3, <2>5, <2>6
<1>2. seats \in Nat /\ none \in Nat  BY <1>1, EmptiedType
<1>3. added \in Nat
    <2>1. lim * Cap \in Nat /\ wi.extra \in Nat  BY <1>1, AdminConstants DEF Whites
    <2> QED  BY <2>1
<1>4. link \in {0, 1}  BY <1>1 DEF Whites
<1>5. CASE LimitSets(s)
    <2>1. Plain(s, limited)  BY <1>1, <1>5 DEF LimitSets, Whites
    <2> HIDE DEF lim, added, seats
    <2>2. limited \in Whites /\ limited.kind = wi.kind /\ limited.end = wi.end
        BY <1>1, <1>2, <1>3 DEF Whites
    <2> HIDE DEF limited
    <2> QED  BY <1>1, <2>1, <2>2, WiChangesStep DEF Plain
<1>6. CASE SeatsReset(s)
    <2>1. Plain(s, reset)  BY <1>6 DEF SeatsReset
    <2> HIDE DEF none
    <2>2. reset \in Whites /\ reset.kind = wi.kind /\ reset.end = wi.end
        BY <1>1, <1>2 DEF Whites
    <2> HIDE DEF reset
    <2> QED  BY <1>1, <2>1, <2>2, WiChangesStep DEF Plain
<1>7. CASE TokenResets(s)
    <2>1. Plain(s, renewed)  BY <1>1, <1>7 DEF TokenResets, Whites
    <2> HIDE DEF none, link
    <2>2. renewed \in Whites /\ renewed.kind = wi.kind /\ renewed.end = wi.end
        BY <1>1, <1>2, <1>4 DEF Whites
    <2> HIDE DEF renewed
    <2> QED  BY <1>1, <2>1, <2>2, WiChangesStep DEF Plain
<1> QED  BY <1>5, <1>6, <1>7

\* A trial is granted to who has nothing, and nobody but a trial loses it.
LEMMA TrialStep ==
    ASSUME AccessInv, NEW s \in Sessions, TrialResets(s) \/ TrialGrants(s)
    PROVE  AccessInv'
<1> DEFINE off == [wi EXCEPT !.status = "disabled"]
           trial == [wi EXCEPT !.kind = "trial", !.status = "active", !.end = now + Day, !.limit = 1,
                               !.seats = 0, !.extra = 0, !.used = FALSE]
<1>1. TypeOK /\ task[s] # Idle /\ wi \in Whites /\ now \in Nat
    BY DEF AccessInv, TypeOK, TrialResets, TrialGrants, Handling
<1>2. off \in Whites /\ off.kind = wi.kind /\ off.end = wi.end  BY <1>1 DEF Whites
<1>3. CASE TrialResets(s)
    <2>1. Plain(s, off) \/ Plain(s, wi)  BY <1>3 DEF TrialResets
    <2> HIDE DEF off
    <2> QED  BY <1>1, <1>2, <2>1, WiChangesStep DEF Plain
<1>4. CASE TrialGrants(s)
    <2>1. Plain(s, trial)  BY <1>4 DEF TrialGrants
    <2>2. trial \in Whites /\ trial.kind = "trial"
        <3>1. ASSUME NEW end \in Int, NEW used \in BOOLEAN
              PROVE  LET row == [wi EXCEPT !.kind = "trial", !.status = "active", !.end = end,
                                           !.limit = 1, !.seats = 0, !.extra = 0, !.used = used]
                     IN  row \in Whites /\ row.kind = "trial"
            BY <1>1 DEF Whites
        <3>2. FALSE \in BOOLEAN  BY Zenon
        <3>3. now + Day \in Int  BY <1>1, AdminConstants
        <3> QED  BY <3>1, <3>2, <3>3, Zenon
    <2> HIDE DEF trial
    <2> QED  BY <1>1, <2>1, <2>2, WiChangesStep DEF Plain
<1> QED  BY <1>3, <1>4

\* The bonus balance: a key moves it once, and it is covered under the lock.
LEMMA CreditsStep ==
    ASSUME AccessInv, NEW s \in Sessions, Ends(s), NEW n \in Int, purse + n >= 0,
           NEW key, key \notin keys, Credits(s, n, key),
           screen' \in [Admins -> SUBSET Buttons], form' \in [Admins -> Forms]
    PROVE  AccessInv'
<1>1. TypeOK /\ OncePerKey /\ WiExtensionsCount /\ purse \in Nat
    BY DEF AccessInv, TypeOK
<1>2. taken' \in Seq(keys') /\ OncePerKey'  BY <1>1, KeyRecorded DEF Credits
<1>3. purse' \in Nat  BY <1>1 DEF Credits
<1>4. wi' \in Whites /\ wiDue' \in Int /\ talks' \in Nat /\ WiExtensionsCount'
    BY <1>1 DEF Credits, TypeOK, WiExtensionsCount
<1> QED  BY <1>2, <1>3, <1>4, EndingStep DEF Credits

LEMMA BalanceStep ==
    ASSUME AccessInv, NEW s \in Sessions, Presets(s) \/ Adjusts(s)
    PROVE  AccessInv'
<1>1. /\ TypeOK /\ task[s] \in Tasks /\ task[s].admin \in Admins
      /\ task[s].b.n \in Nat /\ task[s].form.n \in Int
      /\ screen \in [Admins -> SUBSET Buttons] /\ form \in [Admins -> Forms] /\ purse \in Nat
    BY DEF AccessInv, TypeOK, Presets, Adjusts, Handling, Tasks, Buttons, Forms
<1>2. CASE Presets(s)
    <2>1. /\ OpKey(task[s]) \notin keys /\ Credits(s, task[s].b.n, OpKey(task[s])) /\ Ends(s)
          /\ screen' = screen /\ form' = form
        BY <1>2 DEF Presets, IsNew
    <2>2. task[s].b.n \in Int /\ purse + task[s].b.n >= 0  BY <1>1
    <2> QED  BY <1>1, <2>1, <2>2, CreditsStep
<1>3. CASE Adjusts(s)
    <2>1. form' \in [Admins -> Forms] /\ Ends(s)  BY <1>1, <1>3, ForgetsType DEF Adjusts
    <2>2. CASE /\ Covers(task[s]) /\ AdjKey(task[s]) \notin keys
               /\ Credits(s, task[s].form.n, AdjKey(task[s])) /\ Shows(task[s].admin, {})
        <3>1. screen' \in [Admins -> SUBSET Buttons]  BY <1>1, <2>2, ShowsType
        <3>2. purse + task[s].form.n >= 0  BY <2>2 DEF Covers
        <3> QED  BY <1>1, <2>1, <2>2, <3>1, <3>2, CreditsStep
    <2>3. CASE UNCHANGED <<user, serves, wi, money, screen, held, now, talks, history, events>>
        <3>1. /\ UNCHANGED <<user, serves, held, now, cut, events>>
              /\ screen' \in [Admins -> SUBSET Buttons] /\ talks' \in Nat /\ wi' \in Whites
              /\ purse' \in Nat /\ wiDue' \in Int /\ taken' \in Seq(keys')
            BY <1>1, <2>3 DEF TypeOK, money, history
        <3>2. OncePerKey' /\ WiExtensionsCount'
            BY <2>3 DEF AccessInv, OncePerKey, WiExtensionsCount, money, history
        <3> QED  BY <2>1, <3>1, <3>2, EndingStep
    <2> QED  BY <1>3, <2>2, <2>3 DEF Adjusts
<1> QED  BY <1>2, <1>3

-----------------------------------------------------------------------------
\* What others do waits for the row, so that no change of it is in flight.
LEMMA NobodyPending ==
    ASSUME TypeOK, Working, held = Idle, UNCHANGED task
    PROVE  Working'
<1>1. \A s \in Sessions : task[s] # Idle => task[s].stage # "written"
    BY AdminConstants DEF TypeOK, Working, Pending
<1> QED  BY <1>1 DEF Working, HasRead

\* Nothing else of the types is touched elsewhere.
LEMMA ElsewhereStep ==
    ASSUME AccessInv, NEW kind, Elsewhere(kind), user' \in Users, serves' \in BOOLEAN,
           wi' \in Whites, now' = now, wiDue' \in Int, cut' \in BOOLEAN,
           DevicesFit', CutEnd', WiExtensionsCount'
    PROVE  AccessInv'
<1> USE DEF AccessInv
<1>1. TypeOK'
    <2>1. events' \in 0..MaxEvents  BY EventType DEF Elsewhere
    <2> QED  BY <2>1 DEF Elsewhere, TypeOK, money
<1>2. Working'  BY NobodyPending DEF Elsewhere
<1>3. OncePerKey'  BY DEF Elsewhere, OncePerKey, money
<1> QED  BY <1>1, <1>2, <1>3

LEMMA UserElsewhereStep ==
    ASSUME AccessInv,
           (\E n \in Numbers : Renewal(n)) \/ BanOrUnban \/ (\E n \in 0..3 : Device(n))
    PROVE  AccessInv'
<1> USE DEF AccessInv
<1>1. /\ user \in Users /\ now \in Nat /\ user.devices <= user.limit /\ serves \in BOOLEAN
      /\ wi \in Whites /\ wiDue \in Int /\ cut \in BOOLEAN /\ user.end \in Int /\ user.limit \in Nat
    BY AdminConstants DEF TypeOK, DevicesFit, Users
<1>2. ASSUME NEW n \in Numbers, Renewal(n) PROVE AccessInv'
    <2>1. EndAfter(user.end, n) \in Int  BY <1>1, EndType, AdminConstants
    <2>2. ASSUME NEW end \in Int
          PROVE  [user EXCEPT !.end = end] \in Users
                 /\ [user EXCEPT !.end = end].devices <= [user EXCEPT !.end = end].limit
        BY <1>1 DEF Users
    <2>3. user' = [user EXCEPT !.end = EndAfter(user.end, n)]  BY <1>1, <1>2 DEF Renewal, Users
    <2>4. user' \in Users /\ DevicesFit'  BY <2>1, <2>2, <2>3 DEF DevicesFit
    <2>5. serves' \in BOOLEAN /\ cut' \in BOOLEAN /\ ~cut'  BY <1>2, Zenon DEF Renewal, Access
    <2>6. CutEnd' /\ WiExtensionsCount'
        BY <1>2, <2>5 DEF Renewal, CutEnd, WiExtensionsCount
    <2>7. Elsewhere("renewal") /\ wi' = wi /\ wiDue' = wiDue /\ now' = now  BY <1>2 DEF Renewal
    <2> QED  BY <1>1, <2>4, <2>5, <2>6, <2>7, ElsewhereStep
<1>3. CASE BanOrUnban
    <2>1. ASSUME NEW banned \in BOOLEAN
          PROVE  LET row == [user EXCEPT !.banned = banned]
                 IN  row \in Users /\ row.devices <= row.limit /\ row.end = user.end
        BY <1>1 DEF Users
    <2>2. (~user.banned) \in BOOLEAN  BY Zenon
    <2>3. user' = [user EXCEPT !.banned = ~user.banned]  BY <1>1, <1>3 DEF BanOrUnban, Users
    <2>4. user' \in Users /\ DevicesFit' /\ user'.end = user.end
        BY <2>1, <2>2, <2>3, Zenon DEF DevicesFit
    <2>5. serves' \in BOOLEAN  BY <1>3, Zenon DEF BanOrUnban, Access
    <2>6. CutEnd'
        <3>1. serves' => user.end + Grace >= now  BY <1>3 DEF BanOrUnban, Access
        <3>2. cut' = cut /\ now' = now  BY <1>3 DEF BanOrUnban
        <3> QED  BY <1>1, <2>4, <3>1, <3>2, AdminConstants DEF CutEnd
    <2>7. /\ Elsewhere("ban") /\ wi' = wi /\ wiDue' = wiDue /\ now' = now /\ cut' = cut
        BY <1>3 DEF BanOrUnban
    <2>8. WiExtensionsCount'  BY <2>7 DEF WiExtensionsCount
    <2> QED  BY <1>1, <2>4, <2>5, <2>6, <2>7, <2>8, ElsewhereStep
<1>4. ASSUME NEW n \in 0..3, Device(n) PROVE AccessInv'
    <2>1. user' = [user EXCEPT !.devices = n] /\ n \in Nat /\ n <= user.limit
        BY <1>1, <1>4 DEF Device
    <2>2. user' \in Users /\ DevicesFit' /\ user'.end = user.end
        BY <1>1, <2>1 DEF Users, DevicesFit
    <2>3. /\ Elsewhere("device") /\ UNCHANGED <<serves, wi, now, wiDue, cut>>  BY <1>4 DEF Device
    <2>4. CutEnd' /\ WiExtensionsCount'  BY <2>2, <2>3 DEF CutEnd, WiExtensionsCount
    <2> QED  BY <1>1, <2>2, <2>3, <2>4, ElsewhereStep
<1> QED  BY <1>2, <1>3, <1>4

LEMMA WiElsewhereStep == ASSUME AccessInv, WiElsewhere PROVE AccessInv'
<1> USE DEF AccessInv
<1>1. /\ wi \in Whites /\ now \in Nat /\ wiDue \in Int /\ wi.end \in Int /\ wi.seats + 1 \in Nat
      /\ user \in Users /\ serves \in BOOLEAN /\ cut \in BOOLEAN
    BY DEF TypeOK, Whites
<1>2. /\ Elsewhere("wi") /\ UNCHANGED <<user, serves, now, cut>>  BY DEF WiElsewhere
<1>3. DevicesFit' /\ CutEnd'  BY <1>2 DEF DevicesFit, CutEnd
<1>4. wi' \in Whites /\ wiDue' \in Int /\ WiExtensionsCount'
    <2>1. CASE /\ Paid /\ wi' = [wi EXCEPT !.end = WiEndAfter(@, 1), !.status = "active"]
               /\ wiDue' = Larger(wiDue, now) + Day
        <3>1. WiEndAfter(wi.end, 1) \in Int  BY <1>1, EndType, AdminConstants
        <3>2. wiDue = wi.end  BY <2>1 DEF Paid, WiExtensionsCount
        <3>3. wiDue' = WiEndAfter(wi.end, 1)  BY <2>1, <3>2, AdminConstants DEF WiEndAfter
        <3>4. ASSUME NEW end \in Int
              PROVE  LET row == [wi EXCEPT !.end = end, !.status = "active"]
                     IN  row \in Whites /\ row.end = end
            BY <1>1 DEF Whites
        <3>5. wi' = [wi EXCEPT !.end = WiEndAfter(wi.end, 1), !.status = "active"]
            BY <1>1, <2>1 DEF Whites
        <3>6. wi' \in Whites /\ wi'.end = WiEndAfter(wi.end, 1)  BY <3>1, <3>4, <3>5
        <3> QED  BY <3>1, <3>3, <3>6 DEF WiExtensionsCount
    <2>2. CASE wi' = [wi EXCEPT !.seats = @ + 1] /\ UNCHANGED wiDue
        <3>1. ASSUME NEW n \in Nat
              PROVE  LET row == [wi EXCEPT !.seats = n]
                     IN  row \in Whites /\ row.end = wi.end /\ row.kind = wi.kind
            BY <1>1 DEF Whites
        <3>2. wi' = [wi EXCEPT !.seats = wi.seats + 1]  BY <1>1, <2>2 DEF Whites
        <3>3. wi' \in Whites /\ wi'.end = wi.end /\ wi'.kind = wi.kind  BY <1>1, <3>1, <3>2
        <3> QED  BY <1>1, <2>2, <3>3 DEF WiExtensionsCount
    <2>3. CASE wi' = [wi EXCEPT !.status = "exhausted", !.used = TRUE] /\ UNCHANGED wiDue
        <3>1. ASSUME NEW used \in BOOLEAN
              PROVE  LET row == [wi EXCEPT !.status = "exhausted", !.used = used]
                     IN  row \in Whites /\ row.end = wi.end /\ row.kind = wi.kind
            BY <1>1 DEF Whites
        <3>2. TRUE \in BOOLEAN  BY Zenon
        <3>3. wi' \in Whites /\ wi'.end = wi.end /\ wi'.kind = wi.kind
            BY <2>3, <3>1, <3>2, Zenon
        <3> QED  BY <1>1, <2>3, <3>3 DEF WiExtensionsCount
    <2>4. CASE wi' = [wi EXCEPT !.kind = "none"] /\ UNCHANGED wiDue
        BY <1>1, <2>4 DEF Whites, WiExtensionsCount
    <2> QED  BY <2>1, <2>2, <2>3, <2>4 DEF WiElsewhere
<1> QED  BY <1>1, <1>2, <1>3, <1>4, ElsewhereStep

LEMMA TickStep == ASSUME AccessInv, Tick PROVE AccessInv'
<1> USE DEF AccessInv
<1> DEFINE status == IF wi.status # "disabled" /\ wi.end <= now' THEN "expired" ELSE wi.status
<1>1. /\ wi \in Whites /\ now \in Nat /\ now' = now + 1 /\ user \in Users /\ user.end \in Int
    BY DEF TypeOK, Users, Tick
<1>2. wi' = [wi EXCEPT !.status = status]  BY <1>1 DEF Tick, Whites
<1>3. status \in {"active", "exhausted", "expired", "disabled"}  BY <1>1 DEF Whites
<1> HIDE DEF status
<1>4. wi' \in Whites /\ wi'.kind = wi.kind /\ wi'.end = wi.end  BY <1>1, <1>2, <1>3 DEF Whites
<1>5. serves' \in BOOLEAN  BY Zenon DEF Tick
<1>6. TypeOK'  BY <1>1, <1>4, <1>5 DEF Tick, TypeOK, money, history
<1>7. Working'
    <2>1. \A s \in Sessions : task[s] # Idle => task[s].at \in Nat
        BY DEF TypeOK, Tasks
    <2> QED  BY <1>1, <2>1 DEF Tick, Working, HasRead, Pending
<1>8. DevicesFit'  BY DEF Tick, DevicesFit
<1>9. CutEnd'
    <2>1. serves' => serves  BY DEF Tick
    <2> QED  BY <1>1, <2>1, AdminConstants DEF Tick, CutEnd, history
<1>10. OncePerKey' /\ WiExtensionsCount'
    BY <1>4 DEF Tick, OncePerKey, WiExtensionsCount, money, history
<1> QED  BY <1>6, <1>7, <1>8, <1>9, <1>10

-----------------------------------------------------------------------------
\* AccessInv is inductive.
LEMMA AccessStep == ASSUME AccessInv, [Next]_vars PROVE AccessInv'
<1>1. CASE UNCHANGED vars
    <2>1. TypeOK'  BY <1>1 DEF AccessInv, vars, TypeOK, money, history
    <2>2. Working'  BY <1>1 DEF AccessInv, vars, Working, Pending, HasRead, money, history
    <2>3. DevicesFit' /\ CutEnd' /\ OncePerKey' /\ WiExtensionsCount'
        BY <1>1 DEF AccessInv, vars, DevicesFit, CutEnd, OncePerKey, WiExtensionsCount, money, history
    <2> QED  BY <2>1, <2>2, <2>3 DEF AccessInv
<1>2. ASSUME NEW s \in Sessions,
             \/ Reads(s) \/ Extends(s) \/ Grants(s) \/ Changes(s) \/ Reduces(s) \/ Commits(s)
             \/ Rollback(s) \/ WiExtends(s) \/ TrafficAdds(s) \/ TrafficResets(s) \/ QuotaSets(s)
             \/ LimitSets(s) \/ SeatsReset(s) \/ TokenResets(s) \/ TrialResets(s) \/ TrialGrants(s)
             \/ Presets(s) \/ Adjusts(s) \/ Refused(s)
      PROVE  AccessInv'
    <2>1. CASE Refused(s)  BY <2>1, FailsStep DEF Refused
    <2> QED
        BY <1>2, <2>1, ReadsStep, ApplyStep, CommitsStep, RollbackStep, WiExtendsStep, TrafficStep,
           SeatsStep, TrialStep, BalanceStep
<1> QED
    BY <1>1, <1>2, StandardCardStep, WiCardStep, BalanceCardStep, TapStep, UserElsewhereStep,
       WiElsewhereStep, TickStep
    DEF Next

\* Rows, cards and handlers keep their shapes, every flushed change holds the
\* row it was made from, and what was cut stays cut.
THEOREM AccessInvariant == Spec => []AccessInv
<1>1. Init => AccessInv  BY AccessInit
<1>2. AccessInv /\ [Next]_vars => AccessInv'  BY AccessStep
<1> QED  BY <1>1, <1>2, PTL DEF Spec

\* The types, and a bonus balance that no deduction overdraws
\* (admin_adjust_balance looks at it under the lock of the row).
THEOREM AdminTypes == Spec => []TypeOK
<1>1. AccessInv => TypeOK  BY DEF AccessInv
<1> QED  BY <1>1, AccessInvariant, PTL

\* extend_subscription leaves no more devices than the limit it sets, and a
\* subscription that admin_sub_apply_reduce has cut gives no access until it
\* is extended, not even when a ban is lifted.
THEOREM StandardHolds == Spec => []StandardFits
<1>1. AccessInv => StandardFits
    <2>1. TypeOK /\ CutEnd => ReducedIsCut
        BY AdminConstants DEF TypeOK, Users, CutEnd, ReducedIsCut, Access
    <2> QED  BY <2>1 DEF AccessInv, StandardFits
<1> QED  BY <1>1, AccessInvariant, PTL

\* check_and_record_admin_op: a card and a message take effect once.
THEOREM KeysTakeOnce == Spec => []OncePerKey
<1>1. AccessInv => OncePerKey  BY DEF AccessInv
<1> QED  BY <1>1, AccessInvariant, PTL

\* extend_subscription_atomic reads the row anew under its lock, so that no
\* extension of White Internet is lost.
THEOREM WiExtensionsAdd == Spec => []WiExtensionsCount
<1>1. AccessInv => WiExtensionsCount  BY DEF AccessInv
<1> QED  BY <1>1, AccessInvariant, PTL

-----------------------------------------------------------------------------
\* Messages to many.
SendTasks == [pc : {"none", "start", "batch", "send", "checkpoint", "end"}, aud : Audiences \cup {Idle},
          last : 0..MaxUser, batch : SUBSET News!Users, sent : {"no", "ok", "forbidden", "error"}]

NewsShape ==
    /\ up \in BOOLEAN /\ claim \subseteq Staff /\ owned \subseteq Rows
    /\ member \in [News!Users -> [in : SUBSET Audiences, deaf : BOOLEAN, blocked : BOOLEAN]]
    /\ prompt \in [Staff -> News!Forms] /\ launch \in [Staff -> News!Forms \cup {Idle}]
    /\ progress \in [Rows -> News!Progress \cup {Idle}] /\ worker \in [Rows -> SendTasks]
    /\ got \in [Rows -> [News!Users -> Nat]] /\ breaks \in [Rows -> Nat]
    /\ tried \in [Rows -> SUBSET News!Users] /\ dueAll \in [Rows -> SUBSET News!Users]

Works(r) == worker[r].pc # "none"
Running(r) == progress[r] # Idle /\ progress[r].status = "in_progress"

\* A task works on a row in progress, as far as the row says; its admin has the claim.
WorkersOwn ==
    /\ \A r \in Rows : Works(r) => Running(r) /\ progress[r].admin \in claim
    /\ \A r \in Rows : r \in owned <=> worker[r].pc \notin {"none", "start"}
    /\ \A a \in Staff : launch[a] # Idle => a \in claim
    /\ \A a \in Staff, r \in Rows : launch[a] # Idle /\ Works(r) => progress[r].admin # a
    /\ \A r, q \in Rows : r # q /\ Works(r) /\ Works(q) => progress[r].admin # progress[q].admin
    /\ ~up => owned = {} /\ (\A r \in Rows : ~Works(r)) /\ (\A a \in Staff : launch[a] = Idle)

\* Reached: attempted, or not to be written to.
Reached(r, u) == member[u].blocked \/ u \in tried[r]

\* Who is due is in the audience still, and reached as far as the row says; a
\* completed row has reached all.
DueReached(r) ==
    progress[r] # Idle =>
        \A u \in dueAll[r] :
           /\ progress[r].aud \in member[u].in
           /\ u <= progress[r].last \/ progress[r].status = "completed" => Reached(r, u)

\* What is due is reached, in the batch, or beyond it.
BatchCovers(r) ==
    /\ worker[r].pc \in {"batch", "send", "checkpoint", "end"} => worker[r].aud = progress[r].aud
    /\ worker[r].pc \in {"batch", "send", "end"} => worker[r].last = progress[r].last
    /\ worker[r].pc \in {"send", "checkpoint"} =>
          \A u \in dueAll[r] : Reached(r, u) \/ u \in worker[r].batch \/ \A w \in worker[r].batch : w < u
    /\ worker[r].pc = "send" => worker[r].batch # {} /\ \A w \in worker[r].batch : progress[r].last < w
    /\ worker[r].pc = "checkpoint" =>
          /\ worker[r].last \in worker[r].batch /\ worker[r].last \in tried[r]
          /\ progress[r].last < worker[r].last
          /\ \A w \in worker[r].batch : worker[r].last <= w
    /\ worker[r].pc = "end" => \A u \in dueAll[r] : Reached(r, u)

\* Messages that a further attempt would repeat, or has repeated.
InFlight(r, u) == worker[r].pc = "checkpoint" /\ u = worker[r].last
Ahead(r, u) == progress[r].last < u /\ ~InFlight(r, u)
Repeatable(r) == {u \in News!Users : got[r][u] > 1 \/ (Running(r) /\ got[r][u] > 0 /\ Ahead(r, u))}

ReplaysCounted(r) ==
    /\ \A u \in News!Users :
          got[r][u] <= 1 + breaks[r] /\ (Running(r) /\ Ahead(r, u) => got[r][u] <= breaks[r])
    /\ Cardinality(Repeatable(r)) <= breaks[r]
    /\ progress[r] = Idle => ~Works(r) /\ \A u \in News!Users : got[r][u] = 0

RowHolds(r) == DueReached(r) /\ BatchCovers(r) /\ ReplaysCounted(r)

NewsInv == NewsShape /\ WorkersOwn /\ \A r \in Rows : RowHolds(r)

-----------------------------------------------------------------------------
\* A set of users has a first one.
LEMMA FirstUser ==
    ASSUME News!BroadcastConstants, NEW S \in SUBSET News!Users, S # {}
    PROVE  \E u \in S : \A w \in S : u <= w
<1> DEFINE R == OpToRel(<, Nat)
<1>1. S \subseteq Nat  BY DEF News!BroadcastConstants, News!Users
<1>2. PICK u \in S : \A w \in S : <<w, u>> \notin R
    BY <1>1, NatLessThanWellFounded, WFMin, Zenon
<1>3. \A w \in S : ~(w < u)  BY <1>1, <1>2 DEF OpToRel
<1> QED  BY <1>1, <1>3

LEMMA CurrentIsFirst ==
    ASSUME News!BroadcastConstants, NewsShape, NEW r \in Rows, worker[r].batch # {}
    PROVE  News!Current(r) \in worker[r].batch /\ \A w \in worker[r].batch : News!Current(r) <= w
<1>1. worker[r].batch \in SUBSET News!Users  BY DEF NewsShape, SendTasks
<1>2. \E u \in worker[r].batch : \A w \in worker[r].batch : u <= w  BY <1>1, FirstUser
<1> QED  BY <1>2 DEF News!Current

\* The number of a set is what it is in the module of the broadcasts.
LEMMA NewsCounts == \A S : News!Cardinality(S) = Cardinality(S)
BY DEF News!Cardinality, Cardinality

\* A batch takes the first of those who are left.
LEMMA BatchIsFirst ==
    ASSUME News!BroadcastConstants, NewsShape, NEW r \in Rows,
           NEW u \in News!Beyond(r), NEW w \in News!Batch(r), u \notin News!Batch(r)
    PROVE  w < u
<1>1. News!Beyond(r) \subseteq News!Users /\ News!Users \subseteq Nat /\ w \in News!Beyond(r)
    BY DEF News!Beyond, News!Audience, News!Batch, News!Users, News!BroadcastConstants
<1>0. u \in Nat /\ w \in Nat  BY <1>1
<1>2. SUFFICES ASSUME u <= w PROVE FALSE  BY <1>0
<1> DEFINE U == {x \in News!Beyond(r) : x < u}
           W == {x \in News!Beyond(r) : x < w}
<1>3. U \subseteq W
    <2>1. SUFFICES ASSUME NEW x \in News!Beyond(r), x < u PROVE x < w  OBVIOUS
    <2>2. x \in Nat  BY <1>1
    <2> QED  BY <2>1, <2>2, <1>0, <1>2
<1>4. IsFiniteSet(News!Users)  BY FS_Interval DEF News!Users, News!BroadcastConstants
<1>5. IsFiniteSet(W)
    <2>1. W \in SUBSET News!Users  BY <1>1
    <2> QED  BY <2>1, <1>4, FS_Subset
<1>6. Cardinality(U) <= Cardinality(W) /\ Cardinality(U) \in Nat /\ Cardinality(W) \in Nat
    <2>1. IsFiniteSet(U) /\ Cardinality(U) <= Cardinality(W)  BY <1>3, <1>5, FS_Subset
    <2> QED  BY <2>1, <1>5, FS_CardinalityType
<1>7. Cardinality(W) < BatchSize  BY NewsCounts DEF News!Batch
<1>8. ~(Cardinality(U) < BatchSize)  BY NewsCounts DEF News!Batch
<1> QED  BY <1>6, <1>7, <1>8 DEF News!BroadcastConstants

LEMMA EmptyBatch ==
    ASSUME News!BroadcastConstants, NewsShape, NEW r \in Rows, News!Batch(r) = {}
    PROVE  News!Beyond(r) = {}
<1>1. SUFFICES ASSUME News!Beyond(r) # {} PROVE FALSE  OBVIOUS
<1>2. News!Beyond(r) \in SUBSET News!Users  BY DEF News!Beyond, News!Audience
<1>3. PICK u \in News!Beyond(r) : \A w \in News!Beyond(r) : u <= w  BY <1>1, <1>2, FirstUser
<1>4. {w \in News!Beyond(r) : w < u} = {}
    BY <1>2, <1>3 DEF News!Users, News!BroadcastConstants
<1>5. Cardinality({w \in News!Beyond(r) : w < u}) = 0  BY <1>4, FS_EmptySet
<1>6. u \in News!Batch(r)  BY <1>5, NewsCounts DEF News!Batch, News!BroadcastConstants
<1> QED  BY <1>6

-----------------------------------------------------------------------------
LEMMA NewsStart == ASSUME News!BroadcastConstants, News!Init PROVE NewsInv
<1> USE DEF News!Init
<1>1. NewsShape  BY DEF NewsShape, News!Blank, News!Forms, News!NoTask, SendTasks, News!Users,
    News!BroadcastConstants
<1>2. WorkersOwn  BY DEF WorkersOwn, Works, News!NoTask
<1>3. ASSUME NEW r \in Rows PROVE RowHolds(r)
    <2>1. DueReached(r) /\ BatchCovers(r)  BY DEF DueReached, BatchCovers, News!NoTask
    <2>2. Repeatable(r) = {}  BY DEF Repeatable, Running
    <2>3. Cardinality(Repeatable(r)) = 0  BY <2>2, FS_EmptySet
    <2>4. ReplaysCounted(r)  BY <2>3 DEF ReplaysCounted, Running, Works, News!NoTask
    <2> QED  BY <2>1, <2>4 DEF RowHolds
<1> QED  BY <1>1, <1>2, <1>3 DEF NewsInv

\* A row whose task does nothing keeps what it has; who is written to may only
\* turn out not to be reachable.
LEMMA RowRests ==
    ASSUME NewsInv, NEW r \in Rows,
           progress'[r] = progress[r], worker'[r] = worker[r], tried'[r] = tried[r],
           dueAll'[r] = dueAll[r], got'[r] = got[r], breaks'[r] = breaks[r],
           \A u \in News!Users : member'[u].in = member[u].in /\ (member[u].blocked => member'[u].blocked)
    PROVE  RowHolds(r)'
<1>0. dueAll[r] \subseteq News!Users /\ RowHolds(r)  BY DEF NewsInv, NewsShape
<1>1. \A u \in dueAll[r] : Reached(r, u) => Reached(r, u)'  BY <1>0 DEF Reached
<1>2. DueReached(r)'  BY <1>0, <1>1 DEF RowHolds, DueReached
<1>3. BatchCovers(r)'  BY <1>0, <1>1 DEF RowHolds, BatchCovers
<1>4. ReplaysCounted(r)'
    <2>1. Repeatable(r)' = Repeatable(r)  BY DEF Repeatable, Running, Ahead, InFlight
    <2> QED  BY <1>0, <2>1 DEF RowHolds, ReplaysCounted, Running, Ahead, InFlight, Works
<1> QED  BY <1>2, <1>3, <1>4 DEF RowHolds

\* What only the form, the launch, the claims change leaves the tasks as they are.
LEMMA TasksRest ==
    ASSUME NewsInv, NewsShape', WorkersOwn', UNCHANGED <<member, progress, worker, tried, dueAll, got, breaks>>
    PROVE  NewsInv'
<1>1. \A r \in Rows : RowHolds(r)'  BY RowRests
<1> QED  BY <1>1 DEF NewsInv

LEMMA FormStep ==
    ASSUME News!BroadcastConstants, NewsInv, NEW a \in Staff,
           \/ News!StartBroadcast(a) \/ News!LaunchClaims(a) \/ News!LaunchRefused(a)
           \/ \E aud \in Audiences : News!SelectAudience(a, aud)
           \/ \E text \in BOOLEAN : News!Message(a, text)
    PROVE  NewsInv'
<1> USE DEF NewsInv
<1>1. CASE News!StartBroadcast(a)
    <2>1. NewsShape' /\ WorkersOwn'
        BY <1>1 DEF News!StartBroadcast, News!hist, NewsShape, News!Blank, News!Forms,
           WorkersOwn, Works, Running
    <2> QED  BY <1>1, <2>1, TasksRest DEF News!StartBroadcast, News!hist
<1>2. ASSUME NEW aud \in Audiences, News!SelectAudience(a, aud) PROVE NewsInv'
    <2>1. NewsShape'
        <3> DEFINE first == [prompt EXCEPT ![a].state = "message"]
        <3>1. first \in [Staff -> News!Forms]  BY DEF NewsShape, News!Forms
        <3>2. prompt' = [first EXCEPT ![a].aud = aud]  BY <1>2 DEF News!SelectAudience,
            NewsShape
        <3>3. prompt' \in [Staff -> News!Forms]  BY <3>1, <3>2 DEF News!Forms
        <3> QED  BY <1>2, <3>3 DEF News!SelectAudience, News!hist, NewsShape
    <2>2. WorkersOwn'  BY <1>2 DEF News!SelectAudience, WorkersOwn, Works, Running
    <2> QED  BY <1>2, <2>1, <2>2, TasksRest DEF News!SelectAudience, News!hist
<1>3. ASSUME NEW text \in BOOLEAN, News!Message(a, text) PROVE NewsInv'
    <2>1. NewsShape'
        <3> DEFINE first == [prompt EXCEPT ![a].state = "confirm"]
        <3>1. first \in [Staff -> News!Forms]  BY DEF NewsShape, News!Forms
        <3>2. prompt' = [first EXCEPT ![a].text = text]  BY <1>3 DEF News!Message, NewsShape
        <3>3. prompt' \in [Staff -> News!Forms]  BY <3>1, <3>2 DEF News!Forms
        <3> QED  BY <1>3, <3>3 DEF News!Message, News!hist, NewsShape
    <2>2. WorkersOwn'  BY <1>3 DEF News!Message, WorkersOwn, Works, Running
    <2> QED  BY <1>3, <2>1, <2>2, TasksRest DEF News!Message, News!hist
<1>4. CASE News!LaunchClaims(a)
    <2>1. NewsShape'  BY <1>4 DEF News!LaunchClaims, News!hist, NewsShape
    <2>2. WorkersOwn'
        <3>1. launch' \in [Staff -> News!Forms \cup {Idle}] /\ \A b \in Staff : b # a => launch'[b] = launch[b]
            BY <1>4 DEF News!LaunchClaims, NewsShape
        <3>2. \A b \in Staff, r \in Rows : launch'[b] # Idle /\ Works(r) => progress[r].admin # b
            BY <1>4, <3>1 DEF News!LaunchClaims, WorkersOwn
        <3>3. \A b \in Staff : launch'[b] # Idle => b \in claim'
            BY <1>4, <3>1 DEF News!LaunchClaims, WorkersOwn
        <3> QED  BY <1>4, <3>2, <3>3 DEF News!LaunchClaims, News!hist, WorkersOwn, Works,
            Running
    <2> QED  BY <1>4, <2>1, <2>2, TasksRest DEF News!LaunchClaims, News!hist
<1>5. CASE News!LaunchRefused(a)
    <2>1. NewsShape'  BY <1>5 DEF News!LaunchRefused, News!hist, NewsShape, News!Blank,
        News!Forms
    <2>2. WorkersOwn'
        <3>1. launch'[a] = Idle /\ \A b \in Staff : b # a => launch'[b] = launch[b]
            BY <1>5 DEF News!LaunchRefused, NewsShape
        <3>2. \A r \in Rows : Works(r) => progress[r].admin \in claim'
            BY <1>5 DEF News!LaunchRefused, WorkersOwn
        <3>3. \A b \in Staff : launch'[b] # Idle => b # a /\ launch[b] # Idle  BY <3>1
        <3> QED  BY <1>5, <3>1, <3>2, <3>3 DEF News!LaunchRefused, News!hist, WorkersOwn,
            Works, Running
    <2> QED  BY <1>5, <2>1, <2>2, TasksRest DEF News!LaunchRefused, News!hist
<1> QED  BY <1>1, <1>2, <1>3, <1>4, <1>5

LEMMA CreateStep ==
    ASSUME News!BroadcastConstants, NewsInv, NEW a \in Staff, News!LaunchCreates(a)
    PROVE  NewsInv'
<1> USE DEF NewsInv
<1>1. PICK r \in News!NextRow :
        /\ launch[a] # Idle /\ launch[a].text /\ News!Audience(launch[a].aud) # {}
        /\ progress' = [progress EXCEPT ![r] = News!NewRow(a)]
        /\ worker' = [worker EXCEPT ![r] = [News!NoTask EXCEPT !.pc = "start"]]
        /\ dueAll' = [dueAll EXCEPT ![r] = News!Audience(launch[a].aud)]
        /\ launch' = [launch EXCEPT ![a] = Idle] /\ prompt' = [prompt EXCEPT ![a] = News!Blank]
        /\ UNCHANGED <<up, member, claim, owned, got, tried, breaks>>
    BY DEF News!LaunchCreates
<1> DEFINE new == [admin |-> a, aud |-> launch[a].aud, status |-> "in_progress",
                   last |-> 0, ok |-> 0, failed |-> 0]
<1>2. r \in Rows /\ progress[r] = Idle  BY DEF News!NextRow
<1>3. launch[a] \in News!Forms /\ progress'[r] = new /\ new \in News!Progress /\ new # Idle
    BY <1>1, <1>2 DEF NewsShape, News!NewRow, News!Progress, News!Forms, News!BroadcastConstants
<1>4. /\ worker'[r].pc = "start" /\ worker'[r] \in SendTasks
      /\ \A q \in Rows : q # r => progress'[q] = progress[q] /\ worker'[q] = worker[q] /\ dueAll'[q] = dueAll[q]
    <2>1. [News!NoTask EXCEPT !.pc = "start"]
            = [pc |-> "start", aud |-> Idle, last |-> 0, batch |-> {}, sent |-> "no"]
        BY DEF News!NoTask
    <2>2. 0 \in 0..MaxUser  BY DEF News!BroadcastConstants
    <2>3. [News!NoTask EXCEPT !.pc = "start"] \in SendTasks  BY <2>1, <2>2 DEF SendTasks
    <2>4. worker'[r] = [News!NoTask EXCEPT !.pc = "start"]  BY <1>1, <1>2 DEF NewsShape
    <2> QED  BY <1>1, <1>2, <2>1, <2>3, <2>4 DEF NewsShape
<1>5. dueAll'[r] = News!Audience(launch[a].aud) /\ dueAll'[r] \in SUBSET News!Users
    BY <1>1, <1>2 DEF NewsShape, News!Audience
<1>6. NewsShape'
    <2>1. progress' \in [Rows -> News!Progress \cup {Idle}]  BY <1>1, <1>2, <1>3, <1>4
        DEF NewsShape
    <2>2. worker' \in [Rows -> SendTasks]  BY <1>1, <1>2, <1>4 DEF NewsShape
    <2>3. dueAll' \in [Rows -> SUBSET News!Users]  BY <1>1, <1>2, <1>5, <1>4 DEF NewsShape
    <2>4. launch' \in [Staff -> News!Forms \cup {Idle}] /\ prompt' \in [Staff -> News!Forms]
        BY <1>1 DEF NewsShape, News!Blank, News!Forms
    <2> QED  BY <1>1, <2>1, <2>2, <2>3, <2>4 DEF NewsShape
<1>7. WorkersOwn'
    <2>1. \A q \in Rows : Works(q)' => Running(q)' /\ progress'[q].admin \in claim'
        BY <1>1, <1>2, <1>3, <1>4 DEF WorkersOwn, Works, Running
    <2>2. \A q \in Rows : q \in owned' <=> worker'[q].pc \notin {"none", "start"}
        <3>1. r \notin owned  BY <1>2 DEF RowHolds, WorkersOwn, ReplaysCounted, Works
        <3> QED  BY <1>1, <1>2, <1>4, <3>1 DEF WorkersOwn
    <2>3. /\ \A b \in Staff : launch'[b] # Idle => b \in claim' /\ b # a /\ launch[b] # Idle
          /\ launch'[a] = Idle
        BY <1>1 DEF WorkersOwn, NewsShape
    <2>4. \A b \in Staff, q \in Rows : launch'[b] # Idle /\ Works(q)' => progress'[q].admin # b
        BY <1>3, <1>4, <2>3 DEF WorkersOwn, Works
    <2>5. up  BY <1>1 DEF WorkersOwn, NewsShape
    <2>6. ASSUME NEW p \in Rows, NEW q \in Rows, p # q, Works(p)', Works(q)'
          PROVE  progress'[p].admin # progress'[q].admin
        BY <1>1, <1>3, <1>4, <2>6 DEF WorkersOwn, Works
    <2> QED  BY <1>1, <2>1, <2>2, <2>3, <2>4, <2>5, <2>6 DEF WorkersOwn
<1>8. RowHolds(r)'
    <2>1. \A u \in dueAll'[r] : progress'[r].aud \in member'[u].in /\ ~(u <= progress'[r].last)
        BY <1>1, <1>3, <1>5 DEF News!Audience, News!Users, News!BroadcastConstants
    <2>2. DueReached(r)'  BY <1>3, <2>1 DEF DueReached
    <2>3. BatchCovers(r)'  BY <1>4 DEF BatchCovers
    <2>4. RowHolds(r) /\ breaks'[r] \in Nat /\ breaks'[r] = breaks[r]  BY <1>1, <1>2
        DEF NewsShape
    <2>5. \A u \in News!Users : got'[r][u] = 0
        BY <1>1, <1>2, <2>4 DEF RowHolds, ReplaysCounted
    <2>6. Repeatable(r)' = {}  BY <2>5 DEF Repeatable
    <2>7. Cardinality(Repeatable(r)') = 0  BY <2>6, FS_EmptySet
    <2>8. ReplaysCounted(r)'  BY <1>3, <2>4, <2>5, <2>7 DEF ReplaysCounted
    <2> QED  BY <2>2, <2>3, <2>8 DEF RowHolds
<1>9. ASSUME NEW q \in Rows, q # r PROVE RowHolds(q)'
    BY <1>1, <1>4, <1>9, RowRests
<1> QED  BY <1>6, <1>7, <1>8, <1>9

-----------------------------------------------------------------------------
\* A task goes on: rows and claims stay with whom they were.
LEMMA OwnersRest ==
    ASSUME NewsInv, NEW r \in Rows, UNCHANGED <<up, claim, owned, launch>>,
           worker[r].pc \notin {"none", "start"}, worker'[r].pc \notin {"none", "start"},
           Running(r)', progress'[r].admin = progress[r].admin,
           \A q \in Rows : q # r => progress'[q] = progress[q] /\ worker'[q] = worker[q]
    PROVE  WorkersOwn'
BY DEF NewsInv, WorkersOwn, Works, Running

\* A task ends: nobody else has its row, nor another row of its admin.
LEMMA OwnersLeave ==
    ASSUME NewsInv, NEW r \in Rows, UNCHANGED <<up, launch>>, News!Leaves(r), Works(r),
           \A q \in Rows : q # r => progress'[q] = progress[q]
    PROVE  WorkersOwn'
<1> USE DEF NewsInv
<1>1. /\ worker'[r].pc = "none"
      /\ \A q \in Rows : q # r => worker'[q] = worker[q]
    BY DEF News!Leaves, News!NoTask, NewsShape
<1>2. \A q \in Rows : Works(q)' => Running(q)' /\ progress'[q].admin \in claim'
    <2>1. SUFFICES ASSUME NEW q \in Rows, Works(q)' PROVE Running(q)' /\ progress'[q].admin \in claim'
        OBVIOUS
    <2>2. q # r /\ Works(q)  BY <1>1, <2>1 DEF Works
    <2> QED  BY <2>2 DEF News!Leaves, WorkersOwn, Running
<1>3. \A q \in Rows : q \in owned' <=> worker'[q].pc \notin {"none", "start"}
    BY <1>1 DEF News!Leaves, WorkersOwn
<1>4. \A a \in Staff : launch'[a] # Idle => a \in claim'
    BY DEF News!Leaves, WorkersOwn
<1>5. \A a \in Staff, q \in Rows : launch'[a] # Idle /\ Works(q)' => progress'[q].admin # a
    BY <1>1 DEF WorkersOwn, Works
<1>6. ~up' => owned' = {} /\ (\A q \in Rows : ~Works(q)') /\ (\A a \in Staff : launch'[a] = Idle)
    BY DEF WorkersOwn
<1>7. \A p, q \in Rows : p # q /\ Works(p)' /\ Works(q)' => progress'[p].admin # progress'[q].admin
    BY <1>1 DEF WorkersOwn, Works
<1> QED  BY <1>2, <1>3, <1>4, <1>5, <1>6, <1>7 DEF WorkersOwn

LEMMA BeginStep ==
    ASSUME News!BroadcastConstants, NewsInv, NEW r \in Rows, News!Begins(r)
    PROVE  NewsInv'
<1> USE DEF NewsInv
<1>1. r \notin owned /\ Works(r) /\ Running(r) /\ progress[r] \in News!Progress
    BY DEF News!Begins, WorkersOwn, Works, Running, NewsShape
<1> DEFINE new == [pc |-> "batch", aud |-> progress[r].aud, last |-> progress[r].last, batch |-> {}, sent |-> "no"]
<1>2. /\ owned' = owned \cup {r} /\ claim' = claim \cup {progress[r].admin}
      /\ worker' = [worker EXCEPT ![r] = new]
    BY <1>1 DEF News!Begins, Running, News!NoTask
<1>3. UNCHANGED <<up, member, prompt, progress, launch, got, tried, dueAll, breaks>>  BY DEF News!Begins, News!hist
<1>4. new \in SendTasks /\ progress[r].admin \in Staff  BY <1>1 DEF News!Progress, SendTasks
<1>5. worker'[r] = new /\ \A q \in Rows : q # r => worker'[q] = worker[q]
    BY <1>2 DEF NewsShape
<1>6. NewsShape'  BY <1>2, <1>3, <1>4 DEF NewsShape
<1>7. WorkersOwn'  BY <1>1, <1>2, <1>3, <1>5 DEF WorkersOwn, Works, Running
<1>8. RowHolds(r)'
    <2>1. RowHolds(r) /\ worker[r].pc = "start"  BY DEF News!Begins
    <2>2. DueReached(r)'  BY <1>3, <2>1 DEF RowHolds, DueReached, Reached
    <2>3. BatchCovers(r)'  BY <1>3, <1>5 DEF BatchCovers
    <2>4. Repeatable(r)' = Repeatable(r)
        BY <1>3, <1>5, <2>1 DEF Repeatable, Running, Ahead, InFlight
    <2>5. ReplaysCounted(r)'
        BY <1>1, <1>3, <1>5, <2>1, <2>4 DEF RowHolds, ReplaysCounted, Running, Ahead, InFlight,
           Works
    <2> QED  BY <2>2, <2>3, <2>5 DEF RowHolds
<1>9. ASSUME NEW q \in Rows, q # r PROVE RowHolds(q)'
    BY <1>3, <1>5, <1>9, RowRests
<1> QED  BY <1>6, <1>7, <1>8, <1>9

LEMMA BatchStep ==
    ASSUME News!BroadcastConstants, NewsInv, NEW r \in Rows, News!NextBatch(r)
    PROVE  NewsInv'
<1> USE DEF NewsInv
<1>1. /\ worker[r].pc = "batch" /\ Running(r) /\ RowHolds(r) /\ worker[r] \in SendTasks
      /\ progress[r] \in News!Progress
    BY DEF News!NextBatch, WorkersOwn, Works, Running, NewsShape
<1>2. UNCHANGED <<up, member, prompt, progress, claim, owned, launch, got, tried, dueAll,
breaks>>
    BY DEF News!NextBatch, News!hist
<1>3. \A q \in Rows : q # r => worker'[q] = worker[q]  BY DEF News!NextBatch, NewsShape
<1>4. News!Beyond(r) \subseteq News!Users /\ News!Users \subseteq Nat /\ News!Batch(r) \subseteq News!Beyond(r)
    BY DEF News!Beyond, News!Audience, News!Batch, News!Users, News!BroadcastConstants
<1>5. dueAll[r] \subseteq News!Users /\ \A u \in dueAll[r] : Reached(r, u) \/ u \in News!Beyond(r)
    <2>1. \A u \in dueAll[r] : worker[r].aud \in member[u].in /\ (u <= worker[r].last => Reached(r, u))
        BY <1>1 DEF RowHolds, BatchCovers, DueReached, Running
    <2>2. worker[r].last \in Nat /\ \A u \in dueAll[r] : u \in News!Users /\ u \in Nat
        BY <1>1, <1>4 DEF NewsShape, SendTasks, News!BroadcastConstants
    <2>3. \A u \in dueAll[r] : u <= worker[r].last \/ u > worker[r].last  BY <2>2
    <2> QED  BY <2>1, <2>2, <2>3 DEF News!Beyond, News!Audience, Reached
<1>6. CASE News!Batch(r) = {}
    <2>1. worker' = [worker EXCEPT ![r].pc = "end"]  BY <1>6 DEF News!NextBatch
    <2>2. worker'[r] = [worker[r] EXCEPT !.pc = "end"]  BY <2>1 DEF NewsShape
    <2>3. NewsShape'  BY <1>1, <1>2, <2>1 DEF NewsShape, SendTasks
    <2>4. WorkersOwn'
        BY <1>1, <1>2, <1>3, <2>2, OwnersRest DEF Running, SendTasks
    <2>5. \A u \in dueAll[r] : Reached(r, u)  BY <1>5, <1>6, EmptyBatch
    <2>6. BatchCovers(r)'
        BY <1>1, <1>2, <2>2, <2>5 DEF BatchCovers, RowHolds, SendTasks, Reached
    <2>7. DueReached(r)'  BY <1>1, <1>2 DEF RowHolds, DueReached, Reached
    <2>8. Repeatable(r)' = Repeatable(r)
        BY <1>1, <1>2, <2>2 DEF Repeatable, Running, Ahead, InFlight, SendTasks
    <2>9. ReplaysCounted(r)'
        BY <1>1, <1>2, <2>2, <2>8 DEF RowHolds, ReplaysCounted, Running, Ahead, InFlight,
           Works, SendTasks
    <2>10. ASSUME NEW q \in Rows, q # r PROVE RowHolds(q)'
        BY <1>2, <1>3, <2>10, RowRests
    <2> QED  BY <2>3, <2>4, <2>6, <2>7, <2>9, <2>10 DEF RowHolds
<1>7. CASE News!Batch(r) # {}
    <2> DEFINE new == [worker[r] EXCEPT !.pc = "send", !.batch = News!Batch(r)]
    <2>1. worker' = [worker EXCEPT ![r] = new]
        BY <1>1, <1>7 DEF News!NextBatch, Running, NewsShape
    <2>2. worker'[r] = new /\ new \in SendTasks /\ new.pc = "send" /\ new.batch = News!Batch(r)
          /\ new.last = worker[r].last /\ new.aud = worker[r].aud
        BY <1>1, <1>4, <2>1 DEF NewsShape, SendTasks
    <2>3. NewsShape'  BY <1>2, <2>1, <2>2 DEF NewsShape
    <2>4. WorkersOwn'
        BY <1>1, <1>2, <1>3, <2>2, OwnersRest DEF Running
    <2>5. \A u \in dueAll[r] : Reached(r, u) \/ u \in News!Batch(r) \/ \A w \in News!Batch(r) : w < u
        BY <1>5, BatchIsFirst
    <2>6. \A w \in News!Batch(r) : progress[r].last < w
        BY <1>1, <1>4 DEF News!Beyond, RowHolds, BatchCovers
    <2>7. BatchCovers(r)'
        BY <1>1, <1>2, <1>7, <2>2, <2>5, <2>6 DEF BatchCovers, RowHolds, Reached
    <2>8. DueReached(r)'  BY <1>1, <1>2 DEF RowHolds, DueReached, Reached
    <2>9. Repeatable(r)' = Repeatable(r)
        BY <1>1, <1>2, <2>2 DEF Repeatable, Running, Ahead, InFlight
    <2>10. ReplaysCounted(r)'
        BY <1>1, <1>2, <2>2, <2>9 DEF RowHolds, ReplaysCounted, Running, Ahead, InFlight, Works
    <2>11. ASSUME NEW q \in Rows, q # r PROVE RowHolds(q)'
        BY <1>2, <1>3, <2>11, RowRests
    <2> QED  BY <2>3, <2>4, <2>7, <2>8, <2>10, <2>11 DEF RowHolds
<1> QED  BY <1>6, <1>7

LEMMA CountShrinks ==
    ASSUME News!BroadcastConstants, NEW S \in SUBSET News!Users, NEW T \in SUBSET S
    PROVE  /\ Cardinality(T) <= Cardinality(S)
           /\ Cardinality(S) \in Nat /\ Cardinality(T) \in Nat /\ IsFiniteSet(S)
<1>1. IsFiniteSet(News!Users)  BY FS_Interval DEF News!Users, News!BroadcastConstants
<1>2. IsFiniteSet(S)  BY <1>1, FS_Subset
<1>3. IsFiniteSet(T) /\ Cardinality(T) <= Cardinality(S)  BY <1>2, FS_Subset
<1> QED  BY <1>2, <1>3, FS_CardinalityType

LEMMA SendStep ==
    ASSUME News!BroadcastConstants, NewsInv, NEW r \in Rows,
           NEW outcome \in {"ok", "forbidden", "error"}, News!Sends(r, outcome)
    PROVE  NewsInv'
<1> USE DEF NewsInv
<1> DEFINE c == News!Current(r)
           new == [worker[r] EXCEPT !.pc = "checkpoint", !.sent = outcome, !.last = c]
<1>1. /\ worker[r].pc = "send" /\ Running(r) /\ RowHolds(r) /\ worker[r] \in SendTasks
      /\ progress[r] \in News!Progress /\ c \in worker[r].batch /\ \A w \in worker[r].batch : c <= w
    BY CurrentIsFirst DEF News!Sends, WorkersOwn, Works, Running, NewsShape
<1>2. UNCHANGED <<up, member, prompt, progress, claim, owned, launch, dueAll, breaks>>  BY DEF News!Sends
<1>3. c \in News!Users /\ c \in 0..MaxUser /\ c \in Nat
    BY <1>1 DEF SendTasks, News!Users, News!BroadcastConstants
<1>4. worker' = [worker EXCEPT ![r] = new]  BY DEF News!Sends, NewsShape
<1>5. /\ worker'[r] = new /\ new \in SendTasks /\ new.pc = "checkpoint" /\ new.last = c
      /\ new.batch = worker[r].batch /\ new.aud = worker[r].aud
      /\ \A q \in Rows : q # r => worker'[q] = worker[q]
    BY <1>1, <1>3, <1>4 DEF NewsShape, SendTasks
<1>6. /\ got[r] \in [News!Users -> Nat] /\ got'[r][c] \in {got[r][c], got[r][c] + 1}
      /\ \A u \in News!Users : u # c => got'[r][u] = got[r][u]
      /\ \A q \in Rows : q # r => got'[q] = got[q]
      /\ got' \in [Rows -> [News!Users -> Nat]]
    <2>1. got[r] \in [News!Users -> Nat]  BY DEF NewsShape
    <2> DEFINE n == IF outcome = "ok" THEN got[r][c] + 1 ELSE got[r][c]
               g == [got[r] EXCEPT ![c] = n]
    <2>2. got' = [got EXCEPT ![r] = g]  BY DEF News!Sends, NewsShape
    <2>3. n \in Nat /\ n \in {got[r][c], got[r][c] + 1}  BY <1>3, <2>1
    <2>4. g \in [News!Users -> Nat] /\ g[c] = n /\ \A u \in News!Users : u # c => g[u] = got[r][u]
        <3> HIDE DEF n
        <3> QED  BY <1>3, <2>1, <2>3
    <2>5. got'[r] = g /\ \A q \in Rows : q # r => got'[q] = got[q]
        <3> HIDE DEF g
        <3> QED  BY <2>2 DEF NewsShape
    <2>6. got' \in [Rows -> [News!Users -> Nat]]
        <3> HIDE DEF g
        <3> QED  BY <2>2, <2>4 DEF NewsShape
    <2> HIDE DEF g, n
    <2> QED  BY <2>1, <2>3, <2>4, <2>5, <2>6
<1>7. /\ tried'[r] = tried[r] \cup {c} /\ \A q \in Rows : q # r => tried'[q] = tried[q]
      /\ tried' \in [Rows -> SUBSET News!Users]
    BY <1>3 DEF News!Sends, NewsShape
<1> HIDE DEF c, new
<1>8. NewsShape'
    <2>1. worker' \in [Rows -> SendTasks]  BY <1>4, <1>5 DEF NewsShape
    <2> QED  BY <1>2, <1>6, <1>7, <2>1 DEF NewsShape
<1>9. WorkersOwn'
    BY <1>1, <1>2, <1>5, OwnersRest DEF Running
<1>10. \A u \in News!Users : Reached(r, u) => Reached(r, u)'  BY <1>2, <1>7 DEF Reached
<1>11. RowHolds(r)'
    <2>0. dueAll[r] \subseteq News!Users  BY DEF NewsShape
    <2>1. DueReached(r)'  BY <1>1, <1>2, <1>10, <2>0 DEF RowHolds, DueReached
    <2>2. \A u \in dueAll[r] : Reached(r, u)' \/ u \in worker[r].batch \/ \A w \in worker[r].batch : w < u
        BY <1>1, <1>10, <2>0 DEF RowHolds, BatchCovers
    <2>3. BatchCovers(r)'
        BY <1>1, <1>2, <1>5, <1>7, <2>2 DEF RowHolds, BatchCovers
    <2>4. Running(r)' /\ breaks[r] \in Nat /\ \A u \in News!Users : Ahead(r, u)' => Ahead(r, u) /\ u # c
        BY <1>1, <1>2, <1>5 DEF Running, Ahead, InFlight, NewsShape
    <2>5. Ahead(r, c) /\ got[r][c] <= breaks[r]
        BY <1>1, <1>3 DEF RowHolds, BatchCovers, ReplaysCounted, Ahead, InFlight
    <2>6. Repeatable(r)' \subseteq Repeatable(r)
        <3>1. SUFFICES ASSUME NEW u \in News!Users, u \in Repeatable(r)' PROVE u \in Repeatable(r)
            BY DEF Repeatable
        <3>2. CASE u # c  BY <1>1, <1>6, <2>4, <3>1, <3>2 DEF Repeatable
        <3>3. CASE u = c
            <4>1. got'[r][c] > 1  BY <2>4, <3>1, <3>3 DEF Repeatable
            <4>2. got[r][c] \in Nat  BY <1>3, <1>6
            <4>3. got[r][c] > 0  BY <1>6, <4>1, <4>2
            <4> QED  BY <1>1, <1>3, <2>5, <3>3, <4>3 DEF Repeatable
        <3> QED  BY <3>2, <3>3
    <2>7. Cardinality(Repeatable(r)') <= breaks[r]
        <3>1. Repeatable(r) \in SUBSET News!Users /\ Repeatable(r)' \in SUBSET Repeatable(r)
            BY <2>6 DEF Repeatable
        <3>2. /\ Cardinality(Repeatable(r)') <= Cardinality(Repeatable(r))
              /\ Cardinality(Repeatable(r)) \in Nat /\ Cardinality(Repeatable(r)') \in Nat
            BY <3>1, CountShrinks
        <3> QED  BY <1>1, <2>4, <3>2 DEF RowHolds, ReplaysCounted
    <2>8. \A u \in News!Users : got'[r][u] <= 1 + breaks[r] /\ (Ahead(r, u)' => got'[r][u] <= breaks[r])
        <3>1. TAKE u \in News!Users
        <3>2. CASE u # c  BY <1>1, <1>6, <2>4, <3>2 DEF RowHolds, ReplaysCounted
        <3>3. CASE u = c  BY <1>3, <1>6, <2>4, <2>5, <3>3
        <3> QED  BY <3>2, <3>3
    <2>9. ReplaysCounted(r)'
        BY <1>1, <1>2, <2>4, <2>7, <2>8 DEF ReplaysCounted, Running
    <2> QED  BY <2>1, <2>3, <2>9 DEF RowHolds
<1>12. ASSUME NEW q \in Rows, q # r PROVE RowHolds(q)'
    BY <1>2, <1>5, <1>6, <1>7, <1>12, RowRests
<1> QED  BY <1>8, <1>9, <1>11, <1>12

LEMMA CheckpointStep ==
    ASSUME News!BroadcastConstants, NewsInv, NEW r \in Rows, News!Checkpoints(r)
    PROVE  NewsInv'
<1> USE DEF NewsInv
<1>0. PICK c : c = worker[r].last  OBVIOUS
<1> DEFINE new == [worker[r] EXCEPT !.pc = IF worker[r].batch = {c} THEN "batch" ELSE "send",
                                    !.batch = worker[r].batch \ {c}, !.sent = "no"]
           done == News!Checkpointed(r)
<1>1. /\ worker[r].pc = "checkpoint" /\ Running(r) /\ RowHolds(r) /\ worker[r] \in SendTasks
      /\ progress[r] \in News!Progress
    BY DEF News!Checkpoints, WorkersOwn, Works, Running, NewsShape
<1>2. UNCHANGED <<up, prompt, claim, owned, launch, got, tried, dueAll, breaks>>
    BY DEF News!Checkpoints, News!hist
<1>3. /\ c \in worker[r].batch /\ c \in tried[r] /\ progress[r].last < c
      /\ \A w \in worker[r].batch : c <= w
      /\ worker[r].aud = progress[r].aud /\ worker[r].batch \subseteq News!Users
    BY <1>0, <1>1 DEF RowHolds, BatchCovers, SendTasks
<1>4. c \in News!Users /\ c \in 0..MaxUser /\ c \in Nat /\ progress[r].last \in Nat /\ News!Users \subseteq Nat
    BY <1>1, <1>3 DEF News!Progress, News!Users, News!BroadcastConstants
<1>5. /\ done \in News!Progress /\ done # Idle /\ done.last = c /\ done.aud = progress[r].aud
      /\ done.admin = progress[r].admin /\ done.status = "in_progress"
    <2> DEFINE m == IF worker[r].sent = "ok" THEN progress[r].ok + 1 ELSE progress[r].ok
               n == IF worker[r].sent = "ok" THEN progress[r].failed ELSE progress[r].failed + 1
    <2>1. m \in Nat /\ n \in Nat  BY <1>1 DEF News!Progress
    <2>2. done = [progress[r] EXCEPT !.last = c, !.ok = m, !.failed = n]  BY <1>0
        DEF News!Checkpointed
    <2> HIDE DEF m, n, done
    <2>3. /\ done \in News!Progress /\ done.last = c /\ done.aud = progress[r].aud
          /\ done.admin = progress[r].admin /\ done.status = progress[r].status
        BY <1>1, <1>4, <2>1, <2>2 DEF News!Progress
    <2> QED  BY <1>1, <2>3 DEF Running, News!BroadcastConstants
<1>6. worker' = [worker EXCEPT ![r] = new]
    BY <1>0 DEF News!Checkpoints, NewsShape
<1>7. /\ worker'[r] = new /\ new \in SendTasks /\ new.pc \in {"batch", "send"}
      /\ new.pc = "send" => worker[r].batch # {c}
      /\ new.batch = worker[r].batch \ {c} /\ new.aud = worker[r].aud /\ new.last = c
      /\ \A q \in Rows : q # r => worker'[q] = worker[q]
    <2> DEFINE pc == IF worker[r].batch = {c} THEN "batch" ELSE "send"
    <2>1. pc \in {"batch", "send"} /\ (pc = "send" => worker[r].batch # {c})  OBVIOUS
    <2>2. new = [worker[r] EXCEPT !.pc = pc, !.batch = worker[r].batch \ {c}, !.sent = "no"]
        OBVIOUS
    <2>3. /\ new \in SendTasks /\ new.pc = pc /\ new.batch = worker[r].batch \ {c}
          /\ new.aud = worker[r].aud /\ new.last = c
        <3> HIDE DEF pc, new
        <3> QED  BY <1>0, <1>1, <1>3, <2>1, <2>2 DEF SendTasks
    <2> HIDE DEF pc, new
    <2> QED  BY <1>6, <2>1, <2>3 DEF NewsShape
<1>8. progress' = [progress EXCEPT ![r] = done]  BY DEF News!Checkpoints
<1>9. progress'[r] = done /\ \A q \in Rows : q # r => progress'[q] = progress[q]
    BY <1>8 DEF NewsShape
<1>10. /\ member' \in [News!Users -> [in : SUBSET Audiences, deaf : BOOLEAN, blocked : BOOLEAN]]
       /\ \A u \in News!Users : member'[u].in = member[u].in /\ (member[u].blocked => member'[u].blocked)
    BY <1>0, <1>4 DEF News!Checkpoints, NewsShape
<1> HIDE DEF new, done
<1>11. NewsShape'
    <2>1. worker' \in [Rows -> SendTasks]  BY <1>6, <1>7 DEF NewsShape
    <2>2. progress' \in [Rows -> News!Progress \cup {Idle}]  BY <1>5, <1>8 DEF NewsShape
    <2> QED  BY <1>2, <1>10, <2>1, <2>2 DEF NewsShape
<1>12. WorkersOwn'
    BY <1>1, <1>2, <1>5, <1>7, <1>9, OwnersRest DEF Running
<1>13. \A u \in News!Users : Reached(r, u) => Reached(r, u)'  BY <1>2, <1>10 DEF Reached
<1>14. \A u \in dueAll[r] : Reached(r, u) \/ (u \in worker[r].batch /\ u # c) \/ u = c
                            \/ \A w \in worker[r].batch : w < u
    BY <1>1 DEF RowHolds, BatchCovers
<1>15. RowHolds(r)'
    <2>0. dueAll[r] \subseteq News!Users /\ Reached(r, c)'  BY <1>2, <1>3 DEF NewsShape, Reached
    <2>1. DueReached(r)'
        <3>1. SUFFICES ASSUME NEW u \in dueAll[r]
                       PROVE  progress[r].aud \in member[u].in /\ (u <= c => Reached(r, u)')
            BY <1>2, <1>5, <1>9, <1>10, <2>0 DEF DueReached
        <3>2. progress[r].aud \in member[u].in /\ u \in Nat  BY <1>1, <1>4, <2>0 DEF RowHolds,
            DueReached, Running
        <3>3. ASSUME u <= c PROVE Reached(r, u)'
            <4>1. CASE u = c  BY <2>0, <4>1
            <4>2. CASE Reached(r, u)  BY <1>13, <2>0, <4>2
            <4>3. ~(\A w \in worker[r].batch : w < u)  BY <1>3, <1>4, <3>2, <3>3
            <4>4. CASE u \in worker[r].batch /\ u # c  BY <1>3, <1>4, <3>2, <3>3, <4>4
            <4> QED  BY <1>14, <4>1, <4>2, <4>3, <4>4
        <3> QED  BY <3>2, <3>3
    <2>2. BatchCovers(r)'
        <3>1. \A u \in dueAll[r] : Reached(r, u)' \/ u \in new.batch \/ \A w \in new.batch : w < u
            BY <1>0, <1>7, <1>13, <1>14, <2>0
        <3>2. new.pc = "send" => new.batch # {} /\ \A w \in new.batch : c < w
            <4>1. ASSUME NEW w \in new.batch PROVE c < w
                <5>1. w \in Nat /\ w # c /\ c <= w  BY <1>3, <1>4, <1>7
                <5> QED  BY <1>4, <5>1
            <4> QED  BY <1>3, <1>7, <4>1
        <3> QED  BY <1>2, <1>3, <1>5, <1>7, <1>9, <3>1, <3>2 DEF BatchCovers
    <2>3. \A u \in News!Users : Ahead(r, u)' => Ahead(r, u)
        <3>1. SUFFICES ASSUME NEW u \in News!Users, c < u PROVE progress[r].last < u /\ u # c
            BY <1>0, <1>1, <1>5, <1>7, <1>9 DEF Ahead, InFlight
        <3> QED  BY <1>3, <1>4, <3>1
    <2>4. Running(r)' /\ Running(r) /\ breaks[r] \in Nat  BY <1>1, <1>5, <1>9 DEF Running,
        NewsShape
    <2>5. Repeatable(r)' \subseteq Repeatable(r) /\ Repeatable(r) \in SUBSET News!Users
        BY <1>2, <2>3, <2>4 DEF Repeatable
    <2>6. Cardinality(Repeatable(r)') <= breaks[r]
        <3>1. /\ Cardinality(Repeatable(r)') <= Cardinality(Repeatable(r))
              /\ Cardinality(Repeatable(r)) \in Nat /\ Cardinality(Repeatable(r)') \in Nat
            BY <2>5, CountShrinks
        <3> QED  BY <1>1, <2>4, <3>1 DEF RowHolds, ReplaysCounted
    <2>7. ReplaysCounted(r)'
        BY <1>1, <1>2, <2>3, <2>4, <2>6 DEF RowHolds, ReplaysCounted, Running
    <2> QED  BY <2>1, <2>2, <2>7 DEF RowHolds
<1>16. ASSUME NEW q \in Rows, q # r PROVE RowHolds(q)'
    BY <1>2, <1>7, <1>9, <1>10, <1>16, RowRests
<1> QED  BY <1>11, <1>12, <1>15, <1>16

-----------------------------------------------------------------------------
\* A row without a task: closed, or, as the task broke off, in progress with
\* one more message that may come again.
LEMMA RowCloses ==
    ASSUME News!BroadcastConstants, NewsInv, NEW r \in Rows, progress[r] # Idle,
           NEW s \in {"completed", "stopped"}, progress'[r] = [progress[r] EXCEPT !.status = s],
           worker'[r].pc = "none", UNCHANGED <<member, tried, dueAll, got, breaks>>,
           s = "completed" => \A u \in dueAll[r] : Reached(r, u)
    PROVE  RowHolds(r)' /\ progress'[r] \in News!Progress
<1> USE DEF NewsInv
<1>1. progress[r] \in News!Progress /\ RowHolds(r) /\ breaks[r] \in Nat  BY DEF NewsShape
<1>2. progress'[r] \in News!Progress /\ progress'[r] # Idle /\ progress'[r].status = s
      /\ progress'[r].last = progress[r].last /\ progress'[r].aud = progress[r].aud
    BY <1>1 DEF News!Progress, News!BroadcastConstants
<1>3. DueReached(r)'  BY <1>1, <1>2 DEF RowHolds, DueReached, Reached
<1>4. BatchCovers(r)'  BY DEF BatchCovers
<1>5. ~Running(r)'  BY <1>2 DEF Running
<1>6. Repeatable(r)' \in SUBSET Repeatable(r) /\ Repeatable(r) \in SUBSET News!Users
    BY <1>5 DEF Repeatable
<1>7. /\ Cardinality(Repeatable(r)') <= Cardinality(Repeatable(r))
      /\ Cardinality(Repeatable(r)) \in Nat /\ Cardinality(Repeatable(r)') \in Nat
    BY <1>6, CountShrinks
<1>8. ReplaysCounted(r)'
    BY <1>1, <1>2, <1>5, <1>7 DEF RowHolds, ReplaysCounted
<1> QED  BY <1>2, <1>3, <1>4, <1>8 DEF RowHolds

LEMMA RowBreaks ==
    ASSUME News!BroadcastConstants, NewsInv, NEW r \in Rows, UNCHANGED <<member, tried, dueAll, got>>,
           progress'[r] = progress[r], worker'[r].pc = "none",
           breaks'[r] = breaks[r] + 1 \/ (worker[r].pc = "none" /\ breaks'[r] = breaks[r])
    PROVE  RowHolds(r)'
<1> USE DEF NewsInv
<1>1. RowHolds(r) /\ breaks[r] \in Nat /\ got[r] \in [News!Users -> Nat]  BY DEF NewsShape
<1>2. DueReached(r)' /\ BatchCovers(r)'
    BY <1>1 DEF RowHolds, DueReached, Reached, BatchCovers
<1>3. \A u \in News!Users : Ahead(r, u)' => Ahead(r, u) \/ (Works(r) /\ u = worker[r].last)
    BY DEF Ahead, InFlight, Works
<1>4. CASE breaks'[r] = breaks[r] + 1
    <2> DEFINE S == Repeatable(r) \cup {worker[r].last}
    <2>1. Repeatable(r)' \subseteq S  BY <1>3 DEF Repeatable, Running
    <2>2. Repeatable(r) \in SUBSET News!Users  BY DEF Repeatable
    <2>3. IsFiniteSet(Repeatable(r)) /\ Cardinality(Repeatable(r)) \in Nat
        BY <2>2, CountShrinks
    <2>4. IsFiniteSet(S) /\ Cardinality(S) \in {Cardinality(Repeatable(r)), Cardinality(Repeatable(r)) + 1}
        BY <2>3, FS_AddElement
    <2>5. IsFiniteSet(Repeatable(r)') /\ Cardinality(Repeatable(r)') <= Cardinality(S)
        BY <2>1, <2>4, FS_Subset
    <2>6. Cardinality(Repeatable(r)') \in Nat  BY <2>5, FS_CardinalityType
    <2>7. Cardinality(Repeatable(r)') <= breaks'[r]
        <3> HIDE DEF S
        <3> QED  BY <1>1, <1>4, <2>3, <2>4, <2>5, <2>6 DEF RowHolds, ReplaysCounted
    <2>8. \A u \in News!Users : got[r][u] <= breaks'[r]
        <3>1. TAKE u \in News!Users
        <3>2. got[r][u] \in Nat /\ got[r][u] <= 1 + breaks[r]
            BY <1>1 DEF RowHolds, ReplaysCounted
        <3> QED  BY <1>1, <1>4, <3>2
    <2>9. \A u \in News!Users : got[r][u] <= 1 + breaks'[r]
        <3>1. TAKE u \in News!Users
        <3>2. got[r][u] \in Nat /\ got[r][u] <= breaks'[r] /\ breaks'[r] \in Nat
            BY <1>1, <1>4, <2>8
        <3> QED  BY <3>2
    <2>10. ReplaysCounted(r)'
        BY <1>1, <2>7, <2>8, <2>9 DEF RowHolds, ReplaysCounted, Works
    <2> QED  BY <1>2, <2>10 DEF RowHolds
<1>5. CASE worker[r].pc = "none" /\ breaks'[r] = breaks[r]
    <2>1. Repeatable(r)' = Repeatable(r)
        BY <1>5 DEF Repeatable, Running, Ahead, InFlight
    <2>2. ReplaysCounted(r)'
        BY <1>1, <1>5, <2>1 DEF RowHolds, ReplaysCounted, Running, Ahead, InFlight, Works
    <2> QED  BY <1>2, <2>2 DEF RowHolds
<1> QED  BY <1>4, <1>5

LEMMA FinalStep ==
    ASSUME News!BroadcastConstants, NewsInv, NEW r \in Rows, News!Finalises(r)
    PROVE  NewsInv'
<1> USE DEF NewsInv
<1>1. worker[r].pc = "end" /\ Running(r) /\ Works(r) /\ RowHolds(r)
    BY DEF News!Finalises, WorkersOwn, Works
<1>2. UNCHANGED <<up, member, prompt, launch, got, tried, dueAll, breaks>> /\ News!Leaves(r)
    BY DEF News!Finalises, News!hist
<1>3. /\ progress'[r] = [progress[r] EXCEPT !.status = "completed"] /\ worker'[r] = News!NoTask
      /\ \A q \in Rows : q # r => progress'[q] = progress[q] /\ worker'[q] = worker[q]
    BY DEF News!Finalises, News!Leaves, NewsShape
<1>4. RowHolds(r)' /\ progress'[r] \in News!Progress
    <2>1. \A u \in dueAll[r] : Reached(r, u)  BY <1>1 DEF RowHolds, BatchCovers
    <2>2. worker'[r].pc = "none" /\ progress[r] # Idle  BY <1>1, <1>3 DEF Running, News!NoTask
    <2> QED  BY <1>2, <1>3, <2>1, <2>2, RowCloses
<1>5. NewsShape'
    <2>1. progress' \in [Rows -> News!Progress \cup {Idle}]  BY <1>3, <1>4 DEF News!Finalises,
        NewsShape
    <2>2. worker' \in [Rows -> SendTasks]
        BY <1>2 DEF News!Leaves, NewsShape, News!NoTask, SendTasks, News!BroadcastConstants
    <2> QED  BY <1>2, <2>1, <2>2 DEF News!Leaves, NewsShape
<1>6. WorkersOwn'  BY <1>1, <1>2, <1>3, OwnersLeave
<1>7. ASSUME NEW q \in Rows, q # r PROVE RowHolds(q)'
    BY <1>2, <1>3, <1>7, RowRests
<1> QED  BY <1>4, <1>5, <1>6, <1>7

LEMMA FailStep ==
    ASSUME News!BroadcastConstants, NewsInv, NEW r \in Rows, News!Fails(r)
    PROVE  NewsInv'
<1> USE DEF NewsInv
<1>1. Running(r) /\ Works(r) /\ RowHolds(r)
    BY DEF News!Fails, WorkersOwn, Works
<1>2. UNCHANGED <<up, member, prompt, launch, got, tried, dueAll>> /\ News!Leaves(r)
    BY DEF News!Fails
<1>3. worker'[r] = News!NoTask /\ worker'[r].pc = "none" /\ \A q \in Rows : q # r => worker'[q] = worker[q]
    BY DEF News!Fails, News!Leaves, News!NoTask, NewsShape
<1>4. worker' \in [Rows -> SendTasks]
    BY <1>2 DEF News!Leaves, NewsShape, News!NoTask, SendTasks, News!BroadcastConstants
<1>5. CASE progress' = [progress EXCEPT ![r].status = "stopped"] /\ UNCHANGED breaks
    <2>1. /\ progress'[r] = [progress[r] EXCEPT !.status = "stopped"]
          /\ \A q \in Rows : q # r => progress'[q] = progress[q]
        BY <1>5 DEF NewsShape
    <2>2. progress[r] # Idle  BY <1>1 DEF Running
    <2>3. RowHolds(r)' /\ progress'[r] \in News!Progress  BY <1>2, <1>3, <1>5, <2>1, <2>2,
        RowCloses
    <2>4. progress' \in [Rows -> News!Progress \cup {Idle}]  BY <1>5, <2>1, <2>3 DEF NewsShape
    <2>5. NewsShape'  BY <1>2, <1>4, <1>5, <2>4 DEF News!Leaves, NewsShape
    <2>6. WorkersOwn'  BY <1>1, <1>2, <2>1, OwnersLeave
    <2>7. ASSUME NEW q \in Rows, q # r PROVE RowHolds(q)'
        BY <1>2, <1>3, <1>5, <2>1, <2>7, RowRests
    <2> QED  BY <2>3, <2>5, <2>6, <2>7
<1>6. CASE UNCHANGED progress /\ breaks' = [breaks EXCEPT ![r] = @ + 1]
    <2>1. /\ breaks'[r] = breaks[r] + 1 /\ \A q \in Rows : q # r => breaks'[q] = breaks[q]
          /\ breaks' \in [Rows -> Nat]
        BY <1>6 DEF NewsShape
    <2>2. RowHolds(r)'  BY <1>2, <1>3, <1>6, <2>1, RowBreaks
    <2>3. NewsShape'  BY <1>2, <1>4, <1>6, <2>1 DEF News!Leaves, NewsShape
    <2>4. WorkersOwn'  BY <1>1, <1>2, <1>6, OwnersLeave
    <2>5. ASSUME NEW q \in Rows, q # r PROVE RowHolds(q)'
        BY <1>2, <1>3, <1>6, <2>1, <2>5, RowRests
    <2> QED  BY <2>2, <2>3, <2>4, <2>5
<1> QED  BY <1>5, <1>6 DEF News!Fails

LEMMA CrashStep ==
    ASSUME News!BroadcastConstants, NewsInv, News!Crash
    PROVE  NewsInv'
<1> USE DEF NewsInv, News!Crash
<1>1. News!NoTask \in SendTasks /\ News!NoTask.pc = "none"  BY DEF News!NoTask, SendTasks,
    News!BroadcastConstants
<1>2. breaks' \in [Rows -> Nat]  BY DEF NewsShape
<1>3. NewsShape'  BY <1>1, <1>2 DEF NewsShape
<1>4. WorkersOwn'  BY <1>1 DEF WorkersOwn, Works
<1>5. ASSUME NEW r \in Rows PROVE RowHolds(r)'
    <2>1. worker'[r].pc = "none"  BY <1>1
    <2>2. breaks'[r] = breaks[r] + 1 \/ (worker[r].pc = "none" /\ breaks'[r] = breaks[r])
        OBVIOUS
    <2> QED  BY <2>1, <2>2, RowBreaks
<1> QED  BY <1>3, <1>4, <1>5

\* Of an admin one row at most is the newest.
LEMMA ResumedOnce ==
    ASSUME News!BroadcastConstants, NewsShape, NEW r \in News!Resumed, NEW q \in News!Resumed, r # q
    PROVE  Running(r) /\ r \in Rows /\ progress[r].admin # progress[q].admin
<1>1. PICK a \in Staff : r \in News!Newest(a)  BY DEF News!Resumed
<1>2. PICK b \in Staff : q \in News!Newest(b)  BY DEF News!Resumed
<1>3. r \in News!InProgress(a) /\ q \in News!InProgress(b)  BY <1>1, <1>2 DEF News!Newest
<1>4. r \in Nat /\ q \in Nat  BY <1>3 DEF News!InProgress, News!BroadcastConstants
<1>5. ASSUME a = b PROVE FALSE
    <2>1. q <= r /\ r <= q  BY <1>1, <1>2, <1>3, <1>5 DEF News!Newest
    <2> QED  BY <1>4, <2>1
<1> QED  BY <1>3, <1>5 DEF News!InProgress, Running

LEMMA ResumeStep ==
    ASSUME News!BroadcastConstants, NewsInv, News!Resume
    PROVE  NewsInv'
<1> USE DEF NewsInv
<1>1. /\ \A r \in Rows : ~Works(r) /\ RowHolds(r)
      /\ owned' = {} /\ \A a \in Staff : launch'[a] = Idle
      /\ UNCHANGED <<member, prompt, launch, got, tried, dueAll, breaks>> /\ up'
    BY DEF News!Resume, News!hist, WorkersOwn
<1>2. \A r \in News!Resumed : r \in Rows /\ Running(r) /\ progress[r].admin \in Staff
    BY DEF News!Resumed, News!Newest, News!InProgress, Running
<1> DEFINE start == [pc |-> "start", aud |-> Idle, last |-> 0, batch |-> {}, sent |-> "no"]
<1>3. start \in SendTasks /\ News!NoTask \in SendTasks /\ News!NoTask.pc = "none"
    /\ [News!NoTask EXCEPT !.pc = "start"] = start
    BY DEF News!NoTask, SendTasks, News!BroadcastConstants
<1>4. worker' = [r \in Rows |-> IF r \in News!Resumed THEN start ELSE News!NoTask]
    BY <1>3 DEF News!Resume
<1>5. \A r \in Rows : /\ worker'[r].pc \in {"none", "start"}
                      /\ worker'[r].pc = "start" <=> r \in News!Resumed
    BY <1>3, <1>4
<1>6. ASSUME NEW r \in Rows, Running(r), r \notin News!Resumed
      PROVE  RowHolds(r)' /\ progress'[r] \in News!Progress /\ ~Works(r)'
    <2>1. progress'[r] = [progress[r] EXCEPT !.status = "stopped"] /\ progress[r] # Idle
        BY <1>6 DEF News!Resume, Running
    <2>2. worker'[r].pc = "none"  BY <1>5, <1>6
    <2>3. RowHolds(r)' /\ progress'[r] \in News!Progress
        BY <1>1, <2>1, <2>2, RowCloses
    <2> QED  BY <2>2, <2>3 DEF Works
<1>7. ASSUME NEW r \in Rows, ~Running(r) \/ r \in News!Resumed
      PROVE  progress'[r] = progress[r] /\ RowHolds(r)'
    <2>1. progress'[r] = progress[r]  BY <1>7 DEF News!Resume, Running
    <2>2. RowHolds(r) /\ worker[r].pc = "none" /\ worker'[r].pc \in {"none", "start"}
        BY <1>1, <1>5 DEF Works
    <2>3. DueReached(r)' /\ BatchCovers(r)'
        BY <1>1, <2>1, <2>2 DEF RowHolds, DueReached, Reached, BatchCovers
    <2>4. Repeatable(r)' = Repeatable(r)
        BY <1>1, <2>1, <2>2 DEF Repeatable, Running, Ahead, InFlight
    <2>5. progress[r] = Idle => worker'[r].pc = "none"
        BY <1>2, <1>5 DEF Running
    <2>6. ReplaysCounted(r)'
        BY <1>1, <2>1, <2>2, <2>4, <2>5 DEF RowHolds, ReplaysCounted, Running, Ahead, InFlight,
           Works
    <2> QED  BY <2>1, <2>3, <2>6 DEF RowHolds
<1>8. NewsShape'
    <2>1. worker' \in [Rows -> SendTasks]
        <3> HIDE DEF start
        <3> QED  BY <1>3, <1>4
    <2>2. progress' \in [Rows -> News!Progress \cup {Idle}]
        <3>1. \A r \in Rows : progress'[r] \in News!Progress \cup {Idle}  BY <1>6, <1>7
            DEF NewsShape
        <3> QED  BY <3>1 DEF News!Resume
    <2>3. claim' \subseteq Staff  BY <1>2 DEF News!Resume
    <2> QED  BY <1>1, <2>1, <2>2, <2>3 DEF NewsShape, News!Resume
<1>9. WorkersOwn'
    <2>1. \A r \in Rows : Works(r)' => r \in News!Resumed  BY <1>5 DEF Works
    <2>2. \A r \in Rows : Works(r)' => Running(r)' /\ progress'[r].admin \in claim'
        BY <1>2, <1>7, <2>1 DEF Running, News!Resume
    <2>3. \A r, q \in Rows : r # q /\ Works(r)' /\ Works(q)' => progress'[r].admin # progress'[q].admin
        BY <1>7, <2>1, ResumedOnce
    <2>4. \A r \in Rows : r \in owned' <=> worker'[r].pc \notin {"none", "start"}
        BY <1>1, <1>5
    <2> QED  BY <1>1, <2>2, <2>3, <2>4 DEF WorkersOwn
<1> QED  BY <1>6, <1>7, <1>8, <1>9

LEMMA UserStep ==
    ASSUME News!BroadcastConstants, NewsInv, NEW u \in News!Users, NEW in \in SUBSET Audiences,
           NEW deaf \in BOOLEAN, News!UserChanges(u, in, deaf)
    PROVE  NewsInv'
<1> USE DEF NewsInv
<1>1. UNCHANGED <<up, prompt, progress, claim, owned, worker, launch, got, tried, breaks>>
    BY DEF News!UserChanges
<1> DEFINE new == [member[u] EXCEPT !.in = in, !.deaf = deaf]
<1>2. member' = [member EXCEPT ![u] = new]  BY DEF News!UserChanges, NewsShape
<1>3. /\ new \in [in : SUBSET Audiences, deaf : BOOLEAN, blocked : BOOLEAN]
      /\ new.in = in /\ new.blocked = member[u].blocked
    BY DEF NewsShape
<1>4. /\ \A v \in News!Users : member'[v].blocked = member[v].blocked
      /\ member'[u].in = in /\ \A v \in News!Users : v # u => member'[v].in = member[v].in
      /\ member' \in [News!Users -> [in : SUBSET Audiences, deaf : BOOLEAN, blocked : BOOLEAN]]
    <2> HIDE DEF new
    <2> QED  BY <1>2, <1>3 DEF NewsShape
<1>5. \A r \in Rows : /\ dueAll'[r] \subseteq dueAll[r] /\ dueAll[r] \subseteq News!Users
                      /\ progress[r] # Idle /\ progress[r].aud \notin in => u \notin dueAll'[r]
    BY DEF News!UserChanges, NewsShape
<1>6. dueAll' \in [Rows -> SUBSET News!Users]  BY <1>5 DEF News!UserChanges
<1>7. NewsShape' /\ WorkersOwn'  BY <1>1, <1>4, <1>6 DEF NewsShape, WorkersOwn, Works, Running
<1>8. ASSUME NEW r \in Rows PROVE RowHolds(r)'
    <2>1. RowHolds(r) /\ \A v \in News!Users : Reached(r, v) <=> Reached(r, v)'
        BY <1>1, <1>4 DEF Reached
    <2>2. DueReached(r)'
        <3>1. SUFFICES ASSUME progress[r] # Idle, NEW v \in dueAll'[r]
                       PROVE  /\ progress[r].aud \in member'[v].in
                              /\ v <= progress[r].last \/ progress[r].status = "completed" => Reached(r, v)'
            BY <1>1 DEF DueReached
        <3>2. v \in dueAll[r] /\ v \in News!Users  BY <1>5
        <3> QED  BY <1>4, <1>5, <2>1, <3>1, <3>2 DEF RowHolds, DueReached
    <2>3. BatchCovers(r)'  BY <1>1, <1>5, <2>1 DEF RowHolds, BatchCovers
    <2>4. Repeatable(r)' = Repeatable(r)  BY <1>1 DEF Repeatable, Running, Ahead, InFlight
    <2>5. ReplaysCounted(r)'
        BY <1>1, <2>1, <2>4 DEF RowHolds, ReplaysCounted, Running, Ahead, InFlight, Works
    <2> QED  BY <2>2, <2>3, <2>5 DEF RowHolds
<1> QED  BY <1>7, <1>8

LEMMA NewsKept == ASSUME News!BroadcastConstants, NewsInv, [News!Next]_News!vars PROVE NewsInv'
<1>1. CASE UNCHANGED News!vars
    <2>1. NewsShape' /\ WorkersOwn'  BY <1>1 DEF News!vars, News!hist, NewsInv, NewsShape,
        WorkersOwn, Works, Running
    <2> QED  BY <1>1, <2>1, TasksRest DEF News!vars, News!hist
<1>2. CASE News!Next
    BY <1>2, FormStep, CreateStep, BeginStep, BatchStep, SendStep, CheckpointStep, FinalStep,
       FailStep,
       CrashStep, ResumeStep, UserStep DEF News!Next
<1> QED  BY <1>1, <1>2

LEMMA NewsMeans ==
    ASSUME News!BroadcastConstants, NewsInv
    PROVE  News!TypeOK /\ News!OneReplayPerCrash /\ News!CompletedReachedAll /\ News!OneTaskPerAdmin
<1> USE DEF NewsInv
<1>1. News!TypeOK  BY DEF NewsShape, News!TypeOK, News!Progress, SendTasks
<1>2. News!OneTaskPerAdmin  BY DEF News!OneTaskPerAdmin, WorkersOwn, Works
<1>3. News!CompletedReachedAll  BY DEF News!CompletedReachedAll, RowHolds, DueReached, Reached
<1>4. ASSUME NEW r \in Rows PROVE Cardinality({u \in News!Users : got[r][u] > 1}) <= breaks[r]
    <2> DEFINE again == {u \in News!Users : got[r][u] > 1}
    <2>1. again \in SUBSET Repeatable(r) /\ Repeatable(r) \in SUBSET News!Users  BY DEF Repeatable
    <2>2. /\ Cardinality(again) <= Cardinality(Repeatable(r))
          /\ Cardinality(again) \in Nat /\ Cardinality(Repeatable(r)) \in Nat
        BY <2>1, CountShrinks
    <2>3. Cardinality(Repeatable(r)) <= breaks[r] /\ breaks[r] \in Nat
        BY DEF NewsShape, RowHolds, ReplaysCounted
    <2> HIDE DEF again
    <2>4. Cardinality(again) <= breaks[r]  BY <2>2, <2>3
    <2> QED  BY <2>4 DEF again
<1>5. News!OneReplayPerCrash  BY <1>4, NewsCounts DEF News!OneReplayPerCrash, RowHolds, ReplaysCounted
<1> QED  BY <1>1, <1>2, <1>3, <1>5

\* broadcast.py: a completed broadcast has tried everyone who was in its
\* audience all the time, one task sends for an administrator, and every task
\* that was cut off repeats one message at most, for any users, rows, sizes of
\* a batch and administrators, whatever crashes and errors come in between.
THEOREM NewsDelivered ==
    ASSUME News!BroadcastConstants
    PROVE  News!Spec => /\ [](/\ News!TypeOK /\ News!OneReplayPerCrash
                              /\ News!CompletedReachedAll /\ News!OneTaskPerAdmin)
                        /\ []CompletedReachedAll
<1>1. News!Init => NewsInv  BY NewsStart
<1>2. NewsInv /\ [News!Next]_News!vars => NewsInv'  BY NewsKept
<1>3. NewsInv => News!TypeOK /\ News!OneReplayPerCrash /\ News!CompletedReachedAll /\ News!OneTaskPerAdmin
    BY NewsMeans
<1>4. NewsInv => CompletedReachedAll  BY <1>3 DEF CompletedReachedAll
<1> QED  BY <1>1, <1>2, <1>3, <1>4, PTL DEF News!Spec

-----------------------------------------------------------------------------
\* Extensions and bonuses for many.
Dialogs == [state : {"none", "days", "reason", "confirm", "amount", "bonus_reason", "bonus_confirm"},
            aud : Audiences \cup {Idle}, days : 0..MaxDays, amount : 0..MaxAmount, talk : Nat]
Answers == [aud : SUBSET Audiences, days : SUBSET Nat]

\* What a form holds has been picked.
Answered(f, p) == (f.aud # Idle => f.aud \in p.aud) /\ (f.days # Mass!Unset => f.days \in p.days)

Claims == [of : Dialogs, picked : Answers]
Clicks == {c \in Claims : Mass!Complete(c.of) /\ Answered(c.of, c.picked)}
GrantTasks == [kind : {"extend", "bonus"}, admin : Staff, talk : Nat, aud : Audiences \cup {Idle}, n : Nat,
           phase : {"new", "work", "over"}, todo : SUBSET People,
           given : SUBSET (People \X {"std", "wi", "bonus"}), picked : Answers]

GrantShape ==
    /\ person \in [People -> Mass!Persons] /\ begun \in Nat
    /\ prompt \in [Staff -> Dialogs] /\ chosen \in [Staff -> Answers]
    /\ click \in [Staff -> Seq(Clicks)] /\ lock \in [Staff -> Claims \cup {Idle}]
    /\ busy \in [extend : SUBSET Staff, bonus : SUBSET Staff]
    /\ run \in [Runs -> GrantTasks \cup {Idle}]

\* Forms and extensions say what was picked.
Picked ==
    /\ \A a \in Staff : Answered(prompt[a], chosen[a])
    /\ \A r \in Mass!Of("extend") : run[r].aud \in run[r].picked.aud /\ run[r].n \in run[r].picked.days

\* A bonus ends the conversation it is of: those begun are later than it.
TalksPass ==
    /\ \A a \in Staff : /\ prompt[a].talk <= begun
                        /\ lock[a] # Idle => lock[a].of.talk <= prompt[a].talk
    /\ \A r \in Mass!Of("bonus") :
          /\ run[r].talk < prompt[run[r].admin].talk
          /\ lock[run[r].admin] # Idle => run[r].talk < lock[run[r].admin].of.talk
    /\ \A r, s \in Mass!Of("bonus") : r # s /\ run[r].admin = run[s].admin => run[r].talk # run[s].talk

GrantInv == GrantShape /\ Picked /\ TalksPass

-----------------------------------------------------------------------------
LEMMA GrantStart == ASSUME Mass!GrantConstants, Mass!Init PROVE GrantInv
<1> USE DEF Mass!Init, Mass!GrantConstants
<1>1. Mass!Blank \in Dialogs /\ Mass!Nothing \in Answers  BY DEF Mass!Blank, Mass!Nothing,
    Dialogs, Answers, Mass!Unset
<1>2. <<>> \in Seq(Clicks)  OBVIOUS
<1>3. GrantShape  BY <1>1, <1>2 DEF GrantShape
<1>4. Picked  BY DEF Picked, Answered, Mass!Blank, Mass!Of, Mass!Unset
<1>5. TalksPass  BY DEF TalksPass, Mass!Blank, Mass!Of
<1> QED  BY <1>3, <1>4, <1>5 DEF GrantInv

\* A new conversation has picked nothing, and is later than all before.
LEMMA OpenedBlank ==
    ASSUME Mass!GrantConstants, GrantInv, NEW a \in Staff, Mass!Opened(a)
    PROVE  /\ prompt' \in [Staff -> Dialogs] /\ chosen' \in [Staff -> Answers]
           /\ begun' \in Nat /\ begun' = begun + 1
           /\ \A b \in Staff : Answered(prompt[b], chosen[b])' /\ prompt'[b].talk <= begun'
           /\ prompt'[a].talk = begun + 1
           /\ \A b \in Staff : b # a => prompt'[b] = prompt[b] /\ chosen'[b] = chosen[b]
<1> USE DEF GrantInv, GrantShape, Mass!Opened
<1> DEFINE new == [Mass!Blank EXCEPT !.talk = begun + 1]
<1>1. new = [state |-> "none", aud |-> Idle, days |-> 0, amount |-> 0, talk |-> begun + 1]
    BY DEF Mass!Blank, Mass!Unset
<1>2. new \in Dialogs /\ Mass!Nothing \in Answers
    BY <1>1 DEF Dialogs, Answers, Mass!Nothing, Mass!GrantConstants
<1>3. new.talk = begun + 1 /\ new.aud = Idle /\ new.days = Mass!Unset  BY <1>1 DEF Mass!Unset
<1> HIDE DEF new
<1>4. /\ prompt'[a] = new /\ \A b \in Staff : b # a => prompt'[b] = prompt[b] /\ chosen'[b] = chosen[b]
      /\ prompt' \in [Staff -> Dialogs] /\ chosen' \in [Staff -> Answers]
    BY <1>2 DEF new
<1>5. begun \in Nat /\ begun' = begun + 1  OBVIOUS
<1>6. prompt'[a].talk = begun + 1 /\ prompt'[a].aud = Idle /\ prompt'[a].days = Mass!Unset  BY <1>3, <1>4
<1>7. ASSUME NEW b \in Staff PROVE Answered(prompt[b], chosen[b])' /\ prompt'[b].talk <= begun'
    <2>1. CASE b = a
        <3>1. Answered(prompt[b], chosen[b])'  BY <1>6, <2>1, Zenon DEF Answered
        <3>2. prompt'[b].talk <= begun'  BY <1>5, <1>6, <2>1
        <3> QED  BY <3>1, <3>2
    <2>2. CASE b # a
        <3>1. prompt[b].talk <= begun /\ prompt[b].talk \in Nat  BY DEF TalksPass, Dialogs
        <3>2. prompt'[b].talk <= begun'  BY <1>4, <1>5, <2>2, <3>1
        <3> QED  BY <1>4, <2>2, <3>2 DEF Picked
    <2> QED  BY <2>1, <2>2
<1> HIDE DEF Mass!Opened, GrantInv, GrantShape
<1> QED  BY <1>4, <1>5, <1>6, <1>7

\* What changes only the conversation of one admin, and begins none.
LEMMA TalkGoesOn ==
    ASSUME GrantInv, UNCHANGED <<person, click, busy, lock, run, begun>>, NEW a \in Staff,
           NEW f \in Dialogs, prompt' = [prompt EXCEPT ![a] = f], f.talk = prompt[a].talk,
           NEW p \in Answers, chosen' = [chosen EXCEPT ![a] = p], Answered(f, p)
    PROVE  GrantInv'
<1> USE DEF GrantInv
<1>1. /\ prompt'[a] = f /\ chosen'[a] = p
      /\ \A b \in Staff : b # a => prompt'[b] = prompt[b] /\ chosen'[b] = chosen[b]
    BY DEF GrantShape
<1>2. \A b \in Staff : prompt'[b].talk = prompt[b].talk /\ Answered(prompt[b], chosen[b])'
    BY <1>1 DEF Picked
<1>3. GrantShape'  BY DEF GrantShape
<1>4. Picked'  BY <1>2 DEF Picked, Mass!Of
<1>5. TalksPass'
    <2>1. \A r \in Mass!Of("bonus") : run[r].admin \in Staff  BY DEF GrantShape, GrantTasks,
        Mass!Of
    <2> QED  BY <1>2, <2>1 DEF TalksPass, Mass!Of
<1> QED  BY <1>3, <1>4, <1>5

\* What begins a conversation and leaves clicks, locks and tasks as they are.
LEMMA TalkBegins ==
    ASSUME Mass!GrantConstants, GrantInv, UNCHANGED <<person, run>>, NEW a \in Staff, Mass!Opened(a),
           click' \in [Staff -> Seq(Clicks)], busy' \in [extend : SUBSET Staff, bonus : SUBSET Staff],
           lock' \in [Staff -> Claims \cup {Idle}], \A b \in Staff : lock'[b] \in {lock[b], Idle}
    PROVE  GrantInv'
<1> USE DEF GrantInv
<1>1. GrantShape'  BY OpenedBlank DEF GrantShape
<1>2. Picked'  BY OpenedBlank DEF Picked, Mass!Of
<1>3. TalksPass'
    <2>1. \A b \in Staff : prompt[b].talk \in Nat /\ prompt'[b].talk \in Nat
        BY OpenedBlank DEF GrantShape, Dialogs
    <2>2. \A b \in Staff : prompt[b].talk <= prompt'[b].talk
        <3>1. prompt[a].talk <= begun /\ begun \in Nat  BY DEF TalksPass, GrantShape
        <3> QED  BY <2>1, <3>1, OpenedBlank
    <2>3. \A b \in Staff : lock'[b] # Idle =>
             lock'[b] = lock[b] /\ lock[b] # Idle /\ lock[b].of.talk \in Nat
        BY DEF GrantShape, Claims, Dialogs
    <2>4. \A r \in Mass!Of("bonus") : run[r].admin \in Staff /\ run[r].talk \in Nat
        BY DEF GrantShape, GrantTasks, Mass!Of
    <2>5. \A b \in Staff : lock'[b] # Idle => lock'[b].of.talk <= prompt'[b].talk
        BY <2>1, <2>2, <2>3 DEF TalksPass
    <2>6. ASSUME NEW r \in Mass!Of("bonus") PROVE run[r].talk < prompt'[run[r].admin].talk
        <3>1. run[r].admin \in Staff /\ run[r].talk \in Nat  BY <2>4
        <3>2. run[r].talk < prompt[run[r].admin].talk  BY DEF TalksPass
        <3> QED  BY <2>1, <2>2, <3>1, <3>2
    <2>7. \A r \in Mass!Of("bonus") : lock'[run[r].admin] # Idle => run[r].talk < lock'[run[r].admin].of.talk
        BY <2>3, <2>4 DEF TalksPass
    <2>8. Mass!Of("bonus")' = Mass!Of("bonus")  BY DEF Mass!Of
    <2> QED  BY <2>5, <2>6, <2>7, <2>8, OpenedBlank DEF TalksPass
<1> QED  BY <1>1, <1>2, <1>3

-----------------------------------------------------------------------------
LEMMA PickStep ==
    ASSUME Mass!GrantConstants, GrantInv, NEW a \in Staff,
           \/ \E aud \in Audiences : Mass!PickExtendAudience(a, aud) \/ Mass!PickBonusAudience(a, aud)
           \/ \E n \in Numbers : Mass!PickDays(a, n) \/ Mass!TypeDays(a, n)
    PROVE  GrantInv'
<1> USE DEF GrantInv
<1>1. prompt[a] \in Dialogs /\ chosen[a] \in Answers /\ Answered(prompt[a], chosen[a])
    BY DEF GrantShape, Picked
<1>2. ASSUME NEW aud \in Audiences, Mass!PickExtendAudience(a, aud) PROVE GrantInv'
    <2> DEFINE f == [prompt[a] EXCEPT !.aud = aud]
               p == [chosen[a] EXCEPT !.aud = @ \cup {aud}]
    <2>1. f \in Dialogs /\ p \in Answers /\ f.talk = prompt[a].talk /\ Answered(f, p)
        BY <1>1 DEF Dialogs, Answers, Answered
    <2>2. /\ UNCHANGED <<person, click, busy, lock, run, begun>>
          /\ prompt' = [prompt EXCEPT ![a] = f] /\ chosen' = [chosen EXCEPT ![a] = p]
        BY <1>2 DEF Mass!PickExtendAudience
    <2> HIDE DEF f, p
    <2> QED  BY <2>1, <2>2, TalkGoesOn
<1>3. ASSUME NEW aud \in Audiences, Mass!PickBonusAudience(a, aud) PROVE GrantInv'
    <2> DEFINE f == [prompt[a] EXCEPT !.aud = aud, !.state = "amount"]
               p == [chosen[a] EXCEPT !.aud = @ \cup {aud}]
    <2>1. f \in Dialogs /\ p \in Answers /\ f.talk = prompt[a].talk /\ Answered(f, p)
        BY <1>1 DEF Dialogs, Answers, Answered
    <2>2. UNCHANGED <<person, click, busy, lock, run, begun>> /\ chosen' = [chosen EXCEPT ![a] = p]
        BY <1>3 DEF Mass!PickBonusAudience
    <2>3. prompt' = [prompt EXCEPT ![a] = f]  BY <1>3 DEF Mass!PickBonusAudience, GrantShape
    <2> HIDE DEF f, p
    <2> QED  BY <2>1, <2>2, <2>3, TalkGoesOn
<1>4. ASSUME NEW n \in Numbers, Mass!PickDays(a, n) \/ Mass!TypeDays(a, n) PROVE GrantInv'
    <2> DEFINE f == [prompt[a] EXCEPT !.days = n, !.state = "confirm"]
               p == [chosen[a] EXCEPT !.days = @ \cup {n}]
    <2>0. n \in 0..MaxDays /\ n \in Nat /\ n # Mass!Unset
        BY <1>4 DEF Mass!PickDays, Mass!TypeDays, Mass!Unset, Mass!GrantConstants
    <2>1. f \in Dialogs /\ p \in Answers /\ f.talk = prompt[a].talk /\ Answered(f, p)
        BY <1>1, <2>0 DEF Dialogs, Answers, Answered
    <2>2. UNCHANGED <<person, click, busy, lock, run, begun>> /\ chosen' = [chosen EXCEPT ![a] = p]
        BY <1>4 DEF Mass!PickDays, Mass!TypeDays, Mass!Chose
    <2>3. prompt' = [prompt EXCEPT ![a] = f]  BY <1>4 DEF Mass!PickDays, Mass!TypeDays,
        Mass!ExtendCard, GrantShape
    <2> HIDE DEF f, p
    <2> QED  BY <2>1, <2>2, <2>3, TalkGoesOn
<1> QED  BY <1>2, <1>3, <1>4

\* The cards and texts that store no choice.
LEMMA GrantCardStep ==
    ASSUME Mass!GrantConstants, GrantInv, NEW a \in Staff,
           \/ Mass!CustomDays(a) \/ Mass!EditReason(a) \/ Mass!SkipReason(a) \/ Mass!BackToConfirm(a)
              \/ Mass!TypeReason(a)
           \/ Mass!TypeBonusReason(a) \/ \E n \in Numbers : Mass!TypeAmount(a, n)
    PROVE  GrantInv'
<1> USE DEF GrantInv
<1>1. prompt[a] \in Dialogs /\ chosen[a] \in Answers /\ Answered(prompt[a], chosen[a])
    BY DEF GrantShape, Picked
<1>2. UNCHANGED <<person, click, busy, lock, run, begun>> /\ chosen' = [chosen EXCEPT ![a] = chosen[a]]
    BY DEF Mass!CustomDays, Mass!EditReason, Mass!SkipReason, Mass!BackToConfirm,
       Mass!TypeReason, Mass!TypeBonusReason, Mass!TypeAmount,
           GrantShape
<1>3. ASSUME NEW s \in {"days", "reason", "confirm", "bonus_confirm"},
             prompt' = [prompt EXCEPT ![a].state = s]
      PROVE  GrantInv'
    <2> DEFINE f == [prompt[a] EXCEPT !.state = s]
    <2>1. f \in Dialogs /\ f.talk = prompt[a].talk /\ Answered(f, chosen[a])
        BY <1>1 DEF Dialogs, Answered
    <2>2. prompt' = [prompt EXCEPT ![a] = f]  BY <1>3 DEF GrantShape
    <2> HIDE DEF f
    <2> QED  BY <1>1, <1>2, <2>1, <2>2, TalkGoesOn
<1>4. ASSUME NEW n \in Numbers, Mass!TypeAmount(a, n) PROVE GrantInv'
    <2> DEFINE f == [prompt[a] EXCEPT !.amount = n, !.state = "bonus_reason"]
    <2>0. n \in 0..MaxAmount  BY <1>4 DEF Mass!TypeAmount, Mass!GrantConstants
    <2>1. f \in Dialogs /\ f.talk = prompt[a].talk /\ Answered(f, chosen[a])
        BY <1>1, <2>0 DEF Dialogs, Answered
    <2>2. prompt' = [prompt EXCEPT ![a] = f]  BY <1>4 DEF Mass!TypeAmount, GrantShape
    <2> HIDE DEF f
    <2> QED  BY <1>1, <1>2, <2>1, <2>2, TalkGoesOn
<1> QED
    BY <1>3, <1>4 DEF Mass!CustomDays, Mass!EditReason, Mass!SkipReason, Mass!BackToConfirm,
       Mass!TypeReason, Mass!TypeBonusReason,
                      Mass!CardAgain

LEMMA GrantOpenStep ==
    ASSUME Mass!GrantConstants, GrantInv, NEW a \in Staff,
           \/ Mass!StartExtend(a) \/ Mass!StartBonus(a) \/ Mass!Cancel(a) \/ Mass!ExtendBreaks(a)
              \/ Mass!StaleConfirm(a)
           \/ Mass!BonusBreaks(a)
    PROVE  GrantInv'
<1> USE DEF GrantInv
<1>1. Mass!Opened(a) /\ UNCHANGED <<person, run>>
    BY DEF Mass!StartExtend, Mass!StartBonus, Mass!Cancel, Mass!ExtendBreaks,
       Mass!StaleConfirm, Mass!BonusBreaks, Mass!Closed
<1>2. click' \in [Staff -> Seq(Clicks)]
    <2>1. click[a] \in Seq(Clicks)  BY DEF GrantShape
    <2>2. click[a] # <<>> => Tail(click[a]) \in Seq(Clicks)  BY <2>1
    <2> QED
        BY <2>2 DEF Mass!StartExtend, Mass!StartBonus, Mass!Cancel, Mass!ExtendBreaks,
           Mass!StaleConfirm, Mass!BonusBreaks, GrantShape
<1>3. busy' \in [extend : SUBSET Staff, bonus : SUBSET Staff]
    BY DEF Mass!StartExtend, Mass!StartBonus, Mass!Cancel, Mass!ExtendBreaks,
       Mass!StaleConfirm, Mass!BonusBreaks, GrantShape
<1>4. lock' \in [Staff -> Claims \cup {Idle}] /\ \A b \in Staff : lock'[b] \in {lock[b], Idle}
    BY DEF Mass!StartExtend, Mass!StartBonus, Mass!Cancel, Mass!ExtendBreaks,
       Mass!StaleConfirm, Mass!BonusBreaks, GrantShape
<1> QED  BY <1>1, <1>2, <1>3, <1>4, TalkBegins

LEMMA AskStep ==
    ASSUME Mass!GrantConstants, GrantInv, NEW a \in Staff, Mass!ExtendAsks(a)
    PROVE  GrantInv'
<1> USE DEF GrantInv
<1>1. CASE Mass!Complete(prompt[a])
    <2> DEFINE c == [of |-> prompt[a], picked |-> chosen[a]]
    <2>1. c \in Clicks  BY <1>1 DEF Clicks, Claims, GrantShape, Picked
    <2>2. click' = [click EXCEPT ![a] = Append(@, c)]
        /\ UNCHANGED <<person, prompt, busy, lock, run, begun, chosen>>
        BY <1>1 DEF Mass!ExtendAsks
    <2>3. click' \in [Staff -> Seq(Clicks)]
        <3> HIDE DEF c
        <3> QED  BY <2>1, <2>2 DEF GrantShape
    <2> QED  BY <2>2, <2>3 DEF GrantShape, Picked, TalksPass, Mass!Of
<1>2. CASE ~Mass!Complete(prompt[a])
    <2>1. Mass!Opened(a) /\ UNCHANGED <<person, run, click, busy, lock>>  BY <1>2
        DEF Mass!ExtendAsks
    <2> QED  BY <2>1, TalkBegins DEF GrantShape
<1> QED  BY <1>1, <1>2

LEMMA ClaimStep ==
    ASSUME Mass!GrantConstants, GrantInv, NEW a \in Staff, Mass!BonusClaims(a)
    PROVE  GrantInv'
<1> USE DEF GrantInv
<1> DEFINE c == [of |-> prompt[a], picked |-> chosen[a]]
<1>1. /\ lock' = [lock EXCEPT ![a] = c] /\ UNCHANGED <<person, prompt, click, run, begun, chosen>>
      /\ busy' = [busy EXCEPT !.bonus = @ \cup {a}]
    BY DEF Mass!BonusClaims
<1>2. c \in Claims /\ c.of = prompt[a]  BY DEF Claims, GrantShape
<1> HIDE DEF c
<1>3. /\ lock'[a] = c /\ \A b \in Staff : b # a => lock'[b] = lock[b]
      /\ lock' \in [Staff -> Claims \cup {Idle}]
    BY <1>1, <1>2 DEF GrantShape
<1>4. busy' \in [extend : SUBSET Staff, bonus : SUBSET Staff]  BY <1>1 DEF GrantShape
<1>5. GrantShape' /\ Picked'  BY <1>1, <1>3, <1>4 DEF GrantShape, Picked, Mass!Of
<1>6. TalksPass'
    <2>1. prompt[a].talk \in Nat  BY DEF GrantShape, Dialogs
    <2>2. \A b \in Staff : lock'[b] # Idle => lock'[b].of.talk <= prompt[b].talk
        BY <1>2, <1>3, <2>1 DEF TalksPass
    <2>3. \A r \in Mass!Of("bonus") : lock'[run[r].admin] # Idle => run[r].talk < lock'[run[r].admin].of.talk
        <3>1. SUFFICES ASSUME NEW r \in Mass!Of("bonus"), lock'[run[r].admin] # Idle
                       PROVE  run[r].talk < lock'[run[r].admin].of.talk
            OBVIOUS
        <3>2. run[r].admin \in Staff  BY DEF GrantShape, GrantTasks, Mass!Of
        <3> QED  BY <1>2, <1>3, <3>1, <3>2 DEF TalksPass
    <2>4. Mass!Of("bonus")' = Mass!Of("bonus")  BY <1>1 DEF Mass!Of
    <2> QED  BY <1>1, <2>2, <2>3, <2>4 DEF TalksPass
<1> QED  BY <1>5, <1>6

-----------------------------------------------------------------------------
LEMMA ExtendStartStep ==
    ASSUME Mass!GrantConstants, GrantInv, NEW a \in Staff, NEW r \in Runs, Mass!ExtendStarts(a, r)
    PROVE  GrantInv'
<1> USE DEF GrantInv
<1> DEFINE c == Head(click[a])
           new == Mass!Task("extend", a, c, c.of.days)
<1>1. c \in Clicks /\ Tail(click[a]) \in Seq(Clicks)
    <2>1. click[a] \in Seq(Clicks) /\ click[a] # <<>>  BY DEF GrantShape, Mass!ExtendStarts
    <2> QED  BY <2>1
<1>2. /\ run' = [run EXCEPT ![r] = new] /\ click' = [click EXCEPT ![a] = Tail(@)] /\ Mass!Opened(a)
      /\ busy' = [busy EXCEPT !.extend = @ \cup {a}] /\ UNCHANGED <<person, lock>> /\ run[r] = Idle
    BY DEF Mass!ExtendStarts, Mass!FreeRuns
<1>3. c.of \in Dialogs /\ c.picked \in Answers /\ Mass!Complete(c.of) /\ Answered(c.of, c.picked)
    BY <1>1 DEF Clicks, Claims
<1>4. /\ new \in GrantTasks /\ new.kind = "extend" /\ new.aud \in new.picked.aud
      /\ new.n \in new.picked.days
    <2> HIDE DEF c
    <2>1. c.of.days \in Nat /\ c.of.talk \in Nat /\ c.of.aud \in Audiences \cup {Idle}
        BY <1>3 DEF Dialogs, Mass!GrantConstants
    <2>2. c.of.aud \in c.picked.aud /\ c.of.days \in c.picked.days
        BY <1>3 DEF Mass!Complete, Answered
    <2> QED  BY <1>3, <2>1, <2>2 DEF GrantTasks, Mass!Task
<1> HIDE DEF c, new
<1>5. /\ run'[r] = new /\ \A q \in Runs : q # r => run'[q] = run[q]
      /\ run' \in [Runs -> GrantTasks \cup {Idle}]
    BY <1>2, <1>4 DEF GrantShape
<1>6. GrantShape'
    <2>1. click' \in [Staff -> Seq(Clicks)]  BY <1>1, <1>2 DEF GrantShape
    <2>2. busy' \in [extend : SUBSET Staff, bonus : SUBSET Staff]  BY <1>2 DEF GrantShape
    <2>3. prompt' \in [Staff -> Dialogs] /\ chosen' \in [Staff -> Answers] /\ begun' \in Nat
        BY <1>2, OpenedBlank
    <2> QED  BY <1>2, <1>5, <2>1, <2>2, <2>3 DEF GrantShape
<1>7. Picked'
    <2>1. \A b \in Staff : Answered(prompt[b], chosen[b])'  BY <1>2, OpenedBlank
    <2>2. \A q \in Mass!Of("extend")' : run'[q].aud \in run'[q].picked.aud /\ run'[q].n \in run'[q].picked.days
        BY <1>4, <1>5 DEF Picked, Mass!Of
    <2> QED  BY <2>1, <2>2 DEF Picked
<1>8. TalksPass'
    <2>1. Mass!Of("bonus")' = Mass!Of("bonus") /\ r \notin Mass!Of("bonus")
        BY <1>2, <1>4, <1>5 DEF Mass!Of
    <2>2. \A q \in Mass!Of("bonus") : run'[q] = run[q] /\ run[q].admin \in Staff /\ run[q].talk \in Nat
        BY <1>5, <2>1 DEF Mass!Of, GrantShape, GrantTasks
    <2>3. \A b \in Staff : /\ prompt[b].talk \in Nat /\ prompt'[b].talk \in Nat
                           /\ lock[b] # Idle => lock[b].of.talk \in Nat
        BY <1>6 DEF GrantShape, Dialogs, Claims
    <2>4. \A b \in Staff : prompt[b].talk <= prompt'[b].talk
        <3>1. prompt[a].talk <= begun /\ begun \in Nat  BY DEF TalksPass, GrantShape
        <3> QED  BY <1>2, <2>3, <3>1, OpenedBlank
    <2>5. \A b \in Staff : lock[b] # Idle => lock[b].of.talk <= prompt'[b].talk
        BY <2>3, <2>4 DEF TalksPass
    <2>6. \A q \in Mass!Of("bonus") : run[q].talk < prompt'[run[q].admin].talk
        BY <2>2, <2>3, <2>4 DEF TalksPass
    <2>7. \A b \in Staff : prompt'[b].talk <= begun'  BY <1>2, OpenedBlank
    <2> HIDE DEF GrantInv
    <2>8. TalksPass  BY DEF GrantInv
    <2> QED  BY <1>2, <2>1, <2>2, <2>5, <2>6, <2>7, <2>8 DEF TalksPass
<1> QED  BY <1>6, <1>7, <1>8

LEMMA BonusStartStep ==
    ASSUME Mass!GrantConstants, GrantInv, NEW a \in Staff, NEW r \in Runs, Mass!BonusStarts(a, r)
    PROVE  GrantInv'
<1> USE DEF GrantInv
<1> DEFINE new == Mass!Task("bonus", a, lock[a], lock[a].of.amount)
<1>1. lock[a] \in Claims /\ lock[a] # Idle
    BY DEF Mass!BonusStarts, GrantShape
<1>2. /\ run' = [run EXCEPT ![r] = new] /\ lock' = [lock EXCEPT ![a] = Idle] /\ Mass!Opened(a)
      /\ UNCHANGED <<person, click, busy>> /\ run[r] = Idle
    BY DEF Mass!BonusStarts, Mass!FreeRuns, Mass!Closed
<1>3. /\ new \in GrantTasks /\ new.kind = "bonus" /\ new.admin = a /\ new.talk = lock[a].of.talk
    <2>1. lock[a].of.amount \in Nat /\ lock[a].of \in Dialogs /\ lock[a].picked \in Answers
        BY <1>1 DEF Claims, Dialogs, Mass!GrantConstants
    <2> QED  BY <2>1 DEF GrantTasks, Mass!Task, Dialogs
<1> HIDE DEF new
<1>4. /\ run'[r] = new /\ \A q \in Runs : q # r => run'[q] = run[q]
      /\ run' \in [Runs -> GrantTasks \cup {Idle}]
    BY <1>2, <1>3 DEF GrantShape
<1>5. /\ lock'[a] = Idle /\ \A b \in Staff : b # a => lock'[b] = lock[b]
      /\ lock' \in [Staff -> Claims \cup {Idle}]
    BY <1>2 DEF GrantShape
<1>6. GrantShape'
    <2>1. prompt' \in [Staff -> Dialogs] /\ chosen' \in [Staff -> Answers] /\ begun' \in Nat
        BY <1>2, OpenedBlank
    <2> QED  BY <1>2, <1>4, <1>5, <2>1 DEF GrantShape
<1>7. Picked'
    <2>1. \A b \in Staff : Answered(prompt[b], chosen[b])'  BY <1>2, OpenedBlank
    <2>2. \A q \in Mass!Of("extend")' : q \in Mass!Of("extend") /\ run'[q] = run[q]
        BY <1>2, <1>3, <1>4 DEF Mass!Of
    <2> QED  BY <2>1, <2>2 DEF Picked
<1>8. TalksPass'
    <2>1. \A q \in Mass!Of("bonus")' : q # r => q \in Mass!Of("bonus") /\ run'[q] = run[q]
        BY <1>2, <1>4 DEF Mass!Of
    <2>2. \A q \in Mass!Of("bonus") : run[q].admin \in Staff /\ run[q].talk \in Nat
        BY DEF Mass!Of, GrantShape, GrantTasks
    <2>3. \A b \in Staff : /\ prompt[b].talk \in Nat /\ prompt'[b].talk \in Nat
                           /\ lock[b] # Idle => lock[b].of.talk \in Nat
        BY <1>6 DEF GrantShape, Dialogs, Claims
    <2>0. prompt[a].talk <= begun /\ begun \in Nat /\ prompt'[a].talk = begun + 1
        BY <1>2, OpenedBlank DEF TalksPass, GrantShape
    <2>4. \A b \in Staff : prompt[b].talk <= prompt'[b].talk
        BY <1>2, <2>0, <2>3, OpenedBlank
    <2>5. \A b \in Staff : lock'[b] # Idle => lock'[b] = lock[b] /\ b # a
        BY <1>5
    <2>6. \A b \in Staff : lock'[b] # Idle => lock'[b].of.talk <= prompt'[b].talk
        BY <2>3, <2>4, <2>5 DEF TalksPass
    <2>7. new.talk < prompt'[a].talk
        <3>1. lock[a].of.talk <= prompt[a].talk  BY <1>1 DEF TalksPass
        <3>2. lock[a].of.talk \in Nat /\ prompt[a].talk \in Nat  BY <1>1, <2>3
        <3> QED  BY <1>3, <2>0, <3>1, <3>2
    <2>8. \A q \in Mass!Of("bonus") : run[q].talk < prompt'[run[q].admin].talk
        BY <2>2, <2>3, <2>4 DEF TalksPass
    <2>9. \A q \in Mass!Of("bonus") : run[q].admin = a => run[q].talk < new.talk
        BY <1>1, <1>3 DEF TalksPass
    <2>10. \A q \in Mass!Of("bonus") : lock'[run[q].admin] # Idle => run[q].talk < lock'[run[q].admin].of.talk
        BY <2>2, <2>5 DEF TalksPass
    <2>11. \A q \in Mass!Of("bonus")' :
              /\ run'[q].talk < prompt'[run'[q].admin].talk
              /\ lock'[run'[q].admin] # Idle => run'[q].talk < lock'[run'[q].admin].of.talk
        BY <1>3, <1>4, <1>5, <2>1, <2>7, <2>8, <2>10
    <2>12. ASSUME NEW q \in Mass!Of("bonus")', NEW s \in Mass!Of("bonus")', q # s, run'[q].admin = run'[s].admin
           PROVE  run'[q].talk # run'[s].talk
        <3>1. new.talk \in Nat  BY <1>3 DEF GrantTasks
        <3>2. CASE q # r /\ s # r  BY <2>1, <2>12, <3>2 DEF TalksPass
        <3>3. CASE q = r
            <4>1. s \in Mass!Of("bonus") /\ run'[s] = run[s]  BY <2>1, <2>12, <3>3
            <4>2. run[s].admin = a /\ run[s].talk < new.talk  BY <1>3, <1>4, <2>9, <2>12, <3>3,
                <4>1
            <4> QED  BY <1>4, <2>2, <3>1, <3>3, <4>1, <4>2
        <3>4. CASE s = r
            <4>1. q \in Mass!Of("bonus") /\ run'[q] = run[q]  BY <2>1, <2>12, <3>4
            <4>2. run[q].admin = a /\ run[q].talk < new.talk  BY <1>3, <1>4, <2>9, <2>12, <3>4,
                <4>1
            <4> QED  BY <1>4, <2>2, <3>1, <3>4, <4>1, <4>2
        <3> QED  BY <3>2, <3>3, <3>4
    <2>13. \A b \in Staff : prompt'[b].talk <= begun'  BY <1>2, OpenedBlank
    <2> QED  BY <2>6, <2>11, <2>12, <2>13 DEF TalksPass
<1> QED  BY <1>6, <1>7, <1>8

\* A task keeps what it is: only its phase and what is left and given change.
LEMMA RunsKeep ==
    ASSUME GrantInv, UNCHANGED <<prompt, begun, chosen>>,
           person' \in [People -> Mass!Persons], click' \in [Staff -> Seq(Clicks)],
           busy' \in [extend : SUBSET Staff, bonus : SUBSET Staff],
           lock' \in [Staff -> Claims \cup {Idle}], \A b \in Staff : lock'[b] \in {lock[b], Idle},
           run' \in [Runs -> GrantTasks \cup {Idle}],
           \A r \in Runs : run[r] = Idle => run'[r] = Idle,
           \A r \in Runs : run[r] # Idle =>
              /\ run'[r].kind = run[r].kind /\ run'[r].admin = run[r].admin /\ run'[r].talk = run[r].talk
              /\ run'[r].aud = run[r].aud /\ run'[r].n = run[r].n /\ run'[r].picked = run[r].picked
    PROVE  GrantInv'
<1> USE DEF GrantInv
<1>1. GrantShape'  BY DEF GrantShape
<1>2. Picked'  BY DEF Picked, Mass!Of
<1>3. TalksPass'
    <2>1. \A r \in Mass!Of("bonus")' : /\ r \in Mass!Of("bonus") /\ run'[r].admin = run[r].admin
                                       /\ run'[r].talk = run[r].talk /\ run[r].admin \in Staff
        BY DEF Mass!Of, GrantShape, GrantTasks
    <2>2. \A b \in Staff : lock'[b] # Idle => lock'[b] = lock[b] /\ lock[b] # Idle  OBVIOUS
    <2>3. \A b \in Staff : /\ prompt'[b].talk <= begun'
                           /\ lock'[b] # Idle => lock'[b].of.talk <= prompt'[b].talk
        BY <2>2 DEF TalksPass
    <2>4. ASSUME NEW r \in Mass!Of("bonus")'
          PROVE  /\ run'[r].talk < prompt'[run'[r].admin].talk
                 /\ lock'[run'[r].admin] # Idle => run'[r].talk < lock'[run'[r].admin].of.talk
        <3>1. /\ run[r].talk < prompt[run[r].admin].talk
              /\ lock[run[r].admin] # Idle => run[r].talk < lock[run[r].admin].of.talk
            BY <2>1 DEF TalksPass
        <3>2. run'[r].admin = run[r].admin /\ run'[r].talk = run[r].talk /\ run[r].admin \in Staff
            BY <2>1
        <3> HIDE DEF GrantInv
        <3> QED  BY <2>2, <3>1, <3>2
    <2>5. \A r, s \in Mass!Of("bonus")' : r # s /\ run'[r].admin = run'[s].admin => run'[r].talk # run'[s].talk
        BY <2>1 DEF TalksPass
    <2> QED  BY <2>3, <2>4, <2>5 DEF TalksPass
<1> QED  BY <1>1, <1>2, <1>3

LEMMA WorkStep ==
    ASSUME Mass!GrantConstants, GrantInv, NEW r \in Runs,
           \/ Mass!Selects(r) \/ Mass!Finish(r)
           \/ \E C \in SUBSET People : \E failed \in SUBSET C : Mass!Chunk(r, C, failed)
    PROVE  GrantInv'
<1> USE DEF GrantInv
<1>1. run[r] \in GrantTasks /\ run[r] # Idle  BY DEF GrantShape, Mass!Selects, Mass!Finish,
    Mass!Chunk
<1>2. ASSUME NEW new \in GrantTasks, run' = [run EXCEPT ![r] = new],
             new.kind = run[r].kind, new.admin = run[r].admin, new.talk = run[r].talk,
             new.aud = run[r].aud, new.n = run[r].n, new.picked = run[r].picked,
             UNCHANGED <<prompt, begun, chosen, person, click, lock>>,
             busy' \in [extend : SUBSET Staff, bonus : SUBSET Staff]
      PROVE  GrantInv'
    <2>1. /\ run'[r] = new /\ \A q \in Runs : q # r => run'[q] = run[q]
          /\ run' \in [Runs -> GrantTasks \cup {Idle}]
        BY <1>2 DEF GrantShape
    <2> QED  BY <1>1, <1>2, <2>1, RunsKeep DEF GrantShape
<1>3. CASE Mass!Selects(r)
    <2> DEFINE todo == IF run[r].kind = "extend" THEN Mass!ExtendAudience(run[r].aud)
        ELSE Mass!BonusAudience(run[r].aud)
               new == [run[r] EXCEPT !.phase = "work", !.todo = todo]
    <2>1. todo \in SUBSET People  BY DEF Mass!ExtendAudience, Mass!BonusAudience
    <2>2. run' = [run EXCEPT ![r] = new]  BY <1>3 DEF Mass!Selects, GrantShape
    <2> HIDE DEF todo
    <2>3. /\ new \in GrantTasks /\ new.kind = run[r].kind /\ new.admin = run[r].admin
          /\ new.talk = run[r].talk /\ new.aud = run[r].aud /\ new.n = run[r].n
          /\ new.picked = run[r].picked
        BY <1>1, <2>1 DEF GrantTasks
    <2> HIDE DEF new
    <2> QED  BY <1>2, <1>3, <2>2, <2>3 DEF Mass!Selects, GrantShape
<1>4. CASE Mass!Finish(r)
    <2> DEFINE new == [run[r] EXCEPT !.phase = "over"]
    <2>1. run' = [run EXCEPT ![r] = new]  BY <1>4 DEF Mass!Finish
    <2>2. /\ new \in GrantTasks /\ new.kind = run[r].kind /\ new.admin = run[r].admin
          /\ new.talk = run[r].talk /\ new.aud = run[r].aud /\ new.n = run[r].n
          /\ new.picked = run[r].picked
        BY <1>1 DEF GrantTasks
    <2>3. busy' \in [extend : SUBSET Staff, bonus : SUBSET Staff]
        BY <1>4 DEF Mass!Finish, Mass!Released, GrantShape
    <2> HIDE DEF new
    <2> QED  BY <1>2, <1>4, <2>1, <2>2, <2>3 DEF Mass!Finish
<1>5. ASSUME NEW C \in SUBSET People, NEW failed \in SUBSET C, Mass!Chunk(r, C, failed) PROVE GrantInv'
    <2> DEFINE more == UNION {{<<u, part>> : part \in Mass!Given(r, u)} : u \in C \ failed}
               new == [run[r] EXCEPT !.todo = @ \ C, !.given = @ \cup more]
    <2>1. \A u \in People : Mass!Given(r, u) \subseteq {"std", "wi", "bonus"}
        BY DEF Mass!Given, Mass!Extends, Mass!Credits
    <2>2. more \in SUBSET (People \X {"std", "wi", "bonus"})
        <3>1. SUFFICES ASSUME NEW x \in more PROVE x \in People \X {"std", "wi", "bonus"}  OBVIOUS
        <3>2. PICK u \in C \ failed : x \in {<<u, part>> : part \in Mass!Given(r, u)}  BY <3>1
        <3>3. PICK part \in Mass!Given(r, u) : x = <<u, part>>  BY <3>2
        <3>4. u \in People /\ part \in {"std", "wi", "bonus"}  BY <2>1
        <3> QED  BY <3>3, <3>4
    <2>3. run' = [run EXCEPT ![r] = new]  BY <1>5 DEF Mass!Chunk, GrantShape
    <2> HIDE DEF more
    <2>4. /\ new \in GrantTasks /\ new.kind = run[r].kind /\ new.admin = run[r].admin
          /\ new.talk = run[r].talk /\ new.aud = run[r].aud /\ new.n = run[r].n
          /\ new.picked = run[r].picked
        BY <1>1, <2>2 DEF GrantTasks
    <2> HIDE DEF new
    <2> QED  BY <1>2, <1>5, <2>3, <2>4 DEF Mass!Chunk, GrantShape
<1> QED  BY <1>3, <1>4, <1>5

LEMMA GrantCrashStep ==
    ASSUME GrantInv, Mass!Crash
    PROVE  GrantInv'
<1>1. ASSUME NEW r \in Runs, run[r] # Idle
      PROVE  /\ run'[r] \in GrantTasks
             /\ run'[r].kind = run[r].kind /\ run'[r].admin = run[r].admin /\ run'[r].talk = run[r].talk
             /\ run'[r].aud = run[r].aud /\ run'[r].n = run[r].n /\ run'[r].picked = run[r].picked
    <2> DEFINE new == [run[r] EXCEPT !.phase = "over"]
    <2>1. run[r] \in GrantTasks  BY <1>1 DEF GrantInv, GrantShape
    <2>2. run'[r] = new  BY <1>1 DEF Mass!Crash
    <2>3. /\ new \in GrantTasks /\ new.kind = run[r].kind /\ new.admin = run[r].admin
          /\ new.talk = run[r].talk /\ new.aud = run[r].aud /\ new.n = run[r].n
          /\ new.picked = run[r].picked
        BY <2>1 DEF GrantTasks
    <2> HIDE DEF new
    <2> QED  BY <2>2, <2>3
<1>2. \A r \in Runs : run[r] = Idle => run'[r] = Idle  BY DEF Mass!Crash
<1>3. run' \in [Runs -> GrantTasks \cup {Idle}]
    <2>1. \A r \in Runs : run'[r] \in GrantTasks \cup {Idle}  BY <1>1, <1>2
    <2> QED  BY <2>1 DEF Mass!Crash
<1>4. <<>> \in Seq(Clicks)  OBVIOUS
<1>5. /\ click' \in [Staff -> Seq(Clicks)] /\ lock' \in [Staff -> Claims \cup {Idle}]
      /\ \A b \in Staff : lock'[b] = Idle
      /\ busy' \in [extend : SUBSET Staff, bonus : SUBSET Staff]
      /\ person' \in [People -> Mass!Persons] /\ UNCHANGED <<prompt, begun, chosen>>
    BY <1>4 DEF Mass!Crash, GrantInv, GrantShape
<1> QED  BY <1>1, <1>2, <1>3, <1>5, RunsKeep

LEMMA GrantKept == ASSUME Mass!GrantConstants, GrantInv, [Mass!Next]_Mass!vars PROVE GrantInv'
<1>1. CASE UNCHANGED Mass!vars
    BY <1>1 DEF Mass!vars, GrantInv, GrantShape, Picked, TalksPass, Mass!Of
<1>2. ASSUME NEW u \in People, NEW p \in Mass!Persons, Mass!PersonChanges(u, p) PROVE GrantInv'
    BY <1>2 DEF Mass!PersonChanges, GrantInv, GrantShape, Picked, TalksPass, Mass!Of
<1>3. CASE Mass!Next
    BY <1>2, <1>3, PickStep, GrantCardStep, GrantOpenStep, AskStep, ClaimStep, ExtendStartStep,
       BonusStartStep,
       WorkStep, GrantCrashStep DEF Mass!Next
<1> QED  BY <1>1, <1>3

\* mass_extend.py and mass_bonus.py: one conversation credits nobody twice,
\* however often its buttons are clicked, and an extension applies the audience
\* and the days that were picked in it, for any users, administrators, sizes of
\* a chunk and amounts, whatever fails or crashes.
THEOREM GrantsKept ==
    ASSUME Mass!GrantConstants
    PROVE  Mass!Spec => [](Mass!TypeOK /\ Mass!GrantsAsTalked) /\ []GrantsAsTalked
<1>1. Mass!Init => GrantInv  BY GrantStart
<1>2. GrantInv /\ [Mass!Next]_Mass!vars => GrantInv'  BY GrantKept
<1>3. GrantInv => Mass!TypeOK /\ Mass!GrantsAsTalked
    <2> SUFFICES ASSUME GrantInv PROVE Mass!TypeOK /\ Mass!GrantsAsTalked  OBVIOUS
    <2>1. Mass!TypeOK  BY DEF GrantInv, GrantShape, Mass!TypeOK, Dialogs, GrantTasks
    <2>2. Mass!OneBonusPerTalk  BY DEF GrantInv, TalksPass, Mass!OneBonusPerTalk
    <2>3. Mass!ExtendsWhatWasPicked  BY DEF GrantInv, Picked, Mass!ExtendsWhatWasPicked
    <2> QED  BY <2>1, <2>2, <2>3 DEF Mass!GrantsAsTalked
<1>4. GrantInv => GrantsAsTalked  BY <1>3 DEF GrantsAsTalked
<1> QED  BY <1>1, <1>2, <1>3, <1>4, PTL DEF Mass!Spec

-----------------------------------------------------------------------------
\* What the feed shows: the row and what administrators have hidden, by types.
Typed == {"", "none", "own"} \cup Texts
Settings == [param : [Params -> Typed], originHidden : BOOLEAN,
             names : [Codes -> {"unset"} \cup Texts], badges : [Codes -> {"unset"} \cup Texts],
             hidden : SUBSET Codes]
Extras == [set : Settings, relays : [Codes -> {"absent", "plain", "badged"}]]
Prompts == [what : Params \cup {"name", "badge"}, code : Codes \cup {Idle}]

FeedShape ==
    /\ extra \in Extras /\ prompt \in [Staff -> Prompts \cup {Idle}]
    /\ hid \in [origin : BOOLEAN, relays : SUBSET Codes] /\ dropped \in BOOLEAN
    /\ job # Idle => job \in [kind : {"relays", "url"}, copy : Extras]

\* What admins have hidden is what the row hides, unless settings have been
\* overwritten by those of an earlier copy.
FeedInv ==
    /\ FeedShape
    /\ ~dropped => hid.relays = extra.set.hidden /\ hid.origin = extra.set.originHidden

LEMMA FeedStart == Feed!Init => FeedInv
<1> SUFFICES ASSUME Feed!Init PROVE FeedInv  OBVIOUS
<1>1. Feed!Default \in Settings
    BY DEF Feed!Default, Settings, Typed
<1>2. FeedShape
    BY <1>1 DEF Feed!Init, FeedShape, Extras
<1> QED  BY <1>2 DEF Feed!Init, FeedInv, Feed!Default

\* A step that changes one part of what is set keeps the relay list.
LEMMA SettingKept ==
    ASSUME FeedInv, NEW s \in Settings, Feed!Keeping(s)
    PROVE  extra' \in Extras /\ extra'.set = s /\ extra'.relays = extra.relays
BY DEF FeedInv, FeedShape, Feed!Keeping, Extras

LEMMA PromptStep ==
    ASSUME FeedInv, NEW a \in Staff,
           \/ \E p \in Params : Feed!OpenParam(a, p)
           \/ \E c \in Codes : Feed!OpenRelayName(a, c) \/ Feed!OpenRelayBadge(a, c)
    PROVE  FeedInv'
BY DEF FeedInv, FeedShape, Prompts, Feed!OpenParam, Feed!OpenRelayName, Feed!OpenRelayBadge

LEMMA InputStep ==
    ASSUME FeedInv, NEW a \in Staff, NEW text \in Texts,
           Feed!InputParam(a, text) \/ Feed!InputRelayName(a, text) \/ Feed!InputRelayBadge(a, text)
    PROVE  FeedInv'
<1>1. extra.set \in Settings  BY DEF FeedInv, FeedShape, Extras
<1>2. prompt' \in [Staff -> Prompts \cup {Idle}] /\ UNCHANGED <<job, hid, dropped>>
    BY DEF FeedInv, FeedShape, Feed!InputParam, Feed!InputRelayName, Feed!InputRelayBadge
<1>3. CASE UNCHANGED extra  BY <1>2, <1>3 DEF FeedInv, FeedShape
<1>4. ASSUME NEW s \in Settings, Feed!Keeping(s),
             s.hidden = extra.set.hidden, s.originHidden = extra.set.originHidden
      PROVE  FeedInv'
    BY <1>2, <1>4, SettingKept DEF FeedInv, FeedShape
<1>5. CASE Feed!InputParam(a, text) /\ ~UNCHANGED extra
    <2> DEFINE s == [extra.set EXCEPT !.param[prompt[a].what] = Feed!Parsed(prompt[a].what, text)]
    <2>1. Feed!Keeping(s)  BY <1>5 DEF Feed!InputParam
    <2>2. Feed!Parsed(prompt[a].what, text) \in Typed  BY DEF Feed!Parsed, Typed
    <2>3. s \in Settings /\ s.hidden = extra.set.hidden /\ s.originHidden = extra.set.originHidden
        BY <1>1, <2>2 DEF Settings
    <2> HIDE DEF s
    <2> QED  BY <1>4, <2>1, <2>3
<1>6. CASE Feed!InputRelayName(a, text) /\ ~UNCHANGED extra
    <2> DEFINE s == [extra.set EXCEPT !.names[prompt[a].code] = IF text = "-" THEN "unset" ELSE text]
    <2>1. Feed!Keeping(s)  BY <1>6 DEF Feed!InputRelayName
    <2>2. s \in Settings /\ s.hidden = extra.set.hidden /\ s.originHidden = extra.set.originHidden
        BY <1>1 DEF Settings
    <2> HIDE DEF s
    <2> QED  BY <1>4, <2>1, <2>2
<1>7. CASE Feed!InputRelayBadge(a, text) /\ ~UNCHANGED extra
    <2> DEFINE s == [extra.set EXCEPT !.badges[prompt[a].code] = IF text = "-" THEN "unset" ELSE text]
    <2>1. Feed!Keeping(s)  BY <1>7 DEF Feed!InputRelayBadge
    <2>2. s \in Settings /\ s.hidden = extra.set.hidden /\ s.originHidden = extra.set.originHidden
        BY <1>1 DEF Settings
    <2> HIDE DEF s
    <2> QED  BY <1>4, <2>1, <2>2
<1> QED  BY <1>3, <1>5, <1>6, <1>7

LEMMA HideStep ==
    ASSUME FeedInv, Feed!ToggleOrigin \/ Feed!Reset \/ \E c \in Codes : Feed!ToggleRelay(c)
    PROVE  FeedInv'
<1>1. extra.set \in Settings  BY DEF FeedInv, FeedShape, Extras
<1>2. CASE Feed!ToggleOrigin
    <2> DEFINE s == [extra.set EXCEPT !.originHidden = ~extra.set.originHidden]
    <2>1. Feed!Keeping(s)  BY <1>2 DEF Feed!ToggleOrigin
    <2>2. s \in Settings /\ s.hidden = extra.set.hidden /\ s.originHidden = ~extra.set.originHidden
        BY <1>1 DEF Settings
    <2>3. hid' \in [origin : BOOLEAN, relays : SUBSET Codes] /\ hid'.relays = hid.relays
          /\ hid'.origin = ~extra.set.originHidden
        BY <1>1, <1>2 DEF Feed!ToggleOrigin, FeedInv, FeedShape, Settings
    <2> HIDE DEF s
    <2>4. extra' \in Extras /\ extra'.set = s  BY <2>1, <2>2, SettingKept
    <2>5. UNCHANGED <<prompt, job, dropped>>  BY <1>2 DEF Feed!ToggleOrigin
    <2>6. FeedShape'  BY <2>3, <2>4, <2>5 DEF FeedInv, FeedShape
    <2> QED  BY <2>2, <2>3, <2>4, <2>5, <2>6 DEF FeedInv
<1>3. CASE Feed!Reset
    <2>1. Feed!Default \in Settings  BY DEF Feed!Default, Settings, Typed
    <2>2. extra' \in Extras /\ extra'.set = Feed!Default  BY <1>3, <2>1, SettingKept
        DEF Feed!Reset
    <2>3. /\ UNCHANGED <<prompt, job>> /\ hid' = [origin |-> FALSE, relays |-> {}] /\ dropped' \in BOOLEAN
          /\ extra'.set.hidden = {} /\ extra'.set.originHidden = FALSE
        <3>1. Feed!Default.hidden = {} /\ Feed!Default.originHidden = FALSE  BY DEF Feed!Default
        <3> QED  BY <1>3, <2>2, <3>1 DEF Feed!Reset
    <2>4. hid'.relays = {} /\ hid'.origin = FALSE /\ hid' \in [origin : BOOLEAN, relays : SUBSET Codes]
        BY <2>3
    <2> QED  BY <2>2, <2>3, <2>4 DEF FeedInv, FeedShape
<1>4. ASSUME NEW c \in Codes, Feed!ToggleRelay(c) PROVE FeedInv'
    <2> DEFINE s == [extra.set EXCEPT !.hidden = Feed!Flipped(c, extra.set.hidden)]
    <2>1. Feed!Keeping(s)  BY <1>4 DEF Feed!ToggleRelay
    <2>0. Feed!Flipped(c, extra.set.hidden) \in SUBSET Codes  BY <1>1 DEF Settings, Feed!Flipped
    <2>2. s \in Settings /\ s.hidden = Feed!Flipped(c, extra.set.hidden)
          /\ s.originHidden = extra.set.originHidden
        BY <1>1, <2>0 DEF Settings
    <2>3. hid' \in [origin : BOOLEAN, relays : SUBSET Codes] /\ hid'.origin = hid.origin
          /\ (~dropped => hid'.relays = Feed!Flipped(c, extra.set.hidden))
        BY <1>4 DEF Feed!ToggleRelay, FeedInv, FeedShape, Feed!Flipped
    <2> HIDE DEF s
    <2>4. extra' \in Extras /\ extra'.set = s  BY <2>1, <2>2, SettingKept
    <2> QED  BY <1>4, <2>2, <2>3, <2>4 DEF FeedInv, FeedShape, Feed!ToggleRelay
<1> QED  BY <1>2, <1>3, <1>4

LEMMA NodeStep ==
    ASSUME FeedInv,
           \/ Feed!RelaysAsks \/ Feed!UrlReads \/ Feed!UrlWrites
           \/ \E list \in [Codes -> {"absent", "plain", "badged"}] : Feed!RelaysStores(list)
    PROVE  FeedInv'
<1>1. CASE Feed!RelaysAsks \/ Feed!UrlReads
    BY <1>1 DEF Feed!RelaysAsks, Feed!UrlReads, Feed!Event, FeedInv, FeedShape
<1>2. CASE Feed!UrlWrites
    BY <1>2 DEF Feed!UrlWrites, FeedInv, FeedShape
<1>3. ASSUME NEW list \in [Codes -> {"absent", "plain", "badged"}], Feed!RelaysStores(list) PROVE FeedInv'
    <2>1. extra' \in Extras /\ extra'.set = extra.set
        BY <1>3 DEF Feed!RelaysStores, Feed!OntoRow, FeedInv, FeedShape, Extras
    <2>2. UNCHANGED <<prompt, hid, dropped>> /\ job' = Idle  BY <1>3 DEF Feed!RelaysStores
    <2> QED  BY <2>1, <2>2 DEF FeedInv, FeedShape
<1> QED  BY <1>1, <1>2, <1>3

LEMMA FeedKept == FeedInv /\ [Feed!Next]_Feed!vars => FeedInv'
<1>1. ASSUME FeedInv, Feed!Next PROVE FeedInv'
    BY <1>1, PromptStep, InputStep, HideStep, NodeStep DEF Feed!Next
<1>2. ASSUME FeedInv, UNCHANGED Feed!vars PROVE FeedInv'
    BY <1>2 DEF FeedInv, FeedShape, Feed!vars
<1> QED  BY <1>1, <1>2

LEMMA OffServesNone == Feed!OffIsOff
<1>1. ASSUME NEW c \in Codes, Feed!RelayCard(c) = "off" PROVE Feed!RelayServed(c) = "no"
    <2>1. extra.set.badges[c] = "none"  BY <1>1 DEF Feed!RelayCard
    <2> QED  BY <2>1 DEF Feed!RelayServed
<1>2. ASSUME Feed!OriginCard = "off" PROVE Feed!OriginServed = "no"
    <2>1. extra.set.param["origin_badge"] = "none"  BY <1>2, Zenon DEF Feed!OriginCard
    <2> QED  BY <2>1, Zenon DEF Feed!OriginServed
<1> QED  BY <1>1, <1>2 DEF Feed!OffIsOff

\* incy_ui.py and server_settings.py: a badge the card calls off is in no feed,
\* and what an administrator has hidden stays out of it, for any relays,
\* parameters, texts and administrators, until an edit of the server's address
\* writes back settings that it read before it asked the node.
THEOREM HiddenKept ==
    Feed!Spec => [](Feed!TypeOK /\ Feed!HiddenIsNotServed /\ Feed!OffIsOff) /\ []HiddenIsNotServed
<1>1. Feed!Init => FeedInv  BY FeedStart
<1>2. FeedInv /\ [Feed!Next]_Feed!vars => FeedInv'  BY FeedKept
<1>3. FeedInv => Feed!TypeOK /\ Feed!HiddenIsNotServed /\ Feed!OffIsOff
    BY OffServesNone DEF FeedInv, FeedShape, Extras, Settings, Typed, Prompts, Feed!TypeOK,
       Feed!HiddenIsNotServed, Feed!ServedRelays
<1>4. FeedInv => HiddenIsNotServed  BY <1>3 DEF HiddenIsNotServed
<1> QED  BY <1>1, <1>2, <1>3, <1>4, PTL DEF Feed!Spec
=============================================================================
