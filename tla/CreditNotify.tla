----------------------------- MODULE CreditNotify -----------------------------
(***************************************************************************)
(* Telling the owner of an order, and the one who referred him, that money *)
(* has come.  The settlement leaves both debts in the metadata of the      *)
(* order; the webhook or the button "check" may tell the owner at once,    *)
(* the worker pays what is left.  The request path works on a copy of the  *)
(* order and writes its metadata back as a whole; the worker sends without *)
(* a session and looks at the debts again under the lock.                  *)
(***************************************************************************)
EXTENDS Naturals, FiniteSets

CONSTANTS
    MaxTries,   \* MAX_NOTIFY_ATTEMPTS
    Kinds, MaxEvents, Idle

VARIABLES
    meta,     \* metadata of the order: the debts, their attempts, manual review
    status,
    credit,   \* an order that needs no ledger credit, or has it
    blocked,  \* who has blocked the bot, as users.is_bot_blocked says
    walled,   \* who has, as Telegram answers
    old,      \* past CREDIT_NOTIFY_RETENTION_DAYS
    cached,   \* the order is in _blocked_orders_cache
    w,        \* the worker on this order
    req,      \* a session of the request path
    told, dropped,   \* history: messages accepted; debts given up
    events

vars == <<meta, status, credit, blocked, walled, old, cached, w, req, told, dropped, events>>
world == <<status, credit, walled, old>>

Who == {"owner", "ref"}
Event(kind) == kind \in Kinds /\ events < MaxEvents /\ events' = events + 1

Debts == {p \in Who : meta.debt[p]}
Resting == [step |-> "idle", kind |-> [p \in Who |-> "none"], ok |-> [p \in Who |-> "none"]]

\* The metadata without a debt and its attempts.
Cleared(m, p) == [m EXCEPT !.debt[p] = FALSE, !.tries[p] = 0]

\* mark_notify_pending starts with a new budget.
Armed(m, p) == [m EXCEPT !.debt[p] = TRUE, !.tries[p] = 0]

-----------------------------------------------------------------------------
\* The order is settled; it may have a referrer.
Settles ==
    /\ status = "pending" /\ status' = "paid"
    /\ meta' \in {Armed(meta, "owner"), Armed(Armed(meta, "owner"), "ref")}
    /\ UNCHANGED <<credit, blocked, walled, old, cached, w, req, told, dropped, events>>

\* What others write, with the row locked.
Refunds ==
    /\ Event("refund") /\ status = "paid"
    /\ \/ status' = "refunded" /\ UNCHANGED meta
       \/ meta' = [meta EXCEPT !.review = TRUE] /\ UNCHANGED status
    /\ UNCHANGED <<credit, blocked, walled, old, cached, w, req, told, dropped>>

\* The request path: the order as it is read, a message, and the copy back.
RequestReads ==
    /\ Event("request") /\ req = Idle /\ status = "paid"
    /\ req' = [copy |-> meta, sent |-> FALSE]
    /\ UNCHANGED <<meta, world, blocked, cached, w, told, dropped>>

RequestSends ==
    /\ req # Idle /\ ~req.sent
    /\ \/ /\ "owner" \notin walled
          /\ req' = [req EXCEPT !.sent = TRUE] /\ told' = [told EXCEPT !.owner = @ + 1]
       \/ req' = Idle /\ UNCHANGED told
    /\ UNCHANGED <<meta, world, blocked, cached, w, dropped, events>>

\* mark_notified of the copy; a copy without the debt is not written.
WrittenBack(copy) == IF Cleared(copy, "owner") = copy THEN meta ELSE Cleared(copy, "owner")

RequestMarks ==
    /\ req # Idle /\ req.sent
    /\ meta' = WrittenBack(req.copy) /\ req' = Idle
    /\ UNCHANGED <<world, blocked, cached, w, told, dropped, events>>

-----------------------------------------------------------------------------
\* The worker takes up paid orders with a debt.
Picks ==
    /\ w.step = "idle" /\ status = "paid" /\ Debts # {} /\ ~cached
    /\ w' = [Resting EXCEPT !.step = "picked"]
    /\ UNCHANGED <<meta, world, blocked, cached, req, told, dropped, events>>

\* What the snapshot says of one debt.
KindOf(p) ==
    CASE ~meta.debt[p]                   -> "none"
      [] meta.debt[p] /\ status # "paid" -> "drop"
      [] p = "owner" /\ status = "paid" /\ meta.debt[p] /\ ~credit -> "anomaly"
      [] OTHER -> IF p \notin blocked THEN "send" ELSE IF old THEN "drop" ELSE "none"

Snapshot ==
    /\ w.step = "picked"
    /\ LET kind == [p \in Who |-> KindOf(p)] IN
         /\ w' = CASE \A p \in Who : kind[p] = "none" -> Resting
                   [] kind["owner"] = "anomaly"       -> [Resting EXCEPT !.step = "attempt"]
                   [] OTHER                           -> [Resting EXCEPT !.step = "work", !.kind = kind]
         /\ cached' = (cached \/ \A p \in Who : kind[p] = "none")
    /\ UNCHANGED <<meta, world, blocked, req, told, dropped, events>>

\* _drop_debts, in a session for each debt.
Drops(p) ==
    /\ w.step = "work" /\ w.kind[p] = "drop" /\ (p = "ref" => w.kind["owner"] # "drop")
    /\ meta' = Cleared(meta, p)
    /\ w' = IF \A q \in Who : q = p \/ w.kind[q] = "none" THEN Resting
                                                           ELSE [w EXCEPT !.kind[p] = "none"]
    /\ cached' = (w' = Resting)
    /\ dropped' = dropped \cup {p}
    /\ UNCHANGED <<world, blocked, req, told, events>>

\* One message, the owner's first.
Sends(p) ==
    /\ w.step = "work" /\ w.kind[p] = "send" /\ w.ok[p] = "none"
    /\ \A q \in Who : w.kind[q] # "drop"
    /\ p = "ref" => w.kind["owner"] # "send" \/ w.ok["owner"] # "none"
    /\ \E ok \in (IF p \in walled THEN {"forbidden"} ELSE {"yes"}) \cup {"no"} :
         /\ w' = [w EXCEPT !.ok[p] = ok]
         /\ told' = IF ok = "yes" THEN [told EXCEPT ![p] = @ + 1] ELSE told
    /\ UNCHANGED <<meta, world, blocked, cached, req, dropped, events>>

\* _note_failed_owner_attempt, _note_failed_referrer_attempt.
Counted(m, p) ==
    IF m.tries[p] + 1 >= MaxTries THEN Cleared(m, p) ELSE [m EXCEPT !.tries[p] = @ + 1]

\* Variant: what was tried is done.
Done(m, p) == IF w.kind[p] = "send" THEN Cleared(m, p) ELSE m

\* The debt that is still open is cleared or counted.
After(m, p) ==
    IF ~m.debt[p] \/ w.kind[p] # "send" \/ w.ok[p] = "forbidden" THEN m
    ELSE IF w.ok[p] = "yes" THEN Cleared(m, p) ELSE Counted(m, p)

GivenUp(m) == {p \in Who : /\ meta.debt[p] /\ ~m.debt[p] /\ w.kind[p] = "send" /\ w.ok[p] = "no"
                           /\ meta.tries[p] + 1 >= MaxTries}

Finalizes ==
    /\ w.step = "work" /\ \A p \in Who : w.kind[p] = "none" \/ (w.kind[p] = "send" /\ w.ok[p] # "none")
    /\ IF status # "paid"
       THEN /\ meta' = Cleared(Cleared(meta, "owner"), "ref")
            /\ dropped' = Who /\ cached' = FALSE /\ UNCHANGED blocked
       ELSE LET m == After(After(meta, "owner"), "ref") IN
            /\ meta' = m /\ dropped' = dropped \cup GivenUp(m)
            /\ blocked' = blocked \cup {p \in Who : meta.debt[p] /\ w.ok[p] = "forbidden"}
            /\ cached' = ((cached /\ \E p \in Who : m.debt[p])
                          \/ \E p \in Who : m.debt[p] /\ w.ok[p] \in {"forbidden", "none"})
    /\ w' = Resting
    /\ UNCHANGED <<world, req, told, events>>

\* _finalize_attempt: a paid top-up without its credit.
CountsAnomaly ==
    /\ w.step = "attempt"
    /\ meta' = IF meta.debt["owner"] THEN Counted(meta, "owner") ELSE meta
    /\ dropped' = IF meta.debt["owner"] /\ ~meta'.debt["owner"] THEN dropped \cup {"owner"} ELSE dropped
    /\ w' = Resting
    /\ UNCHANGED <<world, blocked, cached, req, told, events>>

\* An entry of the cache lives for CREDIT_NOTIFY_CACHE_TTL.
CacheExpires ==
    /\ cached /\ cached' = FALSE
    /\ UNCHANGED <<meta, world, blocked, w, req, told, dropped, events>>

Ages == ~old /\ old' = TRUE
        /\ UNCHANGED <<meta, status, credit, walled, blocked, cached, w, req, told, dropped, events>>

\* Users block the bot and come back, which clears the flag.
Blocks(p) ==
    /\ Event("block") /\ p \notin walled /\ walled' = walled \cup {p}
    /\ UNCHANGED <<meta, status, credit, old, blocked, cached, w, req, told, dropped>>

Returns(p) ==
    /\ Event("block") /\ p \in walled
    /\ walled' = walled \ {p} /\ blocked' = blocked \ {p}
    /\ UNCHANGED <<meta, status, credit, old, cached, w, req, told, dropped>>

\* The process dies, or a commit of the worker fails: a message may be sent twice.
Crash ==
    /\ Event("crash") /\ w' = Resting /\ req' = Idle /\ cached' = FALSE
    /\ UNCHANGED <<meta, world, blocked, told, dropped>>

Init ==
    /\ meta = [debt |-> [p \in Who |-> FALSE], tries |-> [p \in Who |-> 0], review |-> FALSE]
    /\ status = "pending" /\ credit \in BOOLEAN /\ blocked = {} /\ walled = {} /\ old = FALSE
    /\ cached = FALSE /\ w = Resting /\ req = Idle
    /\ told = [p \in Who |-> 0] /\ dropped = {} /\ events = 0

Worker ==
    \/ Picks \/ Snapshot \/ Finalizes \/ CountsAnomaly
    \/ \E p \in Who : Drops(p) \/ Sends(p)

Next ==
    \/ Settles \/ Refunds \/ RequestReads \/ RequestSends \/ RequestMarks
    \/ Worker \/ CacheExpires \/ Ages \/ Crash
    \/ \E p \in Who : Blocks(p) \/ Returns(p)

Spec == Init /\ [][Next]_vars

-----------------------------------------------------------------------------
TypeOK ==
    /\ meta \in [debt : [Who -> BOOLEAN], tries : [Who -> 0..MaxTries], review : BOOLEAN]
    /\ status \in {"pending", "paid", "refunded"} /\ w.step \in {"idle", "picked", "work", "attempt"}

\* _deliver_one: a debt is gone only when a message was accepted, or the debt
\* was given up for one of the reasons the worker knows.
NoDebtLost ==
    status = "paid" /\ ~meta.debt["owner"] => told.owner > 0 \/ "owner" \in dropped
==============================================================================
