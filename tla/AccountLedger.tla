---------------------------- MODULE AccountLedger ----------------------------
(***************************************************************************)
(* The wallet of one user: the append-only ledger of                       *)
(* account_ledger_repo.py, the attribution of debits to credit lots, the   *)
(* two balance buckets, and the operations that write them.                *)
(*                                                                         *)
(* One action is one committed transaction.  Every writer either holds the *)
(* row of the user FOR UPDATE before it reads the ledger, or inserts a row *)
(* that references users.id and so waits for that lock; the transactions   *)
(* of one wallet are therefore serial.  What is read BEFORE such a         *)
(* transaction, the administrator's preview, is a step of its own.         *)
(*                                                                         *)
(* An order and an administrator's operation are written once (module      *)
(* Orders; the operation's form is cleared), so an entry is identified by  *)
(* the order or the operation it belongs to.  A refused operation that     *)
(* leaves no row (a hold, a ban, a debt) is a step that does not happen.   *)
(* Refunds of top-ups never commit (see Orders), and only old rows hold    *)
(* refund debits: Legacies.                                                *)
(***************************************************************************)
EXTENDS Integers, FiniteSetsExt

CONSTANTS
  TopUps,       \* top-up orders of this user
  Gifts,        \* credits by an administrator, single or mass bonus
  Bonuses,      \* directly paid orders of users whom this user invited
  Tariffs,      \* orders paid by pay_from_wallet
  WhiteOrders,  \* orders paid by _checkout_wallet_order
  Deductions,   \* debits by an administrator
  Legacy,       \* the credit of a payment made before the order model
  LegacyDebit,  \* the purchase made from it
  Legacies,     \* bound: the old rows a wallet may start with
  AmountOf      \* [operation -> whole rubles], zero for free orders only

BonusLots == Gifts \cup Bonuses
Credits == TopUps \cup BonusLots \cup {Legacy}
Purchases == Tariffs \cup WhiteOrders
Debits == Purchases \cup Deductions \cup {LegacyDebit}

VARIABLES
  legacy,    \* the old rows of this wallet
  posted,    \* the entries in the order of (created_at, id); 0: absent
  reversed,  \* bonuses with their referral-bonus-reversal entry
  alloc,     \* account_ledger_allocations: debit -> credit -> rubles
  order,     \* orders.status of the purchases
  asked      \* deductions that passed the administrator's preview

vars == <<legacy, posted, reversed, alloc, order, asked>>

-----------------------------------------------------------------------------
Larger(a, b) == IF a > b THEN a ELSE b
Smaller(a, b) == IF a < b THEN a ELSE b

Amount(k) == CASE k = Legacy -> legacy.credit
               [] k = LegacyDebit -> legacy.spent
               [] OTHER -> AmountOf[k]

Posted(S) == {k \in S : posted[k] > 0}
Total(S) == MapThenSumSet(Amount, Posted(S))

\* An entry of each kind takes the next place in the ledger.
NextPlace == Max({posted[k] : k \in Credits \cup Debits}) + 1
Post(k) == posted' = [posted EXCEPT ![k] = NextPlace]

\* get_account_balance: the signed sum of all entries.
Position == Total(Credits) - Total(Debits)
            - MapThenSumSet(Amount, reversed) - legacy.refunded

BonusCredited == Total(BonusLots)
AllocatedFrom(c) == MapThenSumSet(LAMBDA d : alloc[d][c], Debits)

BonusSpent == MapThenSumSet(AllocatedFrom, BonusLots)

BonusAvailable ==
  IF Position <= 0 THEN 0
  ELSE Smaller(Position, Larger(0, BonusCredited - BonusSpent))
RealAvailable == Larger(0, Position) - BonusAvailable

\* Variant: what the lots have given already is forgotten.
CapacityUnspent(c) ==
  Amount(c) - (IF c = Legacy THEN legacy.refunded ELSE 0)

\* _batch_credit_capacities, with max(ZERO, ...) of its caller.
Capacity(c) == Amount(c) - AllocatedFrom(c)
               - (IF c = Legacy THEN legacy.refunded ELSE 0)

Room(c) == Larger(0, Capacity(c))

\* The order in which _allocate_fifo takes the lots: bonuses first, then age.
Before(a, b) ==
  \/ a \in BonusLots /\ b \notin BonusLots
  \/ (a \in BonusLots <=> b \in BonusLots) /\ posted[a] < posted[b]

\* _allocate_fifo: what the loop takes from lot c for a debit of n rubles.
Chunk(c, n) ==
  LET ahead == {b \in Posted(Credits) : Before(b, c)}
  IN  IF posted[c] = 0 THEN 0
      ELSE Smaller(Room(c), Larger(0, n - MapThenSumSet(Room, ahead)))

\* The loop leaves nothing over; otherwise it raises and rolls back.
Covered(n) == MapThenSumSet(Room, Posted(Credits)) >= n

\* The trigger validate_account_allocation, which refuses an overspent lot.
LotsAccept(n) ==
  \A c \in Credits : AllocatedFrom(c) + Chunk(c, n) <= Amount(c)

\* The allocations of a debit.
Attribute(d) ==
  alloc' = [alloc EXCEPT ![d] = [c \in Credits |-> Chunk(c, Amount(d))]]

\* A debit entry and its allocations: _insert_or_get_entry, _allocate_fifo.
Debit(d) ==
  /\ Covered(Amount(d)) /\ LotsAccept(Amount(d))
  /\ Post(d)
  /\ Attribute(d)

\* A purchase needs its price; pay_from_wallet also refuses while in debt.
Affordable(p) == Amount(p) <= Larger(0, Position)

NoDebt == Position >= 0

-----------------------------------------------------------------------------
TypeOK ==
  /\ legacy \in Legacies
  /\ posted \in [Credits \cup Debits -> Nat]
  /\ reversed \subseteq Posted(Bonuses)
  /\ alloc \in [Debits -> [Credits -> Nat]]
  /\ order \in [Purchases -> {"absent", "paid", "canceled"}]
  /\ asked \subseteq Deductions

Init ==
  /\ legacy \in Legacies
  /\ posted = [k \in Credits \cup Debits |->
       CASE k = Legacy /\ legacy.credit > 0 -> 1
         [] k = LegacyDebit /\ legacy.spent > 0 -> 2
         [] OTHER -> 0]
  /\ reversed = {}
  /\ alloc = [d \in Debits |-> [c \in Credits |->
       IF d = LegacyDebit /\ c = Legacy THEN legacy.spent ELSE 0]]
  /\ order = [p \in Purchases |-> "absent"]
  /\ asked = {}

\* create_order_credit, called once per top-up by its settlement.
CreditTopUp(t) ==
  /\ posted[t] = 0
  /\ Post(t)
  /\ UNCHANGED <<legacy, reversed, alloc, order, asked>>

\* create_admin_adjustment with a positive amount: a preset, a confirmed
\* form, or one user of a mass bonus.
CreditGift(g) ==
  /\ posted[g] = 0
  /\ Post(g)
  /\ UNCHANGED <<legacy, reversed, alloc, order, asked>>

\* grant_referral_bonus_for_topup, for an order that an invited user paid.
GrantBonus(b) ==
  /\ posted[b] = 0
  /\ Post(b)
  /\ UNCHANGED <<legacy, reversed, alloc, order, asked>>

\* reverse_referral_bonus_for_topup, when that order is refunded: a negative
\* entry over the rest of the bonus, which is attributed to no lot.
ReverseBonus(b) ==
  /\ posted[b] > 0 /\ b \notin reversed
  /\ reversed' = reversed \cup {b}
  /\ UNCHANGED <<legacy, posted, alloc, order, asked>>

\* pay_from_wallet: a paid order and its debit, in one transaction.
PayFromWallet(p) ==
  /\ order[p] = "absent"
  /\ NoDebt /\ Affordable(p)
  /\ IF Amount(p) > 0 THEN Debit(p) ELSE UNCHANGED <<posted, alloc>>
  /\ order' = [order EXCEPT ![p] = "paid"]
  /\ UNCHANGED <<legacy, reversed, asked>>

\* _checkout_wallet_order: a pending order becomes paid with its debit, or is
\* kept as canceled when the balance is too low.
CheckoutPaid(p) ==
  /\ order[p] = "absent"
  /\ Affordable(p)
  /\ IF Amount(p) > 0 THEN Debit(p) ELSE UNCHANGED <<posted, alloc>>
  /\ order' = [order EXCEPT ![p] = "paid"]
  /\ UNCHANGED <<legacy, reversed, asked>>

CheckoutCanceled(p) ==
  /\ order[p] = "absent"
  /\ ~Affordable(p)
  /\ order' = [order EXCEPT ![p] = "canceled"]
  /\ UNCHANGED <<legacy, posted, reversed, alloc, asked>>

\* The administrator's form: the amount is compared with the bonus balance
\* when it is typed ...
AskDeduction(d) ==
  /\ posted[d] = 0 /\ d \notin asked
  /\ Amount(d) <= BonusAvailable
  /\ asked' = asked \cup {d}
  /\ UNCHANGED <<legacy, posted, reversed, alloc, order>>

\* ... and again, under the lock, when the form is confirmed.
StillCovered(d) == Amount(d) <= BonusAvailable

ApplyDeduction(d) ==
  /\ d \in asked
  /\ asked' = asked \ {d}
  /\ StillCovered(d)
  /\ Debit(d)
  /\ UNCHANGED <<legacy, reversed, order>>

RefuseDeduction(d) ==
  /\ d \in asked
  /\ asked' = asked \ {d}
  /\ ~(StillCovered(d) /\ Covered(Amount(d)) /\ LotsAccept(Amount(d)))
  /\ UNCHANGED <<legacy, posted, reversed, alloc, order>>

Next ==
  \/ \E t \in TopUps : CreditTopUp(t)
  \/ \E g \in Gifts : CreditGift(g)
  \/ \E b \in Bonuses : GrantBonus(b) \/ ReverseBonus(b)
  \/ \E p \in Tariffs : PayFromWallet(p)
  \/ \E p \in WhiteOrders : CheckoutPaid(p) \/ CheckoutCanceled(p)
  \/ \E d \in Deductions :
       AskDeduction(d) \/ ApplyDeduction(d) \/ RefuseDeduction(d)

Spec == Init /\ [][Next]_vars

-----------------------------------------------------------------------------
(* What the wallet promises.                                               *)

\* Whatever the balance allows to spend can be attributed to lots that the
\* trigger accepts: neither "available_balance_has_no_credit_lots" nor the
\* trigger ever stops a purchase that get_account_balance has let pass, in
\* spite of reversals and old refunds that bypass the lots.
SpendableIsAttributable ==
  \A p \in Purchases :
    order[p] = "absent" /\ Affordable(p) =>
      Covered(Amount(p)) /\ LotsAccept(Amount(p))

\* Every committed debit is attributed to the ruble, and an attribution never
\* stands without its debit: purchases, deductions and old debits alike.
DebitsAttributed ==
  \A d \in Debits :
    MapThenSumSet(LAMBDA c : alloc[d][c], Credits) =
      IF posted[d] > 0 THEN Amount(d) ELSE 0

\* What is left of the user's own money: paid in, not yet spent or refunded.
RealUnspent ==
  MapThenSumSet(Capacity, Posted(TopUps \cup {Legacy}))

\* The balance shown as the user's own money is never more than what is left
\* of it, whatever was given, spent, reversed and refunded in which order.
RealNotOverstated == RealAvailable <= Larger(0, RealUnspent)

\* A wallet order is paid exactly when its price was taken from the wallet;
\* one that was canceled for lack of money has cost nothing.
PaidIsDebited ==
  \A p \in Purchases :
    Amount(p) > 0 => (order[p] = "paid" <=> posted[p] > 0)

\* A purchase or a deduction never leaves the wallet in debt, even when a
\* reversed bonus has left a lot that still looks unspent.
NoDebtByDebit ==
  [][(\E d \in Debits : posted[d] = 0 /\ posted'[d] > 0) => Position' >= 0]_vars

\* The user's own money is touched only when no bonus is left in any lot, and
\* of two lots of a kind the older one is emptied first.
BonusThenOldest ==
  [][\A d \in Debits, c \in Credits :
       alloc'[d][c] > alloc[d][c] =>
         \A b \in Posted(Credits) :
           \/ b \in BonusLots /\ c \notin BonusLots
           \/ (b \in BonusLots <=> c \in BonusLots) /\ posted[b] < posted[c]
           => Room(b)' = 0]_vars

\* An administrator's deduction takes from bonus lots only, although money may
\* have been spent or reversed between the preview and the confirmation.
DeductionTakesBonus ==
  \A d \in Deductions, c \in Credits \ BonusLots : alloc[d][c] = 0
=============================================================================
