---------------------------- MODULE PaidAccess ----------------------------
(* What the days of standard access are worth: the terms of a tariff order   *)
(* (_resolve_order_terms, calculate_tariff_change), what its settlement does  *)
(* to the end date (fulfill_order) and what a refund takes back               *)
(* (revoke_order), for one user.  Terms are fixed when a gateway order is     *)
(* created and applied when it is paid; a purchase from the wallet does both  *)
(* at once.  The life of orders is in Orders, the wallet in AccountLedger;    *)
(* an administrator's changes of access are in AdminAccess, and prices do     *)
(* not change here.                                                          *)
EXTENDS Integers, FiniteSets

CONSTANTS Tariffs, NoTariff, Price, Days,
          Scale,      \* makes the price of a day a whole number
          Day,        \* ticks of the clock
          Orders,     \* orders through the gateway
          MaxWallet, MaxNow

\* What the constants have to be.
ConstantsFit ==
  /\ NoTariff \notin Tariffs
  /\ Price \in [Tariffs -> Nat \ {0}] /\ Days \in [Tariffs -> Nat \ {0}]
  /\ Scale \in Nat \ {0} /\ Day \in Nat \ {0}
  /\ \A t \in Tariffs : (Price[t] * Scale) % Days[t] = 0
  /\ MaxWallet \in Nat /\ MaxNow \in Nat

VARIABLES now,
          end,      \* subscription_end; none, or past, is no access
          tariff,   \* current_tariff_id
          order,    \* per gateway order: its status and terms, and what it met
          wallet,   \* purchases from the wallet: all, with a price, discounted
          paid,     \* net payments and discounts for the access
          rounded,  \* what changes of tariff have rounded in the user's favour
          misfit    \* terms were applied, or taken back, that no longer fitted

vars == <<now, end, tariff, order, wallet, paid, rounded, misfit>>

NoTerms == [tariff |-> NoTariff, due |-> 0, discount |-> 0, days |-> 0, change |-> FALSE]
NoOrder == [st |-> "none", terms |-> NoTerms, end |-> 0, tariff |-> NoTariff, over |-> FALSE]

TypeOK ==
  /\ now \in 0..MaxNow /\ end \in Nat
  /\ tariff \in Tariffs \cup {NoTariff}
  /\ \A o \in Orders : order[o].st \in {"none", "pending", "paid", "refunded"}
  /\ wallet.discounted <= wallet.bought /\ wallet.bought <= wallet.all
  /\ paid \in Nat /\ rounded \in Nat /\ misfit \in BOOLEAN

-----------------------------------------------------------------------------
Active == end > now
Left == IF Active THEN end - now ELSE 0

\* round(): to the nearest, halves to the even neighbour.
Round(n, d) ==
  LET q == n \div d
      r == n % d
  IN IF 2 * r > d \/ (2 * r = d /\ q % 2 = 1) THEN q + 1 ELSE q

\* The price of a day, times Scale.
Rate(t) == (Price[t] * Scale) \div Days[t]

\* Started days count.
DaysLeft == (Left + Day - 1) \div Day

\* calculate_tariff_change: what is left pays for days of the new tariff, or
\* for a part of one cycle of it.
TariffChange(from, t) ==
  LET rest == Round(DaysLeft * Price[from], Days[from]) IN
  IF rest >= Price[t]
  THEN [due |-> 0,
        days |-> IF Rate(from) = Rate(t) THEN DaysLeft
                 ELSE LET n == Round(rest * Days[t], Price[t]) IN IF n < 1 THEN 1 ELSE n]
  ELSE [due |-> Price[t] - rest, days |-> Days[t]]

Bought(terms) == terms.due > 0

\* is_eligible_for_referral_first_discount: the user was invited, and no tariff
\* order with a price is paid (one that was refunded does not count).
Eligible ==
  /\ \A o \in Orders : ~(order[o].st = "paid" /\ Bought(order[o].terms))
  /\ wallet.bought = 0

\* 25 % rounded down, and at least one ruble is left to pay.
Discount(t) ==
  LET d == Price[t] \div 4 IN IF Price[t] - d >= 1 THEN d ELSE Price[t] - 1

\* _resolve_order_terms.
OrderTerms(t) ==
  IF Active /\ tariff \notin {NoTariff, t}
  THEN LET c == TariffChange(tariff, t) IN
       [tariff |-> t, due |-> c.due, discount |-> 0, days |-> c.days, change |-> TRUE]
  ELSE LET d == IF Eligible THEN Discount(t) ELSE 0 IN
       [tariff |-> t, due |-> Price[t] - d, discount |-> d, days |-> Days[t], change |-> FALSE]

Init ==
  /\ now = 0 /\ end = 0 /\ tariff = NoTariff
  /\ order = [o \in Orders |-> NoOrder]
  /\ wallet = [all |-> 0, bought |-> 0, discounted |-> 0] /\ paid = 0 /\ rounded = 0 /\ misfit = FALSE

\* fulfill_order: a change counts from now, everything else from the end.
EndAfter(terms) ==
  IF terms.change THEN now + terms.days * Day
  ELSE (IF Active THEN end ELSE now) + terms.days * Day

\* Every order that is paid already lies under a change from now on.
Covered(terms) ==
  [o \in Orders |-> [order[o] EXCEPT !.over = @ \/ (terms.change /\ order[o].st = "paid")]]

\* In the user's favour: the rest of the day that has started, half a ruble
\* and half a day of the new tariff; in half rubles, times Day and Scale.
RoundedUp(terms) ==
  IF terms.change /\ tariff # NoTariff
  THEN 2 * (DaysLeft * Day - Left) * Rate(tariff) + Day * Scale + Day * Rate(terms.tariff)
  ELSE 0

Fulfill(terms) ==
  /\ end' = EndAfter(terms)
  /\ tariff' = terms.tariff
  /\ paid' = paid + terms.due + terms.discount
  /\ rounded' = rounded + RoundedUp(terms)
  /\ misfit' = (misfit \/ terms # OrderTerms(terms.tariff))

-----------------------------------------------------------------------------
\* pay_from_wallet: under the user's lock, terms and fulfilment in one step.
PayFromWallet(t) ==
  /\ wallet.all < MaxWallet
  /\ Fulfill(OrderTerms(t))
  /\ order' = Covered(OrderTerms(t))
  /\ wallet' = [all |-> wallet.all + 1,
                 bought |-> wallet.bought + (IF Bought(OrderTerms(t)) THEN 1 ELSE 0),
                 discounted |-> wallet.discounted + (IF OrderTerms(t).discount > 0 THEN 1 ELSE 0)]
  /\ UNCHANGED now

\* order_pay_card: what costs nothing goes through the wallet instead.
CreateOrder(o, t) ==
  /\ order[o].st = "none"
  /\ OrderTerms(t).due > 0
  /\ order' = [order EXCEPT ![o] = [NoOrder EXCEPT !.st = "pending", !.terms = OrderTerms(t)]]
  /\ UNCHANGED <<now, end, tariff, wallet, paid, rounded, misfit>>

\* The gateway reports the payment: the order keeps the end and the tariff it
\* meets, for its refund.
Settle(o) ==
  /\ order[o].st = "pending"
  /\ Fulfill(order[o].terms)
  /\ order' = [Covered(order[o].terms) EXCEPT
       ![o] = [@ EXCEPT !.st = "paid", !.end = end, !.tariff = tariff]]
  /\ UNCHANGED <<now, wallet>>

\* Variant: a refund leaves the access as it is while it lasts.
EndRefundedKept(o) == end

\* revoke_order: a change restores the end it met, everything else takes its
\* days back and leaves the past when nothing remains.
EndRefunded(o) ==
  LET rest == end - order[o].terms.days * Day IN
  IF order[o].terms.change THEN order[o].end
  ELSE IF rest <= now THEN 0 ELSE rest

Refund(o) ==
  /\ order[o].st = "paid"
  /\ end' = EndRefunded(o)
  /\ tariff' = IF order[o].terms.change /\ order[o].tariff # NoTariff
               THEN order[o].tariff ELSE tariff
  /\ order' = [order EXCEPT ![o].st = "refunded"]
  /\ paid' = paid - order[o].terms.due - order[o].terms.discount
  /\ misfit' = (misfit \/ order[o].over)
  /\ UNCHANGED <<now, wallet, rounded>>

TimePasses ==
  /\ now < MaxNow
  /\ now' = now + 1
  /\ UNCHANGED <<end, tariff, order, wallet, paid, rounded, misfit>>

Next ==
  \/ \E t \in Tariffs : PayFromWallet(t) \/ \E o \in Orders : CreateOrder(o, t)
  \/ \E o \in Orders : Settle(o) \/ Refund(o)
  \/ TimePasses

Spec == Init /\ [][Next]_vars

-----------------------------------------------------------------------------
\* As long as orders are paid while their terms still fit, and none is refunded
\* from under a later change of tariff, the access that is left is never worth
\* more than was paid for it, discounts included, and what the changes rounded
\* up (calculate_tariff_change, fulfill_order, revoke_order).
AccessIsPaid ==
  ~misfit /\ Active =>
    2 * Left * Rate(tariff) <= 2 * Day * Scale * paid + rounded

\* Under the same condition at most one order that stayed paid has the welcome
\* discount (is_eligible_for_referral_first_discount).
DiscountOnce ==
  ~misfit =>
    Cardinality({o \in Orders : order[o].st = "paid" /\ order[o].terms.discount > 0})
      + wallet.discounted <= 1

\* A change of tariff whose terms fit takes nothing from the user beyond half a
\* ruble and half a day of the new tariff (calculate_tariff_change).
ChangeIsFair ==
  \A t \in Tariffs :
    LET terms == OrderTerms(t)
        after == 2 * terms.days * Day * Rate(t)
        before == 2 * Left * Rate(tariff) + 2 * Day * Scale * terms.due
    IN terms.change => after + Day * Scale + Day * Rate(t) >= before
=============================================================================
