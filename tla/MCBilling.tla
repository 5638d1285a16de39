----------------------------- MODULE MCBilling -----------------------------
(* Small instances of Billing, AccountLedger and Referrals.  They share no   *)
(* state here, so TLC explores them one scene at a time: their product would *)
(* show nothing more.  In the scenes of the others the setting and the       *)
(* access rest.                                                              *)
EXTENDS Billing, TLC

CONSTANTS t1, t2, g1, b1, p1, p2, w1, d1, \* rows of the wallet's ledger
          r1, r2, r3, v1, v2, x1, x2,    \* users, their messages and payments
          ta, tb, tc, None               \* tariffs; nothing

VARIABLES scene,
          legacy, posted, reversed, alloc, purchase, asked,      \* AccountLedger
          known, invitedBy, rowLock, message, payment, settling, \* Referrals
          reward, told, overlapped

\* Prices and credits that can meet exactly, fall short by one, and split a
\* debit over a bonus lot and the user's own money.
SmallAmounts == (t1 :> 3) @@ (t2 :> 1) @@ (g1 :> 2) @@ (b1 :> 1)
                @@ (p1 :> 3) @@ (p2 :> 1) @@ (w1 :> 2) @@ (d1 :> 2)

\* No old rows; old money left; and old money refunded after it was spent.
OldRows == {[credit |-> 0, spent |-> 0, refunded |-> 0],
            [credit |-> 3, spent |-> 1, refunded |-> 1],
            [credit |-> 2, spent |-> 2, refunded |-> 1]}

Wallet == INSTANCE AccountLedger WITH
  TopUps <- {t1, t2}, Gifts <- {g1}, Bonuses <- {b1}, Tariffs <- {p1, p2},
  WhiteOrders <- {w1}, Deductions <- {d1}, Legacy <- "legacy",
  LegacyDebit <- "legacyDebit", Legacies <- OldRows, AmountOf <- SmallAmounts,
  order <- purchase

\* Two messages at once, and a payment; or two friends pay while somebody
\* follows a link; or one friend pays twice, little at first.
Links == INSTANCE Referrals WITH
  Users <- {r1, r2, r3}, NoUser <- None, Visits <- {v1, v2}, Payments <- {x1},
  Payer <- (x1 :> r1), Qualifies <- (x1 :> TRUE),
  MaxDepth <- 2, Free <- None, referred_by <- invitedBy, lock <- rowLock,
  visit <- message, order <- payment, settle <- settling, bonus <- reward
Friends == INSTANCE Referrals WITH
  Users <- {r1, r2, r3}, NoUser <- None, Visits <- {v1}, Payments <- {x1, x2},
  Payer <- (x1 :> r1) @@ (x2 :> r2), Qualifies <- (x1 :> TRUE) @@ (x2 :> TRUE),
  MaxDepth <- 2, Free <- None, referred_by <- invitedBy, lock <- rowLock,
  visit <- message, order <- payment, settle <- settling, bonus <- reward
Little == INSTANCE Referrals WITH
  Users <- {r1, r2, r3}, NoUser <- None, Visits <- {v1}, Payments <- {x1, x2},
  Payer <- (x1 :> r1) @@ (x2 :> r1), Qualifies <- (x1 :> FALSE) @@ (x2 :> TRUE),
  MaxDepth <- 2, Free <- None, referred_by <- invitedBy, lock <- rowLock,
  visit <- message, order <- payment, settle <- settling, bonus <- reward

\* Two tariffs of the same daily price and one that costs more a day; half days.
SmallTariffs == {ta, tb, tc}
SmallPrices == (ta :> 3) @@ (tb :> 4) @@ (tc :> 6)
SmallDays == (ta :> 2) @@ (tb :> 2) @@ (tc :> 4)

ASSUME InstancesFit ==
  Links!ConstantsFit /\ Friends!ConstantsFit /\ Little!ConstantsFit /\ Access!ConstantsFit

walletVars == <<legacy, posted, reversed, alloc, purchase, asked>>
linkVars == <<known, invitedBy, rowLock, message, payment, settling, reward, told, overlapped>>
dayVars == <<day, end, tariff, order, wallet, paid, rounded, misfit>>
allVars == <<vars, scene, walletVars, linkVars, dayVars>>

NoWallet == Wallet!Init /\ legacy.credit = 0
NoLinks ==
  /\ known = None /\ invitedBy = None /\ rowLock = None /\ message = None
  /\ payment = None /\ settling = None /\ reward = None /\ told = None /\ overlapped = None

BillingInit ==
  /\ Init /\ Access!Init
  /\ \/ scene \in {"setting", "days"} /\ NoWallet /\ NoLinks
     \/ scene = "wallet" /\ Wallet!Init /\ NoLinks
     \/ scene = "links" /\ Links!Init /\ NoWallet
     \/ scene = "friends" /\ Friends!Init /\ NoWallet
     \/ scene = "little" /\ Little!Init /\ NoWallet

BillingNext ==
  \/ scene = "setting" /\ Next /\ UNCHANGED <<scene, walletVars, linkVars, dayVars>>
  \/ scene = "wallet" /\ Wallet!Next /\ UNCHANGED <<scene, vars, linkVars, dayVars>>
  \/ scene = "links" /\ Links!Next /\ UNCHANGED <<scene, vars, walletVars, dayVars>>
  \/ scene = "friends" /\ Friends!Next /\ UNCHANGED <<scene, vars, walletVars, dayVars>>
  \/ scene = "little" /\ Little!Next /\ UNCHANGED <<scene, vars, walletVars, dayVars>>
  \/ scene = "days" /\ Access!Next /\ UNCHANGED <<scene, vars, walletVars, linkVars>>

BillingSpec == BillingInit /\ [][BillingNext]_allVars

-----------------------------------------------------------------------------
\* The wallet of AccountLedger: what a purchase is told it can spend is what
\* the lots can give, every debit is attributed to credits, own money is not
\* counted twice, a purchase is paid exactly when it is debited, and an
\* administrator's deduction takes bonus lots only; a debit never leaves the
\* wallet in debt, takes bonus lots before own money and the oldest lot first.
WalletExact ==
  /\ [](scene = "wallet" =>
          /\ Wallet!TypeOK
          /\ Wallet!SpendableIsAttributable
          /\ Wallet!DebitsAttributed
          /\ Wallet!RealNotOverstated
          /\ Wallet!PaidIsDebited
          /\ Wallet!DeductionTakesBonus)
  /\ Wallet!NoDebtByDebit /\ Wallet!BonusThenOldest

\* While links are followed one at a time, nobody is above himself in the chain
\* of referrals, settlements do not deadlock on users' rows, and a referrer who
\* was told of a referral keeps it; always, the referrer of a user who has paid
\* stays, and bonuses go at the rate of the referrals that were active before
\* the payment (Referrals).
ReferralsHold ==
  /\ [](/\ scene = "links" => Links!TypeOK /\ Links!OneLinkAtATime
        /\ scene = "friends" => Friends!TypeOK /\ Friends!OneLinkAtATime
        /\ scene = "little" => Little!TypeOK /\ Little!OneLinkAtATime)
  /\ [][/\ scene = "links" => Links!FrozenOncePaid /\ Links!EarnedRate
        /\ scene = "friends" => Friends!FrozenOncePaid /\ Friends!EarnedRate
        /\ scene = "little" => Little!FrozenOncePaid /\ Little!EarnedRate]_allVars
=============================================================================
