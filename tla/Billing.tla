------------------------------- MODULE Billing --------------------------------
(***************************************************************************)
(* What a user's days of standard access are worth (PaidAccess), beside the *)
(* cache of the settings that billing reads (SettingsCache): the terms of a *)
(* referral are among them, prices are not, and so the two share no state.  *)
(***************************************************************************)
EXTENDS SettingsCache

CONSTANTS
    Tariffs, NoTariff, Price, Days,
    Scale, Day,         \* parts of a ruble, ticks of a day (PaidAccess)
    Orders,             \* orders through the gateway
    MaxWallet, MaxDay   \* bounds on wallet purchases and on the clock

VARIABLES day, end, tariff, order, wallet, paid, rounded, misfit

Access == INSTANCE PaidAccess WITH now <- day, MaxNow <- MaxDay

-----------------------------------------------------------------------------
\* As long as terms still fit when they are paid or taken back, the access that
\* is left is worth no more than what was paid for it and less than half a
\* ruble and half a day is lost by a change of tariff; the welcome discount is
\* given once (calculate_tariff_change, fulfill_order and revoke_order in
\* PaidAccess).
DaysArePaid ==
    Access!TypeOK /\ Access!AccessIsPaid /\ Access!DiscountOnce /\ Access!ChangeIsFair
=============================================================================
