------------------------------- MODULE TwoPots -------------------------------
(* What the White Internet quota promises its buyer: the bytes of the       *)
(* tariff and the bytes bought on top are two pots.  Traffic empties the    *)
(* tariff's pot first; a new period fills it again and keeps what was       *)
(* bought, unless the offer lapsed.                                         *)
EXTENDS Naturals

VARIABLES tariffPot, boughtPot

pots == <<tariffPot, boughtPot>>

PotsInit == tariffPot \in Nat /\ boughtPot = 0

\* Traffic takes from the bought pot only what the tariff's no longer holds;
\* what finds both pots empty is not charged.
Use ==
    /\ tariffPot' \in 0..tariffPot /\ boughtPot' \in 0..boughtPot
    /\ boughtPot' < boughtPot => tariffPot' = 0

Buy == boughtPot' \in Nat /\ boughtPot' >= boughtPot /\ UNCHANGED tariffPot

NewPeriod == tariffPot' \in Nat /\ boughtPot' \in {boughtPot, 0}

PotsNext == Use \/ Buy \/ NewPeriod

PotsSpec == PotsInit /\ [][PotsNext]_pots
=============================================================================
