------------------------------ MODULE MCSales ------------------------------
(* Small instances of Orders for its safety properties: one top-up with      *)
(* everything that may happen to it, one tariff of a referred user, and two  *)
(* requests for the same tariff.  TLC explores them one scene at a time: the *)
(* orders of the other scenes are never requested.                           *)
EXTENDS Orders

CONSTANTS u1, u2, o1, o2, o3

VARIABLE scene

OwnerOfAll == [o \in OrderIds |-> u1]
TopupOrTariff == [o \in OrderIds |-> IF o = o3 THEN "topup" ELSE "standard"]
SameTerms == [o \in OrderIds |-> "terms"]
ReferredByU2 == [u \in Users |-> IF u = u1 THEN u2 ELSE NoUser]
BonusOfTariffs == [o \in OrderIds |-> o # o3]

\* The top-up has two changes of its user's flags, the tariff one; the two
\* requests go up to the payment, without the button "check payment".
InScene ==
  CASE scene = "topup" -> {o1, o2} \cap want = {} /\ ~banning[u2] /\ ~hold[u2] /\ ~block[u2] /\ ~banned[u2]
    [] scene = "tariff" -> {o2, o3} \cap want = {} /\ flips <= 1
    [] scene = "clicks" ->
         /\ o3 \notin want /\ flips <= 1 /\ ~banning[u2] /\ ~hold[u2] /\ ~block[u2]
         /\ \A o \in OrderIds : checkCopy[o] = NoCopy /\ pay[o] \in {"none", "pending"}

SalesSpec ==
  /\ Init /\ scene \in {"topup", "tariff", "clicks"}
  /\ [][Next /\ UNCHANGED scene /\ InScene']_<<vars, scene>>
=============================================================================
