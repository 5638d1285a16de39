--------------------------- MODULE MCAdminAccess ---------------------------
(* A small instance of AdminAccess for TLC: administrators and payments      *)
(* change the standard subscription of one user, who has no White Internet.  *)
EXTENDS AdminAccess, TLC

StandardSpec == Init /\ wi.kind = "none" /\ [][Next]_vars

Symmetry == Permutations(Sessions) \cup Permutations(Admins)
=============================================================================
