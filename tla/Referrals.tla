----------------------------- MODULE Referrals -----------------------------
(* Who has invited whom, and what the inviter earns: /start with a link      *)
(* (UserContextMiddleware, cmd_start, SubscriptionService.process_onboarding) *)
(* against the settlement of payments (grant_referral_bonus_for_topup) and   *)
(* their refunds.  Rows are locked as the code locks them; what is written    *)
(* under a lock is seen by others when the transaction commits.  Banned      *)
(* users and the ledger are in Orders, amounts in AccountLedger.             *)
EXTENDS Integers, FiniteSets

CONSTANTS Users, NoUser,
          Visits,        \* messages /start under way, each one transaction
          Payments,      \* orders paid with real money
          Payer,         \* the user of a payment
          Qualifies,     \* at least REFERRAL_ACTIVE_MIN_TOPUP_RUB
          MaxDepth,      \* MAX_REFERRAL_CHAIN_DEPTH
          Free           \* a row that nobody has locked

\* What the constants have to be.
ConstantsFit ==
  /\ IsFiniteSet(Users) /\ NoUser \notin Users
  /\ Payer \in [Payments -> Users]
  /\ Qualifies \in [Payments -> BOOLEAN]
  /\ MaxDepth \in Nat \ {0}
  /\ Visits \cap Payments = {} /\ Free \notin Visits \cup Payments

VARIABLES known,       \* users with a committed row
          referred_by, \* their referrer
          lock,        \* the transaction that has locked the user's row
          visit,       \* per message: how far it is, user, link, and its copy
          order,       \* "pending", "held", "paid" or "refunded"
          settle,      \* per payment: how far its settlement is, and its count
          bonus,       \* the committed entry for the referrer
          told,        \* <<user, referrer>>: pushes of a new referral
          overlapped   \* a referral was bound while another link was followed

vars == <<known, referred_by, lock, visit, order, settle, bonus, told, overlapped>>

NoVisit == [pc |-> "off", user |-> NoUser, ref |-> NoUser, copy |-> NoUser, new |-> FALSE]
Done == [NoVisit EXCEPT !.pc = "done"]
NoBonus == [to |-> NoUser, count |-> 0]
Unsettled == [pc |-> "off", count |-> 0]

TypeOK ==
  /\ known \subseteq Users
  /\ referred_by \in [Users -> known \cup {NoUser}]
  /\ lock \in [Users -> Visits \cup Payments \cup {Free}]
  /\ visit \in [Visits -> [pc : {"off", "read", "locked", "valid", "done"},
                           user : Users \cup {NoUser}, ref : Users \cup {NoUser},
                           copy : Users \cup {NoUser}, new : BOOLEAN]]
  /\ order \in [Payments -> {"pending", "held", "paid", "refunded"}]
  /\ settle \in [Payments -> [pc : {"off", "payer", "both"}, count : 0..Cardinality(Users)]]
  /\ bonus \in [Payments -> [to : Users \cup {NoUser}, count : 0..Cardinality(Users)]]
  /\ told \subseteq Users \X Users
  /\ overlapped \in BOOLEAN

-----------------------------------------------------------------------------
\* The users met when the links are followed up from u: u, its referrer, ...
Chain(u) ==
  LET up[n \in 0..Cardinality(Users)] ==
        IF n = 0 THEN u
        ELSE IF up[n - 1] = NoUser THEN NoUser ELSE referred_by[up[n - 1]]
  IN up

Acyclic == \A u \in Users : \E n \in DOMAIN Chain(u) : Chain(u)[n] = NoUser

\* _validate_referral: the chain above the referrer ends, in time, without u.
ValidReferral(u, ref) ==
  /\ ref # u /\ ref \in known
  /\ \E n \in DOMAIN Chain(ref) :
       /\ n <= MaxDepth
       /\ Chain(ref)[n] = NoUser
       /\ \A m \in 0..n : Chain(ref)[m] # u

\* has_successful_topup: paid, even if refunded since.
HasPaid(u) == \E o \in Payments : Payer[o] = u /\ order[o] # "pending"

\* _referral_paid_activity_condition, as it would be with the statuses s.
ActiveWith(s, u) ==
  \E o \in Payments : Payer[o] = u /\ Qualifies[o] /\ s[o] \in {"paid", "held"}

\* get_user_active_referrals_count.
ActiveReferrals(s, r) == {u \in Users : referred_by[u] = r /\ ActiveWith(s, u)}

RowIsFree(u) == lock[u] = Free

Releases(t) == [u \in Users |-> IF lock[u] = t THEN Free ELSE lock[u]]

-----------------------------------------------------------------------------
Init ==
  /\ known \in SUBSET Users
  /\ referred_by \in [Users -> known \cup {NoUser}]
  /\ \A u \in Users \ known : referred_by[u] = NoUser
  /\ Acyclic
  /\ lock = [u \in Users |-> Free]
  /\ visit = [v \in Visits |-> NoVisit]
  /\ order = [o \in Payments |-> "pending"]
  /\ settle = [o \in Payments |-> Unsettled]
  /\ bonus = [o \in Payments |-> NoBonus]
  /\ told = {} /\ overlapped = FALSE

paymentVars == <<order, settle, bonus>>

\* The middleware reads the user's row, or inserts it: the key is unique, so
\* another message of the same new user waits.
Arrive(v, u, ref) ==
  /\ visit[v] = NoVisit
  /\ u \notin known => RowIsFree(u)
  /\ visit' = [visit EXCEPT ![v] =
       [pc |-> "read", user |-> u, ref |-> ref, copy |-> referred_by[u], new |-> u \notin known]]
  /\ lock' = IF u \in known THEN lock ELSE [lock EXCEPT ![u] = v]
  /\ UNCHANGED <<known, referred_by, paymentVars, told, overlapped>>

\* The transaction ends with nothing to bind; a new row is there from now on.
Ends(v) ==
  /\ visit' = [visit EXCEPT ![v] = Done]
  /\ lock' = Releases(v)
  /\ known' = IF visit[v].new THEN known \cup {visit[v].user} ELSE known

\* No link, or the copy has a referrer already.
NothingToBind(v) ==
  /\ visit[v].pc = "read"
  /\ visit[v].ref = NoUser \/ visit[v].copy # NoUser
  /\ Ends(v)
  /\ UNCHANGED <<referred_by, paymentVars, told, overlapped>>

\* SELECT ... FOR UPDATE of the user's own row.  The session has read it
\* before, so the copy's referred_by is not refreshed.
LockOwnRow(v) ==
  /\ visit[v].pc = "read" /\ visit[v].ref # NoUser /\ visit[v].copy = NoUser
  /\ lock[visit[v].user] \in {Free, v}
  /\ lock' = [lock EXCEPT ![visit[v].user] = v]
  /\ visit' = [visit EXCEPT ![v].pc = "locked"]
  /\ UNCHANGED <<known, referred_by, paymentVars, told, overlapped>>

\* Nothing was ever paid, and the referrer will do.
Bindable(v) == ~HasPaid(visit[v].user) /\ ValidReferral(visit[v].user, visit[v].ref)

CheckReferral(v) ==
  /\ visit[v].pc = "locked"
  /\ IF Bindable(v)
     THEN /\ visit' = [visit EXCEPT ![v].pc = "valid"]
          /\ UNCHANGED <<lock, known>>
     ELSE Ends(v)
  /\ UNCHANGED <<referred_by, paymentVars, told, overlapped>>

\* The handler has drawn the hub and the session commits; then the referrer
\* is told.
CommitReferral(v) ==
  LET u == visit[v].user IN
  /\ visit[v].pc = "valid"
  /\ Ends(v)
  /\ referred_by' = [referred_by EXCEPT ![u] = visit[v].ref]
  /\ told' = told \cup {<<u, visit[v].ref>>}
  /\ overlapped' = (overlapped \/
       \E w \in Visits \ {v} : visit[w].ref # NoUser /\ visit[w].pc \in {"read", "locked", "valid"})
  /\ UNCHANGED paymentVars

\* The message fails, or the process stops: the transaction is rolled back.
VisitFails(v) ==
  /\ visit[v].pc \in {"read", "locked", "valid"}
  /\ visit' = [visit EXCEPT ![v] = Done]
  /\ lock' = Releases(v)
  /\ UNCHANGED <<known, referred_by, paymentVars, told, overlapped>>

-----------------------------------------------------------------------------
visitVars == <<known, referred_by, visit, told, overlapped>>

\* A settlement reads the payer afresh under the row lock.
LockPayer(o) ==
  /\ order[o] \in {"pending", "held"} /\ settle[o].pc = "off"
  /\ Payer[o] \in known /\ RowIsFree(Payer[o])
  /\ lock' = [lock EXCEPT ![Payer[o]] = o]
  /\ settle' = [settle EXCEPT ![o].pc = "payer"]
  /\ UNCHANGED <<visitVars, order, bonus>>

\* The payer may not be settled now: paid, the benefits withheld.
Hold(o) ==
  /\ settle[o].pc = "payer" /\ order[o] = "pending"
  /\ order' = [order EXCEPT ![o] = "held"]
  /\ settle' = [settle EXCEPT ![o] = Unsettled]
  /\ lock' = Releases(o)
  /\ UNCHANGED <<visitVars, bonus>>

\* No other payment that qualifies: this one activates the referral.
FirstActivation(o) ==
  ~\E other \in Payments \ {o} :
     /\ Payer[other] = Payer[o] /\ Qualifies[other]
     /\ order[other] \in {"paid", "held"}

\* The referrals that set the rate: those active, this payment included, less
\* the one this payment activates.
EffectiveCount(o) ==
  Cardinality(ActiveReferrals([order EXCEPT ![o] = "paid"], referred_by[Payer[o]]))
    - (IF FirstActivation(o) /\ Qualifies[o] THEN 1 ELSE 0)

Rewarded(o) == referred_by[Payer[o]] \notin {NoUser, Payer[o]}

\* Variant: the referrer's row is read without a lock.
CountUnlocked(o) ==
  /\ settle[o].pc = "payer" /\ Rewarded(o)
  /\ UNCHANGED lock
  /\ settle' = [settle EXCEPT ![o] = [pc |-> "both", count |-> EffectiveCount(o)]]
  /\ UNCHANGED <<visitVars, order, bonus>>

\* The referrer's row is locked, then his active referrals are counted.
CountReferrals(o) ==
  /\ settle[o].pc = "payer" /\ Rewarded(o)
  /\ RowIsFree(referred_by[Payer[o]])
  /\ lock' = [lock EXCEPT ![referred_by[Payer[o]]] = o]
  /\ settle' = [settle EXCEPT ![o] = [pc |-> "both", count |-> EffectiveCount(o)]]
  /\ UNCHANGED <<visitVars, order, bonus>>

\* The benefits are given; with a referrer, his entry at the rate of the count.
CommitSettlement(o) ==
  /\ settle[o].pc = IF Rewarded(o) THEN "both" ELSE "payer"
  /\ order' = [order EXCEPT ![o] = "paid"]
  /\ bonus' = IF Rewarded(o)
              THEN [bonus EXCEPT ![o] = [to |-> referred_by[Payer[o]], count |-> settle[o].count]]
              ELSE bonus
  /\ settle' = [settle EXCEPT ![o] = Unsettled]
  /\ lock' = Releases(o)
  /\ UNCHANGED visitVars

\* Settlements that wait for each other's rows.
Deadlocked(S) ==
  /\ S # {}
  /\ \A o \in S : settle[o].pc = "payer" /\ Rewarded(o) /\ lock[referred_by[Payer[o]]] \in S

\* The database breaks a deadlock; a settlement may fail in other ways, too.
SettlementFails(o) ==
  /\ settle[o].pc # "off"
  /\ settle' = [settle EXCEPT ![o] = Unsettled]
  /\ lock' = Releases(o)
  /\ UNCHANGED <<visitVars, order, bonus>>

\* _mark_order_refunded takes the payer's row, and writes the reversal under
\* the key of the referrer's.
Refund(o) ==
  /\ order[o] \in {"paid", "held"} /\ settle[o].pc = "off"
  /\ RowIsFree(Payer[o])
  /\ bonus[o] # NoBonus => RowIsFree(bonus[o].to)
  /\ order' = [order EXCEPT ![o] = "refunded"]
  /\ UNCHANGED <<visitVars, lock, settle, bonus>>

Next ==
  \/ \E v \in Visits, u \in Users, ref \in Users \cup {NoUser} : Arrive(v, u, ref)
  \/ \E v \in Visits :
       \/ NothingToBind(v) \/ LockOwnRow(v) \/ CheckReferral(v)
       \/ CommitReferral(v) \/ VisitFails(v)
  \/ \E o \in Payments :
       \/ LockPayer(o) \/ Hold(o) \/ CountReferrals(o) \/ CommitSettlement(o)
       \/ SettlementFails(o) \/ Refund(o)

Spec == Init /\ [][Next]_vars

-----------------------------------------------------------------------------
\* While links are followed one at a time, nobody is above himself in a chain
\* of referrals, settlements never wait for each other's rows, and a referrer
\* who was told of a referral keeps it (_validate_referral, process_onboarding).
OneLinkAtATime ==
  ~overlapped =>
    /\ Acyclic
    /\ \A S \in SUBSET Payments : ~Deadlocked(S)
    /\ \A pair \in told : referred_by[pair[1]] = pair[2]

\* Whatever the messages in flight, a referrer neither changes nor appears once
\* the user has paid: has_successful_topup is read under the row lock that
\* every settlement takes.
FrozenOncePaid == \A u \in Users : HasPaid(u) => referred_by'[u] = referred_by[u]

\* A bonus goes at the rate of the referrals active before the payment: all
\* those whose own bonus is committed and not refunded count, none counts that
\* has not paid, and two payments settled at once do not count alike.
EarnedRate ==
  \A o \in Payments :
    bonus'[o] # bonus[o] =>
      LET referrals == {u \in Users : referred_by[u] = bonus'[o].to}
          others == {p \in Payments \ {o} : Qualifies[p]}
          rewarded == {Payer[p] : p \in {q \in others : bonus[q] # NoBonus /\ order[q] = "paid"}}
          payers == {Payer[p] : p \in {q \in others : order[q] # "pending"}}
      IN /\ Cardinality(referrals \cap rewarded) <= bonus'[o].count
         /\ bonus'[o].count <= Cardinality(referrals \cap payers)
=============================================================================
