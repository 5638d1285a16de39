--------------------------- MODULE WhiteQuotaProofs ---------------------------
(* The quota of a White Internet subscription is metered once, blocks only   *)
(* what is used up and stays under its cap; every change of service is       *)
(* published; and but for corrections the row implements the two pots: for   *)
(* any tariff, packs, caps, downloads and any number of operations.          *)
EXTENDS WhiteQuota, TLAPS

\* A row of the table that is blocked only when used up, and under its cap.
Sound(r) ==
    /\ r \in Rows /\ r.over <= r.used
    /\ r.status = "EXHAUSTED" => Available(r) = 0
    /\ r.extra <= r.limit * Cap

\* What every operation leaves: a sound row with the same baselines, and a new
\* version if the node is to start or to stop serving it.
Follows(r, t) ==
    /\ Sound(t)
    /\ t.last = r.last /\ t.epoch = r.epoch
    /\ Serving(r) # Serving(t) => t.ver > r.ver

\* The bytes that the job in hand adds to the row.
Delta == job.count - Baseline(row, job)

\* What the client's counter shows beyond the metered bytes was served: all of
\* it, or what it has grown since the baseline of the row.
CounterIsServed ==
    \/ total + node.count <= served
    \/ /\ row.epoch = node.epoch /\ row.last <= node.count
       /\ total + (node.count - row.last) <= served

\* The same once the snapshot in hand is applied.
SnapshotIsServed ==
    job # Idle /\ job.kind = "snapshot" =>
        \/ total + Delta + node.count <= served
        \/ /\ job.epoch = node.epoch /\ job.count <= node.count
           /\ total + Delta + (node.count - job.count) <= served

QuotaInv == TypeOK /\ Sound(row) /\ CounterIsServed /\ SnapshotIsServed

-----------------------------------------------------------------------------
\* The cap of a device limit is a number, and grows with the limit.
LEMMA CapGrows ==
    ASSUME NEW limit \in Nat
    PROVE  limit * Cap \in Nat /\ limit * Cap <= (limit + 1) * Cap
BY QuotaConstants

\* The quota that a number of devices includes.
LEMMA TariffIsNat == ASSUME NEW limit \in Nat PROVE limit * Base \in Nat
BY QuotaConstants

\* What is charged is what was used and not written off.
LEMMA ChargedIs ==
    ASSUME NEW r, r \in Rows, r.over <= r.used
    PROVE  Charged(r) = r.used - r.over /\ Charged(r) \in Nat /\ Available(r) \in Nat
BY DEF Rows, Charged, Available, Larger, Quota

\* The difference is never negative, and never more than the counter.
LEMMA DeltaIsNat ==
    ASSUME NEW r \in Rows, NEW s \in Jobs
    PROVE  s.count - Baseline(r, s) \in 0..s.count
BY DEF Rows, Jobs, Baseline

\* record_and_deduct_traffic_atomic keeps a sound row sound.
LEMMA RecordedIsSound ==
    ASSUME NEW r, Sound(r), NEW s \in Jobs, s.count - Baseline(r, s) > 0
    PROVE  /\ Sound(Recorded(r, s))
           /\ Recorded(r, s).epoch = s.epoch /\ Recorded(r, s).last = s.count
<1> DEFINE delta == s.count - Baseline(r, s)
           overage == IF r.status \in {"DISABLED", "EXPIRED"} THEN delta
                      ELSE Larger(0, delta - Available(r))
           metered == [r EXCEPT !.used = @ + delta, !.over = @ + overage,
                                !.last = s.count, !.epoch = s.epoch]
           blocked == [metered EXCEPT !.status = "EXHAUSTED", !.ver = @ + 1, !.warned = TRUE]
<1>1. r \in Rows /\ r.over <= r.used
  BY DEF Sound
<1>2. delta \in Nat /\ Available(r) \in Nat
  BY <1>1, DeltaIsNat, ChargedIs
<1>3. overage \in 0..delta
  BY <1>2 DEF Larger
<1>4. metered \in Rows
  <2> HIDE DEF delta, overage
  <2>1. r.used + delta \in Nat /\ r.over + overage \in Nat
    BY <1>1, <1>2, <1>3 DEF Rows
  <2>2. s.count \in Nat /\ s.epoch \in Nat \cup {NoEpoch}
    BY DEF Jobs
  <2> QED BY <1>1, <2>1, <2>2 DEF Rows
<1>5. /\ metered.used = r.used + delta /\ metered.over = r.over + overage
      /\ metered.status = r.status /\ metered.base = r.base /\ metered.extra = r.extra
      /\ metered.limit = r.limit /\ metered.epoch = s.epoch /\ metered.last = s.count
  <2> HIDE DEF delta, overage
  <2> QED BY <1>1 DEF Rows
<1>6. r.used \in Nat /\ r.over \in Nat /\ metered.over <= metered.used
  <2> HIDE DEF delta, overage, metered
  <2> QED BY <1>1, <1>2, <1>3, <1>5 DEF Rows
<1>7. metered.status = "EXHAUSTED" => Available(metered) = 0
  <2> SUFFICES ASSUME r.status = "EXHAUSTED" PROVE Available(metered) = 0
    BY <1>5
  <2>1. Available(r) = 0
    BY DEF Sound
  <2>2. overage = delta
    BY <1>2, <2>1 DEF Larger
  <2> HIDE DEF delta, overage, metered
  <2>3. metered.used - metered.over = r.used - r.over
    BY <1>2, <1>3, <1>5, <1>6, <2>2
  <2> QED
    BY <1>5, <2>1, <2>3 DEF Available, Charged, Quota
<1>8. /\ blocked \in Rows /\ Available(blocked) = Available(metered)
      /\ blocked.over = metered.over /\ blocked.used = metered.used
      /\ blocked.extra = metered.extra /\ blocked.limit = metered.limit
      /\ blocked.epoch = metered.epoch /\ blocked.last = metered.last
  <2> HIDE DEF metered
  <2>1. metered.ver + 1 \in Nat /\ "EXHAUSTED" \in Statuses /\ TRUE \in BOOLEAN
    BY <1>4 DEF Rows, Statuses
  <2>2. blocked \in Rows
    BY <1>4, <2>1 DEF Rows
  <2> QED BY <1>4, <2>2 DEF Rows, Available, Charged, Quota
<1>9. Recorded(r, s) = IF Available(metered) = 0 /\ r.status = "ACTIVE"
                       THEN blocked ELSE metered
  BY DEF Recorded
<1> HIDE DEF metered, blocked
<1> QED
  BY <1>4, <1>5, <1>6, <1>7, <1>8, <1>9 DEF Sound

\* _reactivate of an exhausted row, and the other parts of an operation.
LEMMA ReactivatedFollows ==
    ASSUME NEW r \in Rows, r.over <= r.used, r.extra <= r.limit * Cap
    PROVE  Follows(r, Reactivated(r)) /\ Reactivated(r).status # "EXHAUSTED"
<1>1. CASE r.status = "EXHAUSTED"
    <2> DEFINE t == [r EXCEPT !.status = "ACTIVE", !.ver = @ + 1]
    <2>1. t \in Rows
        <3>1. r.ver + 1 \in Nat /\ "ACTIVE" \in Statuses
            BY DEF Rows, Statuses
        <3> QED
            BY <3>1 DEF Rows
    <2>2. /\ t.status = "ACTIVE" /\ t.ver > r.ver /\ t.over = r.over /\ t.used = r.used
          /\ t.extra = r.extra /\ t.limit = r.limit /\ t.last = r.last /\ t.epoch = r.epoch
        BY DEF Rows
    <2>3. Reactivated(r) = t
        BY <1>1 DEF Reactivated
    <2> HIDE DEF t
    <2> QED
        BY <2>1, <2>2, <2>3 DEF Follows, Sound
<1>2. CASE r.status # "EXHAUSTED"
    BY <1>2 DEF Reactivated, Follows, Sound
<1> QED
    BY <1>1, <1>2

\* The flag of the warning is no part of what makes a row sound.
LEMMA RearmedFollows ==
    ASSUME NEW r, NEW t, Follows(r, t)
    PROVE  Follows(r, Rearmed(t))
<1> DEFINE u == [t EXCEPT !.warned = FALSE]
<1>1. t \in Rows
    BY DEF Follows, Sound
<1>2. u \in Rows
    BY <1>1 DEF Rows
<1>3. /\ u.over = t.over /\ u.used = t.used /\ u.status = t.status /\ u.ver = t.ver
      /\ u.extra = t.extra /\ u.limit = t.limit /\ u.last = t.last /\ u.epoch = t.epoch
      /\ u.base = t.base
    BY <1>1 DEF Rows
<1>4. Rearmed(t) \in {t, u}
    BY DEF Rearmed
<1> HIDE DEF u
<1>5. Follows(r, u)
    BY <1>2, <1>3 DEF Follows, Sound, Serving, Available, Charged, Quota
<1> QED
    BY <1>4, <1>5

\* An operation that ends with a new cycle: usage cleared, ACTIVE, a new version.
LEMMA NewCycleFollows ==
    ASSUME NEW r \in Rows, NEW trial \in BOOLEAN, NEW base \in Nat, NEW extra \in Nat,
           extra <= r.limit * Cap
    PROVE  Follows(r, [Zeroed(r) EXCEPT !.trial = trial, !.base = base, !.extra = extra,
                                        !.status = "ACTIVE", !.ver = @ + 1])
<1> DEFINE t == [Zeroed(r) EXCEPT !.trial = trial, !.base = base, !.extra = extra,
                                  !.status = "ACTIVE", !.ver = @ + 1]
<1>1. r.ver + 1 \in Nat /\ "ACTIVE" \in Statuses
    BY DEF Rows, Statuses
<1>2. t \in Rows
    BY <1>1 DEF Rows, Zeroed
<1>3. /\ t.over = 0 /\ t.used = 0 /\ t.status = "ACTIVE" /\ t.ver > r.ver
      /\ t.extra = extra /\ t.limit = r.limit /\ t.last = r.last /\ t.epoch = r.epoch
    BY DEF Rows, Zeroed
<1> HIDE DEF t
<1>4. Sound(t)
    BY <1>2, <1>3 DEF Sound
<1> QED
    BY <1>3, <1>4 DEF Follows, t

\* An edit of quota and limit changes nothing that an operation has to publish.
LEMMA EditedFollows ==
    ASSUME NEW r \in Rows, NEW t \in Rows, NEW u, Follows(t, u),
           t.status = r.status, t.ver = r.ver, t.last = r.last, t.epoch = r.epoch
    PROVE  Follows(r, u)
BY DEF Follows, Serving

-----------------------------------------------------------------------------
\* topup_quota_atomic and add_device_slot_atomic.
LEMMA SalesFollow ==
    ASSUME TypeOK, Sound(row), NEW pack \in Packs, TopUp(pack) \/ AddDeviceSlot(pack)
    PROVE  Follows(row, row')
<1> USE QuotaConstants
<1>1. row \in Rows /\ row.over <= row.used /\ pack \in Nat /\ row.limit \in 1..MaxDevices
    BY DEF TypeOK, Rows
<1>2. CASE TopUp(pack)
    <2> DEFINE t == [row EXCEPT !.extra = @ + pack]
    <2>1. t \in Rows
        BY <1>1 DEF Rows
    <2>2. /\ t.over <= t.used /\ t.extra = row.extra + pack /\ t.limit = row.limit
          /\ t.status = row.status /\ t.ver = row.ver /\ t.last = row.last
          /\ t.epoch = row.epoch
        BY <1>1 DEF Rows
    <2>3. t.extra <= t.limit * Cap /\ row' = Rearmed(Reactivated(t))
        BY <1>2, <2>2 DEF TopUp, FitsCap
    <2> HIDE DEF t
    <2>4. Follows(t, Reactivated(t))
        BY <2>1, <2>2, <2>3, ReactivatedFollows
    <2>5. Follows(row, Reactivated(t))
        BY <1>1, <2>1, <2>2, <2>4, EditedFollows
    <2> QED
        BY <2>3, <2>5, RearmedFollows
<1>3. CASE AddDeviceSlot(pack)
    <2> DEFINE t == [row EXCEPT !.limit = @ + 1, !.extra = @ + pack]
    <2>1. row.limit + 1 \in 1..MaxDevices
        BY <1>1, <1>3 DEF AddDeviceSlot
    <2>2. t \in Rows
        <3>1. row.extra + pack \in Nat
            BY <1>1 DEF Rows
        <3> QED
            BY <1>1, <2>1, <3>1 DEF Rows
    <2>3. /\ t.over <= t.used /\ t.extra = row.extra + pack /\ t.limit = row.limit + 1
          /\ t.status = row.status /\ t.ver = row.ver /\ t.last = row.last
          /\ t.epoch = row.epoch
        BY <1>1 DEF Rows
    <2>4. t.extra <= t.limit * Cap /\ row' = Reactivated(t)
        BY <1>3, <2>3 DEF AddDeviceSlot, FitsCap
    <2> HIDE DEF t
    <2>5. Follows(t, Reactivated(t))
        BY <2>2, <2>3, <2>4, ReactivatedFollows
    <2> QED
        BY <1>1, <2>2, <2>3, <2>4, <2>5, EditedFollows
<1> QED
    BY <1>2, <1>3

\* renew_subscription_atomic, convert_trial_to_paid, extend_subscription_atomic.
LEMMA NewPeriodsFollow ==
    ASSUME TypeOK, Sound(row), RenewSubscription \/ ConvertTrialToPaid \/ AdminExtend
    PROVE  Follows(row, row')
<1> USE QuotaConstants
<1>1. /\ row \in Rows /\ row.over <= row.used /\ row.trial \in BOOLEAN
      /\ row.limit \in Nat /\ row.base \in Nat /\ row.extra \in Nat
    BY DEF TypeOK, Rows
<1>2. row.limit * Cap \in Nat /\ row.limit * Base \in Nat /\ Available(row) \in Nat
    BY <1>1, CapGrows, TariffIsNat, ChargedIs
<1> DEFINE cycle(trial, base, extra) ==
        [Zeroed(row) EXCEPT !.trial = trial, !.base = base, !.extra = extra,
                            !.status = "ACTIVE", !.ver = @ + 1]
<1>c. ASSUME NEW trial \in BOOLEAN, NEW base \in Nat, NEW extra \in Nat,
             extra <= row.limit * Cap
      PROVE  Follows(row, cycle(trial, base, extra))
    BY <1>1, <1>c, NewCycleFollows
<1>3. CASE RenewSubscription
    <2> DEFINE extra == IF clock = "late" THEN 0
                  ELSE Smaller(Smaller(row.extra, Available(row)), row.limit * Cap)
    <2>1. extra \in Nat /\ extra <= row.limit * Cap
        BY <1>1, <1>2 DEF Smaller
    <2>2. row' = cycle(row.trial, row.limit * Base, extra)
        BY <1>1, <1>3 DEF RenewSubscription, Renewed, Zeroed, Rows
    <2> HIDE DEF extra, cycle
    <2> QED
        BY <1>1, <1>2, <1>c, <2>1, <2>2
<1>4. CASE ConvertTrialToPaid
    <2>1. row' = cycle(FALSE, row.limit * Base, 0)
        BY <1>4 DEF ConvertTrialToPaid
    <2>2. Follows(row, cycle(FALSE, row.limit * Base, 0))
        <3> HIDE DEF cycle
        <3>1. 0 \in Nat /\ 0 <= row.limit * Cap
            BY <1>2
        <3> QED
            BY <1>2, <1>c, <3>1, Zenon
    <2> QED
        BY <2>1, <2>2, Zenon
<1>5. CASE AdminExtend
    <2>1. CASE row' = [row EXCEPT !.ver = @ + 1]
        <3>1. row' \in Rows
            BY <1>1, <2>1 DEF Rows
        <3>2. /\ row'.over = row.over /\ row'.used = row.used /\ row'.status = row.status
              /\ row'.base = row.base /\ row'.extra = row.extra /\ row'.limit = row.limit
              /\ row'.last = row.last /\ row'.epoch = row.epoch
            BY <1>1, <2>1 DEF Rows
        <3> QED
            BY <3>1, <3>2 DEF Follows, Sound, Serving, Available, Charged, Quota
    <2>2. CASE row' = [Zeroed(row) EXCEPT !.extra = 0, !.status = "ACTIVE", !.ver = @ + 1]
        <3>1. row' = cycle(row.trial, row.base, 0)
            BY <1>1, <2>2 DEF Zeroed, Rows
        <3> HIDE DEF cycle
        <3> QED
            BY <1>1, <1>2, <1>c, <3>1
    <2> QED
        BY <1>5, <2>1, <2>2 DEF AdminExtend
<1> QED
    BY <1>3, <1>4, <1>5

\* _unblock of a row: EXHAUSTED ends if something is left, else nothing is.
LEMMA UnblockedFollows ==
    ASSUME NEW r \in Rows, r.over <= r.used, r.extra <= r.limit * Cap
    PROVE  Follows(r, Unblocked(r))
<1>1. Quota(r) \in Nat /\ Charged(r) \in Nat
    BY ChargedIs DEF Quota, Rows
<1>2. CASE Quota(r) > Charged(r)
    BY <1>2, ReactivatedFollows DEF Unblocked
<1>3. CASE ~(Quota(r) > Charged(r))
    <2>1. Available(r) = 0
        BY <1>1, <1>3 DEF Available, Larger
    <2> QED
        BY <1>3, <2>1 DEF Unblocked, Follows, Sound
<1> QED
    BY <1>2, <1>3

\* add_extra_traffic_atomic and set_base_traffic_quota_atomic.
LEMMA GrantsFollow ==
    ASSUME TypeOK, Sound(row), NEW bytes \in Packs,
           AdminTrafficAdd(bytes) \/ AdminQuotaSet(bytes)
    PROVE  Follows(row, row')
<1>1. row \in Rows /\ row.over <= row.used /\ bytes \in Nat
    BY QuotaConstants DEF TypeOK
<1>2. PICK t \in {[row EXCEPT !.extra = @ + bytes], [row EXCEPT !.base = bytes]} :
          row' = Rearmed(Unblocked(t)) /\ t.extra <= row.limit * Cap
    <2>1. CASE AdminTrafficAdd(bytes)
        BY <1>1, <2>1 DEF AdminTrafficAdd, FitsCap, Rows
    <2>2. CASE AdminQuotaSet(bytes)
        BY <1>1, <2>2 DEF AdminQuotaSet, Sound, Rows
    <2> QED
        BY <2>1, <2>2
<1>3. t \in Rows
    <2>1. row.extra + bytes \in Nat
        BY <1>1 DEF Rows
    <2> QED
        BY <1>1, <1>2, <2>1 DEF Rows
<1>4. /\ t.over <= t.used /\ t.limit = row.limit /\ t.status = row.status
      /\ t.ver = row.ver /\ t.last = row.last /\ t.epoch = row.epoch
    BY <1>1, <1>2 DEF Rows
<1>5. Follows(row, Unblocked(t))
    BY <1>1, <1>2, <1>3, <1>4, UnblockedFollows, EditedFollows
<1> QED
    BY <1>2, <1>5, RearmedFollows

\* reset_traffic_used_atomic and set_device_limit_atomic.
LEMMA CorrectionsFollow ==
    ASSUME TypeOK, Sound(row),
           AdminTrafficReset \/ \E limit \in 1..MaxDevices : AdminDeviceLimitSet(limit)
    PROVE  Follows(row, row')
<1> USE QuotaConstants
<1>1. row \in Rows /\ row.over <= row.used
    BY DEF TypeOK
<1>2. CASE AdminTrafficReset
    <2> DEFINE t == Zeroed(row)
    <2>1. t \in Rows
        BY <1>1 DEF Zeroed, Rows
    <2>2. /\ t.over = 0 /\ t.used = 0 /\ t.limit = row.limit /\ t.status = row.status
          /\ t.extra = row.extra /\ t.ver = row.ver /\ t.last = row.last
          /\ t.epoch = row.epoch
        BY <1>1 DEF Zeroed, Rows
    <2>3. row' = Reactivated(t)
        BY <1>2 DEF AdminTrafficReset
    <2> HIDE DEF t
    <2>4. Follows(t, Reactivated(t))
        BY <2>1, <2>2, ReactivatedFollows DEF Sound
    <2> QED
        BY <1>1, <2>1, <2>2, <2>3, <2>4, EditedFollows
<1>3. ASSUME NEW limit \in 1..MaxDevices, AdminDeviceLimitSet(limit)
      PROVE  Follows(row, row')
    <2> DEFINE extra == Smaller(row.extra, limit * Cap)
    <2>1. row' = [row EXCEPT !.limit = limit, !.extra = extra]
        BY <1>1, <1>3 DEF AdminDeviceLimitSet, WithLimit, Rows
    <2>2. limit \in Nat /\ limit * Cap \in Nat
        BY CapGrows
    <2>3. extra \in Nat /\ extra <= limit * Cap /\ extra <= row.extra
        BY <1>1, <2>2 DEF Smaller, Rows
    <2> HIDE DEF extra
    <2>4. row' \in Rows
        BY <1>1, <2>1, <2>3 DEF Rows
    <2>5. /\ row'.over = row.over /\ row'.used = row.used /\ row'.limit = limit
          /\ row'.status = row.status /\ row'.extra = extra /\ row'.base = row.base
          /\ row'.ver = row.ver /\ row'.last = row.last /\ row'.epoch = row.epoch
        BY <1>1, <2>1 DEF Rows
    <2>6. Available(row) = 0 => Available(row') = 0
        <3>1. Charged(row') = Charged(row)
            BY <2>5 DEF Charged
        <3>2. Quota(row') <= Quota(row) /\ Quota(row') \in Nat /\ Quota(row) \in Nat
            BY <1>1, <2>3, <2>5 DEF Quota, Rows
        <3>3. Charged(row) \in Nat
            BY <1>1, ChargedIs
        <3> QED
            BY <3>1, <3>2, <3>3 DEF Available, Larger
    <2> QED
        BY <1>1, <2>3, <2>4, <2>5, <2>6 DEF Sound, Follows, Serving
<1> QED
    BY <1>2, <1>3

\* A ban, and the changes that time brings.
LEMMA EndsFollow ==
    ASSUME TypeOK, Sound(row), Deactivated \/ Expire \/ Activate
    PROVE  Follows(row, row')
<1>1. row \in Rows /\ row.ver \in Nat
    BY DEF TypeOK, Rows
<1>2. PICK s \in {"DISABLED", "EXPIRED", "ACTIVE"} :
          \/ row' = [row EXCEPT !.status = s, !.ver = @ + 1]
          \/ s = "ACTIVE" /\ row.status = "PENDING" /\ row' = [row EXCEPT !.status = s]
    BY DEF Deactivated, Expire, Activate
<1>3. row' \in Rows
    <2>1. s \in Statuses /\ row.ver + 1 \in Nat
        BY <1>1 DEF Statuses
    <2> QED
        BY <1>1, <1>2, <2>1 DEF Rows
<1>4. /\ row'.over = row.over /\ row'.used = row.used /\ row'.limit = row.limit
      /\ row'.status = s /\ row'.extra = row.extra
      /\ row'.last = row.last /\ row'.epoch = row.epoch
      /\ row'.ver > row.ver \/ (row.status = "PENDING" /\ s = "ACTIVE")
    <2>1. CASE row' = [row EXCEPT !.status = s, !.ver = @ + 1]
        <3>1. row'.ver = row.ver + 1
            BY <1>1, <2>1 DEF Rows
        <3> QED
            BY <1>1, <2>1, <3>1 DEF Rows
    <2>2. CASE s = "ACTIVE" /\ row.status = "PENDING" /\ row' = [row EXCEPT !.status = s]
        BY <1>1, <2>2 DEF Rows
    <2> QED
        BY <1>2, <2>1, <2>2
<1>5. Sound(row')
    BY <1>2, <1>3, <1>4 DEF Sound
<1>6. Serving(row) # Serving(row') => row'.ver > row.ver
    BY <1>4 DEF Serving
<1> QED
    BY <1>4, <1>5, <1>6 DEF Follows

LEMMA OperationsFollow ==
    ASSUME TypeOK, Sound(row), Operations
    PROVE  Follows(row, row') /\ Keeps /\ clock' \in {"running", "over", "late"}
<1>1. Follows(row, row')
    BY SalesFollow, NewPeriodsFollow, GrantsFollow, CorrectionsFollow, EndsFollow
       DEF Operations, Corrects
<1>2. Keeps /\ (clock' = clock \/ clock' = "running")
    BY DEF Operations, Corrects, TopUp, AddDeviceSlot, AdminTrafficAdd, RenewSubscription,
           ConvertTrialToPaid, AdminExtend, AdminQuotaSet, AdminTrafficReset,
           AdminDeviceLimitSet, Deactivated, Expire, Activate
<1> QED
    BY <1>1, <1>2 DEF TypeOK

-----------------------------------------------------------------------------
\* Whoever changes the row without moving its baselines keeps what is metered.
LEMMA SameBaselines ==
    ASSUME QuotaInv, Follows(row, row'), Keeps, clock' \in {"running", "over", "late"}
    PROVE  QuotaInv'
<1> USE DEF QuotaInv, Keeps
<1>1. TypeOK' /\ Sound(row)'
    BY DEF TypeOK, Follows, Sound
<1>2. CounterIsServed'
    BY DEF CounterIsServed, Follows
<1>3. SnapshotIsServed'
    <2>1. Delta' = Delta
        BY DEF Delta, Baseline, Follows
    <2> QED
        BY <2>1 DEF SnapshotIsServed
<1> QED
    BY <1>1, <1>2, <1>3

\* The client downloads, the counter is reset, the node restarts.
LEMMA NodeStep ==
    ASSUME QuotaInv,
           (\E n \in Downloads : ClientDownloads(n)) \/ CounterResets \/ NodeRestarts
    PROVE  QuotaInv'
<1> USE QuotaConstants DEF QuotaInv
<1>1. /\ node \in [epoch : Nat, count : Nat] /\ total \in Nat /\ served \in Nat
      /\ row.last \in Nat /\ UNCHANGED <<row, clock, job, total>>
    BY DEF TypeOK, Rows, ClientDownloads, CounterResets, NodeRestarts
<1>2. CASE \E n \in Downloads : ClientDownloads(n)
    <2>1. PICK n \in Nat : /\ node' = [node EXCEPT !.count = @ + n]
                           /\ served' = served + n
        BY <1>2 DEF ClientDownloads
    <2>2. /\ node'.count = node.count + n /\ node'.epoch = node.epoch
          /\ node' \in [epoch : Nat, count : Nat]
        BY <1>1, <2>1
    <2> QED
        BY <1>1, <2>1, <2>2
           DEF TypeOK, Jobs, CounterIsServed, SnapshotIsServed, Delta, Baseline
<1>3. CASE CounterResets \/ NodeRestarts
    <2>1. node'.count = 0 /\ node' \in [epoch : Nat, count : Nat] /\ served' = served
        BY <1>1, <1>3 DEF CounterResets, NodeRestarts
    <2>2. job # Idle => job.count \in Nat /\ Delta \in Nat
        BY DeltaIsNat DEF TypeOK, Jobs, Delta
    <2>3. Delta' = Delta
        BY <1>1 DEF Delta, Baseline
    <2> QED
        BY <1>1, <2>1, <2>2, <2>3
           DEF TypeOK, CounterIsServed, SnapshotIsServed
<1> QED
    BY <1>2, <1>3

\* The traffic worker: what it meters was served and is metered once.
LEMMA WorkerStep == ASSUME QuotaInv, Worker PROVE QuotaInv'
<1> USE DEF QuotaInv
<1>1. /\ node \in [epoch : Nat, count : Nat] /\ total \in Nat /\ served \in Nat
      /\ row \in Rows /\ row.last \in Nat /\ UNCHANGED <<clock, node, served>>
    BY DEF TypeOK, Rows, Worker, Poll, ApplySnapshot, SendWarning, Crash
<1>2. CASE Poll
    <2>1. /\ job' \in Jobs /\ job'.epoch = node.epoch /\ job'.count = node.count
          /\ UNCHANGED <<row, total>>
        BY <1>1, <1>2 DEF Poll, Jobs
    <2>2. Delta' = node.count - Baseline(row, job')
        BY <2>1 DEF Delta, Baseline
    <2> QED
        BY <1>1, <2>1, <2>2
           DEF TypeOK, Sound, CounterIsServed, SnapshotIsServed, Baseline
<1>3. CASE Crash
    BY <1>1, <1>3 DEF Crash, TypeOK, CounterIsServed, SnapshotIsServed
<1>4. CASE SendWarning
    <2>1. Follows(row, row)
        BY DEF Follows, Sound
    <2>2. row' \in {row, [row EXCEPT !.warned = TRUE]}
        BY <1>4 DEF SendWarning
    <2>3. row' \in Rows
        BY <1>1, <2>2 DEF Rows
    <2>4. /\ row'.over = row.over /\ row'.used = row.used /\ row'.status = row.status
          /\ row'.extra = row.extra /\ row'.limit = row.limit /\ row'.last = row.last
          /\ row'.epoch = row.epoch /\ row'.base = row.base
        BY <1>1, <2>2 DEF Rows
    <2>5. Sound(row')
        BY <2>3, <2>4 DEF Sound, Available, Charged, Quota
    <2> QED
        BY <1>1, <1>4, <2>4, <2>5
           DEF SendWarning, TypeOK, Sound, CounterIsServed, SnapshotIsServed
<1>5. CASE ApplySnapshot
    <2>1. job # Idle /\ job \in Jobs /\ job.kind = "snapshot" /\ Delta \in Nat
        BY <1>1, <1>5, DeltaIsNat DEF ApplySnapshot, TypeOK, Delta
    <2>2. total' = total + Delta /\ row' = IF Delta > 0 THEN Recorded(row, job) ELSE row
        BY <1>5, <2>1 DEF ApplySnapshot, Delta, Larger
    <2>3. Sound(row')
        BY <2>1, <2>2, RecordedIsSound DEF Delta
    <2>4. job' = Idle \/ (job' \in Jobs /\ job'.kind = "warn")
        BY <1>5, <2>1, <2>3 DEF ApplySnapshot, Jobs, Sound, Rows
    <2>5. CounterIsServed'
        <3>1. /\ job.count \in Nat
              /\ \/ total' + node.count <= served
                 \/ /\ job.epoch = node.epoch /\ job.count <= node.count
                    /\ total' + (node.count - job.count) <= served
            BY <2>1, <2>2 DEF SnapshotIsServed, Jobs
        <3>2. CASE Delta > 0
            <4>1. row'.last = job.count /\ row'.epoch = job.epoch
                BY <2>1, <2>2, <3>2, RecordedIsSound DEF Delta
            <4> QED
                BY <1>1, <3>1, <4>1 DEF CounterIsServed
        <3>3. CASE Delta = 0
            <4>1. total' = total /\ row' = row
                BY <1>1, <2>2, <3>3
            <4> QED
                BY <1>1, <4>1 DEF CounterIsServed
        <3> QED
            BY <2>1, <3>2, <3>3
    <2> QED
        BY <1>1, <2>1, <2>2, <2>3, <2>4, <2>5 DEF TypeOK, Sound, SnapshotIsServed
<1> QED
    BY <1>2, <1>3, <1>4, <1>5 DEF Worker

LEMMA QuotaInitially == ASSUME Init PROVE QuotaInv
<1> USE QuotaConstants
<1>1. PICK trial \in BOOLEAN : row = NewRow(trial)
    BY DEF Init
<1>2. row \in Rows
    BY <1>1 DEF NewRow, Rows, Statuses
<1>3. /\ row.limit = 1 /\ row.extra = 0 /\ row.over = 0 /\ row.used = 0
      /\ row.status = "PENDING" /\ row.last = 0
    BY <1>1 DEF NewRow
<1>4. Sound(row)
    BY <1>2, <1>3, CapGrows DEF Sound
<1> QED
    BY <1>2, <1>3, <1>4
       DEF Init, QuotaInv, TypeOK, CounterIsServed, SnapshotIsServed

LEMMA QuotaStep == ASSUME QuotaInv, [Next]_vars PROVE QuotaInv'
<1>1. CASE Operations
    BY <1>1, OperationsFollow, SameBaselines DEF QuotaInv
<1>2. CASE TimePasses
    <2>1. Follows(row, row')
        BY <1>2 DEF TimePasses, QuotaInv, Follows, Sound
    <2> QED
        BY <1>2, <2>1, SameBaselines DEF TimePasses
<1>3. CASE UNCHANGED vars
    BY <1>3 DEF vars, QuotaInv, TypeOK, Sound, CounterIsServed, SnapshotIsServed,
                Delta, Baseline, Available, Charged, Quota
<1> QED
    BY <1>1, <1>2, <1>3, NodeStep, WorkerStep DEF Next

\* No byte is metered twice, whatever restarts, resets, renewals and corrections
\* come between the polls; a blocked subscription has nothing left; the extra
\* quota is under its cap (record_and_deduct_traffic_atomic and the operations).
THEOREM QuotaIsExact == Spec => []QuotaExact
<1>1. Init => QuotaInv
    BY QuotaInitially
<1>2. QuotaInv /\ [Next]_vars => QuotaInv'
    BY QuotaStep
<1>3. QuotaInv => QuotaExact
    <2> SUFFICES ASSUME QuotaInv PROVE QuotaExact
        OBVIOUS
    <2>1. TypeOK /\ BlockedHasNothing /\ ExtraWithinCap
        BY DEF QuotaInv, Sound, BlockedHasNothing, ExtraWithinCap
    <2>2. MeteredOnce
        BY DEF QuotaInv, TypeOK, Rows, CounterIsServed, MeteredOnce
    <2> QED
        BY <2>1, <2>2 DEF QuotaExact
<1> QED
    BY <1>1, <1>2, <1>3, PTL DEF Spec

-----------------------------------------------------------------------------
\* What the worker does with the row: it adds the delta and blocks, or only
\* notes that the user was warned.
LEMMA RecordedPublishes ==
    ASSUME NEW r, Sound(r), NEW s \in Jobs
    PROVE  Serving(r) # Serving(Recorded(r, s)) => Recorded(r, s).ver > r.ver
<1>1. r \in Rows /\ r.ver \in Nat
    BY DEF Sound, Rows
<1>2. \/ Recorded(r, s).status = r.status
      \/ Recorded(r, s).ver = r.ver + 1
    BY <1>1 DEF Recorded, Rows
<1> QED
    BY <1>1, <1>2 DEF Serving

\* Whoever starts or stops the service of a row gives it a new version, which
\* is what the reconciliation compares (desired_state_version).
THEOREM ServingPublished == Spec => ServingIsPublished
<1>1. QuotaInv /\ [Next]_vars => [Serving(row) # Serving(row') => row'.ver > row.ver]_vars
    <2> SUFFICES ASSUME QuotaInv, Next
                 PROVE  Serving(row) # Serving(row') => row'.ver > row.ver
        OBVIOUS
    <2>1. CASE Operations
        BY <2>1, OperationsFollow DEF QuotaInv, Follows
    <2>2. CASE ApplySnapshot
        <3>1. row' \in {row, Recorded(row, job)} /\ job \in Jobs
            BY <2>2 DEF ApplySnapshot, QuotaInv, TypeOK
        <3> QED
            BY <3>1, RecordedPublishes DEF QuotaInv
    <2>3. CASE SendWarning
        <3>1. row' \in {row, [row EXCEPT !.warned = TRUE]} /\ row \in Rows
            BY <2>3 DEF SendWarning, QuotaInv, TypeOK
        <3> QED
            BY <3>1 DEF Serving, Rows
    <2>4. CASE row' = row
        BY <2>4
    <2> QED
        BY <2>1, <2>2, <2>3, <2>4 DEF Next, Worker, ClientDownloads, CounterResets,
           NodeRestarts, TimePasses, Poll, Crash
<1>2. Spec => []QuotaInv
    BY QuotaInitially, QuotaStep, PTL DEF Spec
<1> QED
    BY <1>1, <1>2, PTL DEF Spec, ServingIsPublished

-----------------------------------------------------------------------------
\* The pots of a row, from what it is charged.
LEMMA PotsAre ==
    ASSUME QuotaInv
    PROVE  /\ row.base \in Nat /\ row.extra \in Nat /\ Charged(row) \in Nat
           /\ TariffPot \in Nat /\ BoughtPot \in Nat
           /\ TariffPot = Larger(0, row.base - Charged(row))
           /\ BoughtPot = Smaller(row.extra, Larger(0, row.base + row.extra - Charged(row)))
<1>1. row \in Rows /\ row.over <= row.used
    BY DEF QuotaInv, TypeOK
<1> QED
    BY <1>1, ChargedIs DEF TariffPot, BoughtPot, Available, Quota, Larger, Smaller, Rows

\* Metering charges the row no more than is available to it.
LEMMA RecordedCharges ==
    ASSUME NEW r, Sound(r), NEW s \in Jobs, s.count - Baseline(r, s) > 0
    PROVE  /\ Recorded(r, s).base = r.base /\ Recorded(r, s).extra = r.extra
           /\ Charged(Recorded(r, s)) - Charged(r) \in 0..Available(r)
<1> DEFINE delta == s.count - Baseline(r, s)
           overage == IF r.status \in {"DISABLED", "EXPIRED"} THEN delta
                      ELSE Larger(0, delta - Available(r))
           t == Recorded(r, s)
<1>1. r \in Rows /\ r.over <= r.used /\ r.used \in Nat /\ r.over \in Nat
    BY DEF Sound, Rows
<1>2. /\ t.used = r.used + delta /\ t.over = r.over + overage
      /\ t.base = r.base /\ t.extra = r.extra
    BY <1>1 DEF Recorded, Rows
<1>3. delta \in Nat /\ Available(r) \in Nat /\ Charged(r) = r.used - r.over
    BY <1>1, DeltaIsNat, ChargedIs
<1>4. overage \in 0..delta /\ delta - overage \in 0..Available(r)
    BY <1>3 DEF Larger
<1> HIDE DEF delta, overage
<1>5. Charged(t) = Larger(0, (r.used + delta) - (r.over + overage))
    BY <1>2 DEF Charged
<1>6. Charged(t) - Charged(r) = delta - overage
    BY <1>1, <1>3, <1>4, <1>5 DEF Larger
<1> QED
    BY <1>2, <1>4, <1>6

\* So traffic takes from the bought pot what the tariff's no longer holds.
LEMMA MeteringUses ==
    ASSUME QuotaInv, QuotaInv', ApplySnapshot
    PROVE  Pots!Use \/ UNCHANGED <<TariffPot, BoughtPot>>
<1>1. CASE row' = row
    BY <1>1 DEF TariffPot, BoughtPot
<1>2. CASE row' # row
    <2>1. job \in Jobs /\ row' = Recorded(row, job) /\ job.count - Baseline(row, job) > 0
        BY <1>2 DEF ApplySnapshot, QuotaInv, TypeOK
    <2>2. /\ row'.base = row.base /\ row'.extra = row.extra
          /\ Charged(row') - Charged(row) \in 0..Available(row)
        BY <2>1, RecordedCharges DEF QuotaInv
    <2> DEFINE b == row.base  e == row.extra  c == Charged(row)  d == Charged(row')
    <2>3. /\ b \in Nat /\ e \in Nat /\ c \in Nat /\ d \in Nat /\ c <= d
          /\ d - c <= Larger(0, b + e - c)
        BY <2>2, PotsAre DEF Available, Quota, Charged, Larger, QuotaInv, TypeOK, Rows
    <2>4. /\ TariffPot = Larger(0, b - c) /\ TariffPot' = Larger(0, b - d)
          /\ BoughtPot = Smaller(e, Larger(0, b + e - c))
          /\ BoughtPot' = Smaller(e, Larger(0, b + e - d))
        BY <2>2, <2>3 DEF TariffPot, BoughtPot, Available, Quota, Larger, Smaller
    <2> HIDE DEF b, e, c, d
    <2>5. /\ TariffPot' \in 0..TariffPot /\ BoughtPot' \in 0..BoughtPot
          /\ BoughtPot' < BoughtPot => TariffPot' = 0
        BY <2>3, <2>4 DEF Larger, Smaller
    <2> QED
        BY <2>5 DEF Pots!Use
<1> QED
    BY <1>1, <1>2

\* topup_quota_atomic, add_device_slot_atomic, add_extra_traffic_atomic.
LEMMA SalesBuy ==
    ASSUME QuotaInv, NEW pack \in Packs,
           TopUp(pack) \/ AddDeviceSlot(pack) \/ AdminTrafficAdd(pack)
    PROVE  Pots!Buy
<1>1. row \in Rows /\ pack \in Nat
    BY QuotaConstants DEF QuotaInv, TypeOK
<1>2. /\ row'.base = row.base /\ row'.extra = row.extra + pack
      /\ row'.used = row.used /\ row'.over = row.over
    <2> DEFINE Amounts(t) == <<t.base, t.extra, t.used, t.over>>
    <2>1. ASSUME NEW t \in Rows
          PROVE  /\ Reactivated(t) \in Rows /\ Amounts(Reactivated(t)) = Amounts(t)
                 /\ Unblocked(t) \in Rows /\ Amounts(Unblocked(t)) = Amounts(t)
                 /\ Amounts(Rearmed(t)) = Amounts(t)
        <3>1. t.ver + 1 \in Nat /\ "ACTIVE" \in Statuses
            BY DEF Rows, Statuses
        <3>2. Reactivated(t) \in Rows /\ Amounts(Reactivated(t)) = Amounts(t)
            BY <3>1 DEF Rows, Reactivated
        <3> QED
            BY <3>2 DEF Rows, Unblocked, Rearmed
    <2>2. PICK t : /\ row' \in {Rearmed(Reactivated(t)), Reactivated(t), Rearmed(Unblocked(t))}
                   /\ \/ t = [row EXCEPT !.extra = @ + pack]
                      \/ /\ t = [row EXCEPT !.limit = @ + 1, !.extra = @ + pack]
                         /\ row.limit < MaxDevices
        BY DEF TopUp, AddDeviceSlot, AdminTrafficAdd
    <2>3. t \in Rows /\ Amounts(t) = <<row.base, row.extra + pack, row.used, row.over>>
        <3>1. row.extra + pack \in Nat /\ row.limit \in 1..MaxDevices
            BY <1>1 DEF Rows
        <3>2. CASE t = [row EXCEPT !.extra = @ + pack]
            BY <1>1, <3>1, <3>2 DEF Rows
        <3>3. CASE /\ t = [row EXCEPT !.limit = @ + 1, !.extra = @ + pack]
                   /\ row.limit < MaxDevices
            <4>1. row.limit + 1 \in 1..MaxDevices
                BY <3>1, <3>3, QuotaConstants
            <4> QED
                BY <1>1, <3>1, <3>3, <4>1 DEF Rows
        <3> QED
            BY <2>2, <3>2, <3>3
    <2>4. Amounts(row') = Amounts(t)
        <3> HIDE DEF Amounts
        <3> QED
            BY <2>1, <2>2, <2>3
    <2> QED
        BY <2>3, <2>4
<1> DEFINE b == row.base  e == row.extra  c == Charged(row)
<1>3. b \in Nat /\ e \in Nat /\ c \in Nat
    BY PotsAre
<1>4. /\ TariffPot = Larger(0, b - c) /\ TariffPot' = Larger(0, b - c)
      /\ BoughtPot = Smaller(e, Larger(0, b + e - c))
      /\ BoughtPot' = Smaller(e + pack, Larger(0, b + (e + pack) - c))
    <2>1. Charged(row') = c
        BY <1>2 DEF Charged
    <2> HIDE DEF c
    <2>2. TariffPot = Larger(0, b - c) /\ BoughtPot = Smaller(e, Larger(0, b + e - c))
        BY <1>3, PotsAre DEF c
    <2> QED
        BY <1>1, <1>2, <1>3, <2>1, <2>2
           DEF TariffPot, BoughtPot, Available, Quota, Larger, Smaller
<1> HIDE DEF b, e, c
<1> QED
    BY <1>1, <1>3, <1>4 DEF Pots!Buy, Larger, Smaller

\* renew_subscription_atomic, convert_trial_to_paid, extend_subscription_atomic.
LEMMA RenewalsRefill ==
    ASSUME QuotaInv, RenewSubscription \/ ConvertTrialToPaid \/ AdminExtend
    PROVE  Pots!NewPeriod \/ UNCHANGED <<TariffPot, BoughtPot>>
<1>1. /\ row \in Rows /\ row.limit \in Nat /\ row.extra <= row.limit * Cap
      /\ row.base \in Nat /\ row.extra \in Nat /\ Available(row) \in Nat
    BY ChargedIs DEF QuotaInv, TypeOK, Rows, Sound
<1>2. CASE row' = [row EXCEPT !.ver = @ + 1]
    <2>1. /\ row'.base = row.base /\ row'.extra = row.extra
          /\ row'.used = row.used /\ row'.over = row.over
        BY <1>1, <1>2 DEF Rows
    <2> QED
        BY <2>1 DEF TariffPot, BoughtPot, Available, Quota, Charged
<1>3. CASE row' # [row EXCEPT !.ver = @ + 1]
    <2>1. /\ row'.used = 0 /\ row'.over = 0 /\ row'.base \in Nat
          /\ row'.extra \in {0, BoughtPot} /\ row'.extra \in Nat
        <3>1. CASE RenewSubscription
            <4>1. row'.base = row.limit * Base /\ row.limit * Base \in Nat
                BY <1>1, <3>1, TariffIsNat DEF RenewSubscription, Renewed, Zeroed, Rows
            <4>2. row'.extra = IF clock = "late" THEN 0
                      ELSE Smaller(Smaller(row.extra, Available(row)), row.limit * Cap)
                BY <1>1, <3>1 DEF RenewSubscription, Renewed, Zeroed, Rows
            <4>3. row'.extra \in {0, BoughtPot}
                <5>1. row.limit * Cap \in Nat
                    BY <1>1, CapGrows
                <5> QED
                    BY <1>1, <4>2, <5>1 DEF BoughtPot, Smaller
            <4> QED
                BY <1>1, <3>1, <4>1, <4>3, PotsAre
                   DEF RenewSubscription, Renewed, Zeroed, Rows
        <3>2. CASE ConvertTrialToPaid
            BY <1>1, <3>2, TariffIsNat DEF ConvertTrialToPaid, Zeroed, Rows
        <3>3. CASE AdminExtend
            BY <1>1, <1>3, <3>3 DEF AdminExtend, Zeroed, Rows
        <3> QED
            BY <3>1, <3>2, <3>3
    <2>2. TariffPot' = row'.base /\ BoughtPot' = row'.extra
        BY <2>1 DEF TariffPot, BoughtPot, Available, Quota, Charged, Larger, Smaller
    <2> QED
        BY <2>1, <2>2 DEF Pots!NewPeriod
<1> QED
    BY <1>2, <1>3

\* Whatever administrators have corrected, every other step is one of the two pots
\* that the buyer is promised: traffic empties the tariff's first, a renewal fills it
\* and keeps what was bought (renew_subscription_atomic).
THEOREM PotsAreKept == Spec => KeepsThePots
<1>1. ASSUME Init PROVE Pots!PotsInit
    <2>1. QuotaInv
        BY <1>1, QuotaInitially
    <2>2. row.extra = 0
        BY <1>1 DEF Init, NewRow
    <2>3. /\ TariffPot \in Nat /\ row.base \in Nat /\ Charged(row) \in Nat
          /\ BoughtPot = Smaller(row.extra, Larger(0, row.base + row.extra - Charged(row)))
        BY <2>1, PotsAre
    <2>4. BoughtPot = 0
        BY <2>2, <2>3 DEF Smaller, Larger
    <2> QED
        BY <2>3, <2>4 DEF Pots!PotsInit
<1>2. ASSUME QuotaInv, QuotaInv', [Next]_vars, ~Corrects
      PROVE  [Pots!PotsNext]_<<TariffPot, BoughtPot>>
    <2> SUFFICES ASSUME ~UNCHANGED <<TariffPot, BoughtPot>> PROVE Pots!PotsNext
        OBVIOUS
    <2>1. row' # row
        BY DEF TariffPot, BoughtPot
    <2>2. row \in Rows
        BY <1>2 DEF QuotaInv, TypeOK
    <2>3. ~(Deactivated \/ Expire \/ Activate \/ SendWarning)
        <3> SUFFICES ASSUME Deactivated \/ Expire \/ Activate \/ SendWarning
                     PROVE  UNCHANGED <<TariffPot, BoughtPot>>
            OBVIOUS
        <3>1. /\ row'.base = row.base /\ row'.extra = row.extra
              /\ row'.used = row.used /\ row'.over = row.over
            BY <2>2 DEF Deactivated, Expire, Activate, SendWarning, Rows
        <3> QED
            BY <3>1 DEF TariffPot, BoughtPot, Available, Quota, Charged
    <2>4. CASE ApplySnapshot
        BY <1>2, <2>4, MeteringUses DEF Pots!PotsNext
    <2>5. CASE \E pack \in Packs : TopUp(pack) \/ AddDeviceSlot(pack) \/ AdminTrafficAdd(pack)
        BY <1>2, <2>5, SalesBuy DEF Pots!PotsNext
    <2>6. CASE RenewSubscription \/ ConvertTrialToPaid \/ AdminExtend
        BY <1>2, <2>6, RenewalsRefill DEF Pots!PotsNext
    <2>7. Next
        BY <1>2, <2>1 DEF vars
    <2> QED
        BY <1>2, <2>1, <2>3, <2>4, <2>5, <2>6, <2>7
           DEF Next, Worker, Operations, ClientDownloads, CounterResets, NodeRestarts,
               TimePasses, Poll, Crash
<1>3. Spec => []QuotaInv
    BY QuotaInitially, QuotaStep, PTL DEF Spec
<1> QED
    BY <1>1, <1>2, <1>3, PTL DEF Spec, KeepsThePots, Pots!PotsSpec, Pots!pots
=============================================================================
