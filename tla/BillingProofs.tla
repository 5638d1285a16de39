---------------------------- MODULE BillingProofs -----------------------------
(* Billing.  A setting that everybody reads through a cache: what was         *)
(* replaced outlives its replacement by its time to live at most, and a       *)
(* value that was rolled back is never served, for any values, writers and    *)
(* readers.  And a user's days: what is left is always paid for, for any      *)
(* tariffs, prices, orders, refunds and times.                                *)
EXTENDS Billing, FiniteSetTheorems, TLAPS

-----------------------------------------------------------------------------
\* v is the committed value, or was replaced when the clock showed t or later.
Since(v, t) == v = value \/ (until[v] \in Nat /\ t <= until[v])

\* The types that the argument needs.
Shape ==
    /\ value \in Values /\ now \in Nat
    /\ tx \in [Writers -> Values \cup {Idle}]
    /\ cache \in [val : Values \cup {Idle}, at : Nat]
    /\ reader \in [Readers -> {Idle} \cup [val : Values \cup {Idle}, at : Nat]]
    /\ until \in [Values -> Nat \cup {Idle}]

\* What is cached was committed at some time since the time it is dated by.
CacheInv == cache # Nothing => cache.val \in Values /\ Since(cache.val, cache.at)

\* So is what a reader has fetched and not stored yet.
ReaderInv ==
    \A r \in Readers : reader[r] # Idle =>
        /\ reader[r].at <= now
        /\ reader[r].val # Idle => Since(reader[r].val, reader[r].at)

\* Nothing is dated in the future, so what is replaced now is in date.
DatesInv == cache.at <= now

SettingInv == Shape /\ CacheInv /\ ReaderInv /\ DatesInv

-----------------------------------------------------------------------------
\* A commit replaces one value, which from then on counts as replaced now.
LEMMA SinceCommit ==
    ASSUME Shape, NEW w \in Writers, Commits(w),
           NEW v \in Values, NEW t \in Nat, t <= now, Since(v, t)
    PROVE  Since(v, t)'
BY ConstantsFit DEF Shape, Commits, Since

\* No other step changes the row, or when a value was replaced.
LEMMA SinceSame ==
    ASSUME NEW v, NEW t, Since(v, t), UNCHANGED <<value, until>>
    PROVE  Since(v, t)'
BY DEF Since

LEMMA SettingInit == ASSUME Init PROVE SettingInv
BY ConstantsFit DEF Init, SettingInv, Shape, CacheInv, ReaderInv, DatesInv, Nothing

\* get_system_setting: what is fetched is the committed value.
LEMMA ReadStep ==
    ASSUME SettingInv, NEW r \in Readers,
           Hit(r) \/ Misses(r) \/ Fetches(r) \/ Stores(r)
    PROVE  SettingInv'
<1> USE ConstantsFit DEF SettingInv
<1>1. CASE Hit(r)
    BY <1>1 DEF Hit, Shape, CacheInv, ReaderInv, DatesInv, Since, Nothing
<1>2. CASE Misses(r)
    <2>1. Shape' /\ CacheInv' /\ DatesInv'
        BY <1>2 DEF Misses, Shape, CacheInv, DatesInv, Since, Nothing
    <2>2. ReaderInv'  BY <1>2 DEF Misses, Shape, ReaderInv, Since
    <2> QED  BY <2>1, <2>2
<1>3. CASE Fetches(r)
    <2>1. reader[r] \in [val : Values \cup {Idle}, at : Nat]  BY <1>3 DEF Fetches, Shape
    <2>2. Shape' /\ CacheInv' /\ DatesInv'
        BY <1>3, <2>1 DEF Fetches, Shape, CacheInv, DatesInv, Since, Nothing
    <2>3. ReaderInv'  BY <1>3, <2>1 DEF Fetches, Shape, ReaderInv, Since
    <2> QED  BY <2>2, <2>3
<1>4. CASE Stores(r)
    <2>1. reader[r] \in [val : Values \cup {Idle}, at : Nat]  BY <1>4 DEF Stores, Shape
    <2>2. Shape' /\ DatesInv'
        BY <1>4, <2>1 DEF Stores, Entry, Shape, ReaderInv, DatesInv
    <2>3. CacheInv'
        BY <1>4, <2>1 DEF Stores, Entry, Shape, CacheInv, ReaderInv, Since
    <2>4. ReaderInv'  BY <1>4 DEF Stores, Shape, ReaderInv, Since
    <2> QED  BY <2>2, <2>3, <2>4
<1> QED  BY <1>1, <1>2, <1>3, <1>4

\* set_system_setting, whoever calls it: the cache is emptied.
LEMMA SetStep ==
    ASSUME SettingInv, NEW w \in Writers, NEW v \in Values, Sets(w, v)
    PROVE  SettingInv'
<1> USE ConstantsFit DEF SettingInv, Sets, Dropped
<1>1. Shape' /\ CacheInv' /\ DatesInv'  BY DEF Shape, CacheInv, DatesInv, Nothing
<1>2. ReaderInv'  BY DEF ReaderInv, Since
<1> QED  BY <1>1, <1>2

LEMMA WriteStep ==
    ASSUME SettingInv, NEW w \in Writers,
           \/ TypesStd(w) \/ TypesMtproto(w) \/ ToggleDevices(w) \/ ResetStd(w)
           \/ Commits(w) \/ RollsBack(w)
    PROVE  SettingInv'
<1>1. CASE \E v \in Values : Sets(w, v)  BY <1>1, SetStep
<1>2. CASE TypesStd(w) \/ TypesMtproto(w) \/ ToggleDevices(w) \/ ResetStd(w)
    BY <1>1, <1>2, ConstantsFit DEF TypesStd, TypesMtproto, ToggleDevices, ResetStd
<1>3. CASE Commits(w)
    <2> USE DEF SettingInv
    <2>1. Shape' /\ DatesInv'  BY <1>3, ConstantsFit DEF Commits, Shape, DatesInv
    <2>2. CacheInv'
        <3>1. cache' = cache /\ cache.at \in Nat /\ cache.at <= now
            BY <1>3 DEF Commits, Shape, DatesInv
        <3>2. CASE cache = Nothing  BY <3>1, <3>2 DEF CacheInv
        <3>3. CASE cache # Nothing
            <4>1. Since(cache.val, cache.at)'  BY <1>3, <3>1, <3>3, SinceCommit DEF CacheInv
            <4> QED  BY <3>1, <3>3, <4>1 DEF CacheInv, Since
        <3> QED  BY <3>2, <3>3
    <2>3. ReaderInv'
        <3> SUFFICES ASSUME NEW r \in Readers, reader'[r] # Idle
                     PROVE  /\ reader'[r].at <= now'
                            /\ reader'[r].val # Idle =>
                                 Since(reader[r].val, reader[r].at)'
            BY DEF ReaderInv, Since
        <3>1. /\ reader' = reader /\ now' = now
              /\ reader[r] \in [val : Values \cup {Idle}, at : Nat]
            BY <1>3 DEF Commits, Shape
        <3>2. reader[r].at <= now  BY <3>1 DEF ReaderInv
        <3>3. ASSUME reader[r].val # Idle PROVE Since(reader[r].val, reader[r].at)'
            <4>1. Since(reader[r].val, reader[r].at)  BY <3>1, <3>3 DEF ReaderInv
            <4>2. reader[r].val \in Values /\ reader[r].at \in Nat  BY <3>1, <3>3
            <4>3. ASSUME NEW v \in Values, NEW t \in Nat, t <= now, Since(v, t)
                  PROVE  v = value' \/ (until'[v] \in Nat /\ t <= until'[v])
                BY <1>3, <4>3, SinceCommit DEF Since
            <4> QED  BY <3>1, <3>2, <4>1, <4>2, <4>3 DEF Since
        <3> QED  BY <3>1, <3>2, <3>3
    <2> QED  BY <2>1, <2>2, <2>3
<1>4. CASE RollsBack(w)
    BY <1>4 DEF RollsBack, SettingInv, Shape, CacheInv, ReaderInv, DatesInv, Since
<1> QED  BY <1>2, <1>3, <1>4

\* SettingInv is inductive.
LEMMA SettingStep == ASSUME SettingInv, [Next]_vars PROVE SettingInv'
<1>1. CASE Next
    <2>1. CASE Tick
        BY <2>1 DEF Tick, SettingInv, Shape, CacheInv, ReaderInv, DatesInv, Since
    <2> QED  BY <1>1, <2>1, ReadStep, WriteStep DEF Next
<1>2. CASE UNCHANGED vars
    BY <1>2 DEF vars, SettingInv, Shape, CacheInv, ReaderInv, DatesInv, Since
<1> QED  BY <1>1, <1>2

-----------------------------------------------------------------------------
\* Cached values and what readers hold were committed since they were read
\* (get_system_setting dates an entry by the time before its read).
THEOREM SettingInvariant == Spec => []SettingInv
<1>1. Init => SettingInv  BY SettingInit
<1>2. SettingInv /\ [Next]_vars => SettingInv'  BY SettingStep
<1> QED  BY <1>1, <1>2, PTL DEF Spec

\* The cache never holds a value that was only flushed (set_system_setting
\* drops the entry, and readers fetch what is committed).
THEOREM CommittedOnly == Spec => []NeverUncommitted
<1>1. SettingInv => NeverUncommitted
    BY ConstantsFit DEF SettingInv, CacheInv, Since, NeverUncommitted
<1> QED  BY <1>1, SettingInvariant, PTL

\* What the cache serves was the committed value within the last TTL, however
\* long a reader was held up between its read and the store.
THEOREM StaleForTTL == Spec => StaleForTTLOnly
<1>1. ASSUME SettingInv, NEW r \in Readers, Hit(r)
      PROVE  hit' = value \/ now <= until[hit'] + TTL
    <2>1. cache # Nothing /\ now < cache.at + TTL /\ hit' = cache.val  BY <1>1 DEF Hit, Valid
    <2>2. Since(cache.val, cache.at)  BY <1>1, <2>1 DEF SettingInv, CacheInv
    <2> QED  BY <1>1, <2>1, <2>2, ConstantsFit DEF SettingInv, Shape, Since
<1>2. SettingInv =>
          [\A r \in Readers : Hit(r) => hit' = value \/ now <= until[hit'] + TTL]_vars
    BY <1>1
<1> QED  BY <1>2, SettingInvariant, PTL DEF StaleForTTLOnly

-----------------------------------------------------------------------------
\* Arithmetic of rounding and of rates.
LEMMA DivisionIs ==
    ASSUME NEW n \in Nat, NEW d \in Nat \ {0}
    PROVE  n \div d \in Nat /\ n % d \in 0..(d - 1) /\ n = d * (n \div d) + (n % d)
<1>1. n \div d \in Nat
  OBVIOUS
<1>2. n % d \in 0..(d - 1)
  OBVIOUS
<1>3. n % d = n - d * (n \div d)
  <2>1. \A a, b \in Int : b > 0 => a % b = a - b * (a \div b)
    OBVIOUS
  <2> QED BY <2>1
<1>4. d * (n \div d) \in Nat
  BY <1>1
<1> QED BY <1>1, <1>2, <1>3, <1>4

\* Rounding is to the nearest: it errs by half of the divisor at most.
LEMMA RoundIs ==
    ASSUME NEW n \in Nat, NEW d \in Nat \ {0}
    PROVE  /\ Access!Round(n, d) \in Nat
           /\ 2 * n <= 2 * (d * Access!Round(n, d)) + d
           /\ 2 * (d * Access!Round(n, d)) <= 2 * n + d
           /\ n >= d => Access!Round(n, d) >= 1
<1>1. PICK q \in Nat, r \in Nat : q = n \div d /\ r = n % d /\ r < d /\ n = d * q + r
  <2>1. n \div d \in Nat /\ n % d \in 0..(d - 1) /\ n = d * (n \div d) + (n % d)
    BY DivisionIs
  <2>2. PICK q, r : q = n \div d /\ r = n % d
    OBVIOUS
  <2> QED BY <2>1, <2>2
<1>2. d * (q + 1) = d * q + d /\ d * q \in Nat
  BY <1>1
<1>3. n >= d => q >= 1
  BY <1>1
<1>4. Access!Round(n, d) \in {q, q + 1}
  BY <1>1 DEF Access!Round
<1>5. CASE Access!Round(n, d) = q
  <2>1. 2 * r <= d
    BY <1>1, <1>5 DEF Access!Round
  <2> QED BY <1>1, <1>2, <1>3, <1>5, <2>1
<1>6. CASE Access!Round(n, d) = q + 1
  <2>1. 2 * r >= d
    <3>1. CASE 2 * r > d
      BY <1>1, <3>1
    <3>2. CASE 2 * r = d
      BY <1>1, <3>2
    <3>3. CASE 2 * r < d
      BY <1>1, <1>6, <3>3 DEF Access!Round
    <3> QED BY <1>1, <3>1, <3>2, <3>3
  <2>2. d * Access!Round(n, d) = d * q + d
    BY <1>2, <1>6
  <2> QED BY <1>1, <1>2, <1>3, <1>6, <2>1, <2>2
<1> QED BY <1>4, <1>5, <1>6

\* What is less for every day of d is less a day.
LEMMA Cancel ==
    ASSUME NEW a \in Int, NEW b \in Int, NEW d \in Nat \ {0}, d * a <= d * b
    PROVE  a <= b
<1>1. SUFFICES ASSUME a >= b + 1 PROVE FALSE
  OBVIOUS
<1>2. PICK k \in Nat : a = b + 1 + k
  BY <1>1
<1>3. d * a = d * b + d + d * k /\ d * k \in Nat
  BY <1>2
<1> QED BY <1>3

LEMMA Scales ==
    ASSUME NEW a \in Int, NEW b \in Int, NEW d \in Nat, a <= b
    PROVE  d * a <= d * b
<1>1. PICK k \in Nat : b = a + k
  <2>1. b - a \in Nat /\ b = a + (b - a)
    OBVIOUS
  <2> QED BY <2>1
<1>2. d * b = d * a + d * k /\ d * k \in Nat
  BY <1>1
<1> QED BY <1>2

-----------------------------------------------------------------------------
\* Sums over orders are counted as pairs of an order and a ruble, because the
\* provers have no induction over a set.
Amount(f, o) == f[o].terms.due + f[o].terms.discount
Coins(f, S) == {c \in Orders \X Nat : c[1] \in S /\ c[2] < Amount(f, c[1])}
Sum(f, S) == Cardinality(Coins(f, S))

LEMMA NothingSums ==
    ASSUME NEW f PROVE Coins(f, {}) = {} /\ IsFiniteSet(Coins(f, {})) /\ Sum(f, {}) = 0
<1>1. Coins(f, {}) = {}  BY DEF Coins
<1> QED BY <1>1, FS_EmptySet DEF Sum

LEMMA SameSum ==
    ASSUME NEW f, NEW g, NEW S, \A o \in S : Amount(f, o) = Amount(g, o)
    PROVE  Coins(f, S) = Coins(g, S)
  BY DEF Coins

LEMMA SumLess ==
    ASSUME NEW f, NEW S, NEW T \in SUBSET S, IsFiniteSet(Coins(f, S))
    PROVE  IsFiniteSet(Coins(f, T)) /\ Sum(f, T) \in Nat /\ Sum(f, S) \in Nat /\ Sum(f, T) <= Sum(f, S)
<1>1. Coins(f, T) \subseteq Coins(f, S)  BY DEF Coins
<1> QED BY <1>1, FS_Subset, FS_CardinalityType DEF Sum

LEMMA SumAdds ==
    ASSUME NEW f, NEW S, NEW o \in Orders, o \notin S, IsFiniteSet(Coins(f, S)), Amount(f, o) \in Nat
    PROVE  IsFiniteSet(Coins(f, S \cup {o})) /\ Sum(f, S \cup {o}) = Sum(f, S) + Amount(f, o)
<1> DEFINE C == {o} \X (0..(Amount(f, o) - 1))
<1>1. Coins(f, S \cup {o}) = Coins(f, S) \cup C
  <2>1. ASSUME NEW c \in C PROVE c \in Coins(f, S \cup {o})
    BY <2>1 DEF Coins
  <2>2. ASSUME NEW c \in Coins(f, S \cup {o}) PROVE c \in Coins(f, S) \cup C
    <3>1. PICK p \in Orders, k \in Nat : c = <<p, k>> /\ p \in S \cup {o} /\ k < Amount(f, p)
      BY <2>2 DEF Coins
    <3>2. CASE p \in S
      BY <3>1, <3>2 DEF Coins
    <3>3. CASE p = o
      BY <3>1, <3>3
    <3> QED BY <3>1, <3>2, <3>3
  <2>3. Coins(f, S) \subseteq Coins(f, S \cup {o})
    BY DEF Coins
  <2> QED BY <2>1, <2>2, <2>3
<1>2. Coins(f, S) \cap C = {}
  BY DEF Coins
<1>3. IsFiniteSet(C) /\ Cardinality(C) = Amount(f, o)
  <2>1. PICK T, a : T = 0..(a - 1) /\ a = Amount(f, o)
    OBVIOUS
  <2>2. IsFiniteSet(T) /\ Cardinality(T) = a
    <3>1. \A x, y \in Int : IsFiniteSet(x..y) /\ Cardinality(x..y) = IF x > y THEN 0 ELSE y - x + 1
      BY FS_Interval
    <3>2. PICK b \in Int : b = a - 1
      BY <2>1
    <3>3. IsFiniteSet(0..b) /\ Cardinality(0..b) = IF 0 > b THEN 0 ELSE b - 0 + 1
      BY <3>1
    <3>4. (IF 0 > b THEN 0 ELSE b - 0 + 1) = a
      BY <2>1, <3>2
    <3> QED BY <2>1, <3>2, <3>3, <3>4
  <2>3. IsFiniteSet({o}) /\ Cardinality({o}) = 1
    BY FS_Singleton
  <2>4. IsFiniteSet({o} \X T) /\ Cardinality({o} \X T) = 1 * a
    BY <2>2, <2>3, FS_Product
  <2> QED BY <2>1, <2>4
<1>4. /\ IsFiniteSet(Coins(f, S) \cup C)
      /\ Cardinality(Coins(f, S) \cup C) = Cardinality(Coins(f, S)) + Cardinality(C) - Cardinality(Coins(f, S) \cap C)
  BY <1>3, FS_Union
<1>5. Cardinality(Coins(f, S) \cap C) = 0 /\ Cardinality(Coins(f, S)) \in Nat
  BY <1>2, FS_EmptySet, FS_CardinalityType
<1> HIDE DEF C
<1>6. Cardinality(Coins(f, S) \cup C) = Cardinality(Coins(f, S)) + Amount(f, o)
  BY <1>3, <1>4, <1>5
<1> QED BY <1>1, <1>4, <1>6 DEF Sum

-----------------------------------------------------------------------------
Tariff == Tariffs \cup {NoTariff}
TermSet == [tariff : Tariff, due : Nat, discount : Nat, days : Nat, change : BOOLEAN]
OrderSet == [st : {"none", "pending", "paid", "refunded"}, terms : TermSet, end : Nat,
             tariff : Tariff, over : BOOLEAN]

\* What is not a change sells the tariff at its price.
TermsFit(x) ==
    /\ x \in TermSet /\ x.tariff \in Tariffs
    /\ ~x.change => x.days = Days[x.tariff] /\ x.due + x.discount = Price[x.tariff]
    /\ x.discount > 0 => x.due > 0

\* Orders that are paid; of these, those that are under no change; of these,
\* those that bought another tariff.
Settled(f) == {o \in Orders : f[o].st = "paid"}
Open(f) == {o \in Settled(f) : ~f[o].over}
Foreign(f, t) == {o \in Open(f) : f[o].terms.tariff # t}
Discounted(f) == {o \in Orders : f[o].st = "paid" /\ f[o].terms.discount > 0}

DaysShape ==
    /\ day \in 0..MaxDay /\ end \in Nat /\ tariff \in Tariff /\ order \in [Orders -> OrderSet]
    /\ wallet \in [all : Nat, bought : Nat, discounted : Nat]
    /\ wallet.discounted <= wallet.bought /\ wallet.bought <= wallet.all
    /\ paid \in Nat /\ rounded \in Nat /\ misfit \in BOOLEAN
    /\ tariff = NoTariff => end = 0 /\ Settled(order) = {}
    /\ \A o \in Orders : order[o].st # "none" => TermsFit(order[o].terms)

\* All that is paid was paid for orders, or from the wallet.
SumInv == IsFiniteSet(Coins(order, Settled(order))) /\ Sum(order, Settled(order)) <= paid

\* K rubles paid buy n ticks at a rate.
Worth(n, t, p, r) == 2 * (n * Access!Rate(t)) <= 2 * ((Day * Scale) * p) + r

\* The days that are left are worth no more than was paid beyond the open orders
\* of other tariffs, which are used up; and so are the days that the refund of
\* a change would give back, beyond all open orders.
WorthInv ==
    ~misfit =>
      /\ end > day => Worth(end - day, tariff, paid - Sum(order, Foreign(order, tariff)), rounded)
      /\ \A o \in Open(order) : order[o].terms.change =>
            /\ order[o].tariff \in Tariffs
            /\ order[o].end > day =>
                 Worth(order[o].end - day, order[o].tariff, paid - Sum(order, Open(order)), rounded)

OnceInv ==
    ~misfit => /\ IsFiniteSet(Discounted(order))
               /\ Cardinality(Discounted(order)) + wallet.discounted <= 1

DaysInv == DaysShape /\ SumInv /\ WorthInv /\ OnceInv

-----------------------------------------------------------------------------
LEMMA RateIs ==
    ASSUME Access!ConstantsFit, NEW t \in Tariffs
    PROVE  /\ Price[t] \in Nat \ {0} /\ Days[t] \in Nat \ {0} /\ Access!Rate(t) \in Nat
           /\ Days[t] * Access!Rate(t) = Price[t] * Scale
<1>1. Price[t] \in Nat \ {0} /\ Days[t] \in Nat \ {0} /\ Scale \in Nat \ {0} /\ (Price[t] * Scale) % Days[t] = 0
  BY DEF Access!ConstantsFit
<1>2. PICK n \in Nat, d \in Nat \ {0} : n = Price[t] * Scale /\ d = Days[t] /\ n % d = 0
  <2>1. Price[t] * Scale \in Nat
    BY <1>1
  <2> QED BY <1>1, <2>1
<1>3. n \div d \in Nat /\ n = d * (n \div d)
  <2>1. n \div d \in Nat /\ n = d * (n \div d) + (n % d)
    BY DivisionIs
  <2>2. PICK q \in Nat : q = n \div d
    BY <2>1
  <2>3. n = d * q + 0 /\ d * q \in Nat
    BY <1>2, <2>1, <2>2
  <2> QED BY <2>2, <2>3
<1> QED BY <1>1, <1>2, <1>3 DEF Access!Rate

LEMMA LeftIs ==
    ASSUME Access!ConstantsFit, DaysShape
    PROVE  /\ Access!Left \in Nat /\ Access!DaysLeft \in Nat /\ Access!Left <= Day * Access!DaysLeft
           /\ Access!Active <=> end > day
           /\ Access!Active => tariff \in Tariffs /\ Access!Left = end - day
<1>1. Access!Left \in Nat /\ (Access!Active <=> end > day) /\ (Access!Active => Access!Left = end - day)
  BY DEF DaysShape, Access!Left, Access!Active
<1>2. Access!Active => tariff \in Tariffs
  BY <1>1 DEF DaysShape, Tariff
<1>3. PICK l \in Nat : l = Access!Left
  BY <1>1
<1>4. Day \in Nat \ {0}
  BY DEF Access!ConstantsFit
<1>5. PICK n \in Nat : n = l + Day - 1 /\ l <= n - Day + 1
  BY <1>4
<1>6. n \div Day \in Nat /\ n < Day * (n \div Day) + Day
  BY <1>4, DivisionIs
<1>7. Access!DaysLeft = n \div Day
  BY <1>3, <1>5 DEF Access!DaysLeft
<1>8. PICK q \in Nat : q = n \div Day
  BY <1>6
<1>9. Day * q \in Nat
  BY <1>4
<1> QED BY <1>1, <1>2, <1>3, <1>4, <1>5, <1>6, <1>7, <1>8, <1>9

-----------------------------------------------------------------------------
\* What is left of a tariff, in rubles, errs by half a ruble.
Rest(D, a) == Access!Round(D * Price[a], Days[a])

LEMMA RestIs ==
    ASSUME Access!ConstantsFit, NEW a \in Tariffs, NEW D \in Nat
    PROVE  /\ Rest(D, a) \in Nat
           /\ 2 * (D * Access!Rate(a)) <= 2 * (Scale * Rest(D, a)) + Scale
           /\ 2 * (Scale * Rest(D, a)) <= 2 * (D * Access!Rate(a)) + Scale
<1>1. PICK P, N, R : P = Price[a] /\ N = Days[a] /\ R = Access!Rate(a)
  OBVIOUS
<1>2. P \in Nat \ {0} /\ N \in Nat \ {0} /\ R \in Nat /\ Scale \in Nat \ {0} /\ N * R = P * Scale
  BY <1>1, RateIs DEF Access!ConstantsFit
<1>3. PICK n \in Nat : n = D * P
  BY <1>2
<1>4. PICK x \in Nat : x = Rest(D, a) /\ 2 * n <= 2 * (N * x) + N /\ 2 * (N * x) <= 2 * n + N
  BY <1>1, <1>2, <1>3, RoundIs DEF Rest
<1>5. N * (2 * (D * R)) = Scale * (2 * n)
  <2>1. N * (2 * (D * R)) = 2 * (D * (N * R))
    BY <1>2
  <2>2. 2 * (D * (P * Scale)) = Scale * (2 * (D * P))
    BY <1>2
  <2> QED BY <1>2, <1>3, <2>1, <2>2
<1>6. N * (2 * (Scale * x) + Scale) = Scale * (2 * (N * x) + N)
  BY <1>2
<1>7. N * (2 * (Scale * x)) = Scale * (2 * (N * x))
  BY <1>2
<1>8. N * (2 * (D * R) + Scale) = Scale * (2 * n + N)
  <2>1. N * (2 * (D * R) + Scale) = N * (2 * (D * R)) + N * Scale
    BY <1>2
  <2>2. Scale * (2 * n + N) = Scale * (2 * n) + N * Scale
    BY <1>2
  <2> QED BY <1>5, <2>1, <2>2
<1>9. N * x \in Nat /\ D * R \in Nat /\ Scale * x \in Nat
  BY <1>2
<1>10. 2 * (D * R) <= 2 * (Scale * x) + Scale
  <2>1. Scale * (2 * n) <= Scale * (2 * (N * x) + N)
    BY <1>2, <1>4, <1>9, Scales
  <2>2. N * (2 * (D * R)) <= N * (2 * (Scale * x) + Scale)
    BY <1>5, <1>6, <2>1
  <2> QED BY <1>2, <1>9, <2>2, Cancel
<1>11. 2 * (Scale * x) <= 2 * (D * R) + Scale
  <2>1. Scale * (2 * (N * x)) <= Scale * (2 * n + N)
    BY <1>2, <1>4, <1>9, Scales
  <2>2. N * (2 * (Scale * x)) <= N * (2 * (D * R) + Scale)
    BY <1>7, <1>8, <2>1
  <2> QED BY <1>2, <1>9, <2>2, Cancel
<1> QED BY <1>1, <1>4, <1>10, <1>11

\* What rubles buy of a tariff, in days, errs by half a day.
LEMMA BuysIs ==
    ASSUME Access!ConstantsFit, NEW t \in Tariffs, NEW x \in Nat, x >= Price[t],
           NEW n, n = Access!Round(x * Days[t], Price[t])
    PROVE  /\ n \in Nat /\ n >= 1
           /\ 2 * (n * Access!Rate(t)) <= 2 * (Scale * x) + Access!Rate(t)
           /\ 2 * (Scale * x) <= 2 * (n * Access!Rate(t)) + Access!Rate(t)
<1>1. PICK P, N, R : P = Price[t] /\ N = Days[t] /\ R = Access!Rate(t)
  OBVIOUS
<1>2. P \in Nat \ {0} /\ N \in Nat \ {0} /\ R \in Nat /\ Scale \in Nat \ {0} /\ N * R = P * Scale
  BY <1>1, RateIs DEF Access!ConstantsFit
<1>3. PICK m \in Nat : m = x * N
  BY <1>2
<1>4. m >= P
  <2>1. x * 1 <= x * N
    BY <1>2, Scales
  <2> QED BY <1>1, <1>2, <1>3, <2>1
<1>5. n \in Nat /\ n >= 1 /\ 2 * m <= 2 * (P * n) + P /\ 2 * (P * n) <= 2 * m + P
  BY <1>1, <1>2, <1>3, <1>4, RoundIs
<1>6. R * (P * n) \in Nat /\ n * R \in Nat /\ Scale * x \in Nat /\ P * n \in Nat
  BY <1>2, <1>5
<1>7. P * (2 * (n * R)) = R * (2 * (P * n))
  BY <1>2, <1>5
<1>8. P * (2 * (n * R) + R) = R * (2 * (P * n) + P)
  BY <1>2, <1>5
<1>9. P * (2 * (Scale * x)) = R * (2 * m)
  <2>1. P * (2 * (Scale * x)) = 2 * (x * (P * Scale))
    BY <1>2
  <2>2. R * (2 * (x * N)) = 2 * (x * (N * R))
    BY <1>2
  <2> QED BY <1>2, <1>3, <2>1, <2>2
<1>10. P * (2 * (Scale * x) + R) = R * (2 * m + P)
  <2>1. P * (2 * (Scale * x) + R) = P * (2 * (Scale * x)) + P * R
    BY <1>2, <1>6
  <2>2. R * (2 * m + P) = R * (2 * m) + P * R
    BY <1>2
  <2> QED BY <1>9, <2>1, <2>2
<1>11. 2 * (n * R) <= 2 * (Scale * x) + R
  <2>1. R * (2 * (P * n)) <= R * (2 * m + P)
    BY <1>2, <1>5, <1>6, Scales
  <2>2. P * (2 * (n * R)) <= P * (2 * (Scale * x) + R)
    BY <1>7, <1>10, <2>1
  <2> QED BY <1>2, <1>6, <2>2, Cancel
<1>12. 2 * (Scale * x) <= 2 * (n * R) + R
  <2>1. R * (2 * m) <= R * (2 * (P * n) + P)
    BY <1>2, <1>5, <1>6, Scales
  <2>2. P * (2 * (Scale * x)) <= P * (2 * (n * R) + R)
    BY <1>8, <1>9, <2>1
  <2> QED BY <1>2, <1>6, <2>2, Cancel
<1> QED BY <1>1, <1>5, <1>11, <1>12

\* calculate_tariff_change: what is left, and what is paid, against the new days.
LEMMA ChangeIs ==
    ASSUME Access!ConstantsFit, DaysShape, NEW a \in Tariffs, NEW t \in Tariffs,
           NEW c, c = Access!TariffChange(a, t)
    PROVE  /\ c = [due |-> c.due, days |-> c.days] /\ c.due \in Nat /\ c.days \in Nat
           /\ LET old == 2 * (Access!DaysLeft * Access!Rate(a)) + 2 * (Scale * c.due)
                  new == 2 * (c.days * Access!Rate(t))
              IN  new <= old + Scale + Access!Rate(t) /\ old <= new + Scale + Access!Rate(t)
<1>1. PICK D \in Nat : D = Access!DaysLeft
  BY LeftIs
<1>2. PICK x \in Nat : x = Rest(D, a)
  BY RestIs
<1>3. PICK Ra \in Nat, Rt \in Nat, P \in Nat : Ra = Access!Rate(a) /\ Rt = Access!Rate(t) /\ P = Price[t]
  BY RateIs
<1>4. /\ 2 * (D * Ra) <= 2 * (Scale * x) + Scale
      /\ 2 * (Scale * x) <= 2 * (D * Ra) + Scale
  BY <1>2, <1>3, RestIs
<1>5. Scale \in Nat /\ Scale * x \in Nat /\ D * Ra \in Nat /\ D * Rt \in Nat
  BY <1>3 DEF Access!ConstantsFit
<1>6. CASE x < P
  <2>1. c = [due |-> P - x, days |-> Days[t]]
    BY <1>1, <1>2, <1>3, <1>6 DEF Access!TariffChange, Rest
  <2>2. PICK u \in Nat : u = P - x
    BY <1>6
  <2>3. PICK d \in Nat : d = Days[t]
    BY RateIs
  <2>4. d * Rt = P * Scale
    BY <1>3, <2>3, RateIs
  <2>5. Scale * u + Scale * x = P * Scale /\ Scale * u \in Nat
    BY <1>5, <2>2, <1>3
  <2>6. /\ 2 * (d * Rt) <= 2 * (D * Ra) + 2 * (Scale * u) + Scale + Rt
        /\ 2 * (D * Ra) + 2 * (Scale * u) <= 2 * (d * Rt) + Scale + Rt
    BY <1>3, <1>4, <1>5, <2>4, <2>5
  <2>7. c.due = u /\ c.days = d
    BY <2>1, <2>2, <2>3
  <2> QED BY <1>1, <1>3, <2>1, <2>2, <2>3, <2>6, <2>7
<1>7. CASE x >= P /\ Ra = Rt
  <2>1. c = [due |-> 0, days |-> D]
    BY <1>1, <1>2, <1>3, <1>7 DEF Access!TariffChange, Rest
  <2>2. /\ 2 * (D * Rt) <= 2 * (D * Ra) + 2 * (Scale * 0) + Scale + Rt
        /\ 2 * (D * Ra) + 2 * (Scale * 0) <= 2 * (D * Rt) + Scale + Rt
    BY <1>5, <1>7
  <2>3. c.due = 0 /\ c.days = D
    BY <2>1
  <2> QED BY <1>1, <1>3, <2>1, <2>2, <2>3
<1>8. CASE x >= P /\ Ra # Rt
  <2>1. PICK n \in Nat : n = Access!Round(x * Days[t], Price[t]) /\ n >= 1
               /\ 2 * (n * Rt) <= 2 * (Scale * x) + Rt /\ 2 * (Scale * x) <= 2 * (n * Rt) + Rt
    BY <1>3, <1>8, BuysIs
  <2>2. c = [due |-> 0, days |-> n]
    BY <1>1, <1>2, <1>3, <1>8, <2>1 DEF Access!TariffChange, Rest
  <2>3. n * Rt \in Nat
    BY <1>3
  <2>4. /\ 2 * (n * Rt) <= 2 * (D * Ra) + 2 * (Scale * 0) + Scale + Rt
        /\ 2 * (D * Ra) + 2 * (Scale * 0) <= 2 * (n * Rt) + Scale + Rt
    BY <1>4, <1>5, <2>1, <2>3
  <2>5. c.due = 0 /\ c.days = n
    BY <2>2
  <2> QED BY <1>1, <1>3, <2>2, <2>4, <2>5
<1> QED BY <1>3, <1>6, <1>7, <1>8

\* _resolve_order_terms.
LEMMA TermsAre ==
    ASSUME Access!ConstantsFit, DaysShape, NEW t \in Tariffs, NEW x, x = Access!OrderTerms(t)
    PROVE  /\ TermsFit(x) /\ x.tariff = t
           /\ x.discount > 0 => Access!Eligible
           /\ x.change => /\ end > day /\ tariff \in Tariffs \ {t} /\ x.discount = 0
                          /\ x.due = Access!TariffChange(tariff, t).due
                          /\ x.days = Access!TariffChange(tariff, t).days
           /\ ~x.change /\ end > day => tariff = t
<1>1. CASE Access!Active /\ tariff \notin {NoTariff, t}
  <2>1. PICK c : c = Access!TariffChange(tariff, t)
    OBVIOUS
  <2>2. tariff \in Tariffs /\ end > day
    BY <1>1, LeftIs
  <2>3. c.due \in Nat /\ c.days \in Nat
    BY <2>1, <2>2, ChangeIs
  <2>4. x = [tariff |-> t, due |-> c.due, discount |-> 0, days |-> c.days, change |-> TRUE]
    BY <1>1, <2>1 DEF Access!OrderTerms
  <2> QED BY <1>1, <2>1, <2>2, <2>3, <2>4 DEF TermsFit, TermSet, Tariff
<1>2. CASE ~(Access!Active /\ tariff \notin {NoTariff, t})
  <2>1. PICK e : e = IF Access!Eligible THEN Access!Discount(t) ELSE 0
    OBVIOUS
  <2>2. x = [tariff |-> t, due |-> Price[t] - e, discount |-> e, days |-> Days[t], change |-> FALSE]
    BY <1>2, <2>1 DEF Access!OrderTerms
  <2>3. PICK P \in Nat \ {0} : P = Price[t]
    BY RateIs
  <2>4. e \in Nat /\ e < P
    <3>1. P \div 4 \in Nat
      BY <2>3
    <3>2. PICK q \in Nat : q = P \div 4
      BY <3>1
    <3>3. Access!Discount(t) = IF P - q >= 1 THEN q ELSE P - 1
      BY <2>3, <3>2 DEF Access!Discount
    <3> QED BY <2>1, <2>3, <3>3
  <2>5. Days[t] \in Nat
    BY RateIs
  <2>6. end > day => tariff = t
    BY <1>2, LeftIs DEF Access!ConstantsFit
  <2>7. e > 0 => Access!Eligible
    BY <2>1
  <2> QED BY <2>2, <2>3, <2>4, <2>5, <2>6, <2>7 DEF TermsFit, TermSet, Tariff
<1> QED BY <1>1, <1>2

-----------------------------------------------------------------------------
LEMMA WorthMore ==
    ASSUME Access!ConstantsFit, NEW n \in Nat, NEW m \in Nat, NEW t \in Tariffs, NEW p \in Int, NEW q \in Int,
           NEW r \in Nat, NEW s \in Nat, Worth(n, t, p, r), m <= n, p <= q, r <= s
    PROVE  Worth(m, t, q, s)
<1>1. PICK R \in Nat, K \in Nat : R = Access!Rate(t) /\ K = Day * Scale
  BY RateIs DEF Access!ConstantsFit
<1>2. R * m <= R * n /\ K * p <= K * q
  BY <1>1, Scales
<1>3. n * R = R * n /\ m * R = R * m
  BY <1>1
<1>4. 2 * (n * R) <= 2 * (K * p) + r
  BY <1>1 DEF Worth
<1>5. R * m \in Int /\ R * n \in Int /\ K * p \in Int /\ K * q \in Int
  BY <1>1
<1>6. 2 * (m * R) <= 2 * (K * q) + s
  BY <1>2, <1>3, <1>4, <1>5
<1> QED BY <1>1, <1>6 DEF Worth

\* fulfill_order, as far as it is the same for every settlement.
LEMMA FulfillIs ==
    ASSUME Access!ConstantsFit, DaysShape, NEW x, TermsFit(x), Access!Fulfill(x)
    PROVE  /\ end' \in Nat /\ tariff' = x.tariff /\ paid' = paid + (x.due + x.discount) /\ paid' \in Nat
           /\ x.due + x.discount \in Nat
           /\ rounded' \in Nat /\ rounded <= rounded' /\ misfit' \in BOOLEAN
           /\ ~misfit' => ~misfit /\ x = Access!OrderTerms(x.tariff)
<1>1. x \in TermSet /\ x.tariff \in Tariffs
  BY DEF TermsFit
<1>2. x.due \in Nat /\ x.discount \in Nat /\ x.days \in Nat /\ Day \in Nat /\ Scale \in Nat
  BY <1>1 DEF TermSet, Access!ConstantsFit
<1>3. x.days * Day \in Nat
  BY <1>2
<1>4. end' \in Nat
  BY <1>2, <1>3 DEF Access!Fulfill, Access!EndAfter, DaysShape
<1>5. Access!RoundedUp(x) \in Nat
  <2>1. CASE x.change /\ tariff # NoTariff
    <3>1. tariff \in Tariffs
      BY <2>1 DEF DaysShape, Tariff
    <3>2. PICK D \in Nat, L \in Nat, a \in Nat, b \in Nat :
             D = Access!DaysLeft /\ L = Access!Left /\ a = Access!Rate(tariff) /\ b = Access!Rate(x.tariff)
      BY <1>1, <3>1, LeftIs, RateIs
    <3>3. PICK m \in Nat : m = D * Day /\ L <= m
      <4>1. D * Day \in Nat /\ D * Day = Day * D
        BY <1>2
      <4> QED BY <3>2, <4>1, LeftIs
    <3>4. PICK k \in Nat : k = m - L
      BY <3>3
    <3>5. 2 * k * a \in Nat /\ Day * Scale \in Nat /\ Day * b \in Nat
      BY <1>2
    <3>6. Access!RoundedUp(x) = 2 * k * a + Day * Scale + Day * b
      BY <2>1, <3>2, <3>3, <3>4 DEF Access!RoundedUp
    <3> QED BY <3>5, <3>6
  <2>2. CASE ~(x.change /\ tariff # NoTariff)
    BY <2>2 DEF Access!RoundedUp
  <2> QED BY <2>1, <2>2
<1>6. rounded' \in Nat /\ rounded <= rounded'
  BY <1>5 DEF Access!Fulfill, DaysShape
<1>7. misfit' \in BOOLEAN /\ (~misfit' => ~misfit /\ x = Access!OrderTerms(x.tariff))
  BY Zenon DEF Access!Fulfill
<1>8. tariff' = x.tariff /\ paid' = paid + (x.due + x.discount) /\ paid' \in Nat
  BY <1>2 DEF Access!Fulfill, DaysShape
<1> QED BY <1>2, <1>4, <1>6, <1>7, <1>8

\* A payment is worth the days it gives, and a change what it is rounded to.
LEMMA WorthPays ==
    ASSUME Access!ConstantsFit, DaysShape, WorthInv, NEW x, TermsFit(x), Access!Fulfill(x), ~misfit',
           Sum(order, Foreign(order, tariff)) \in Nat,
           NEW F \in Nat, x.change => F = 0,
           ~x.change /\ end > day => F <= Sum(order, Foreign(order, tariff)),
           ~x.change /\ end <= day => F <= paid, end' > day
    PROVE  Worth(end' - day, tariff', paid' - F, rounded')
<1>1. PICK t \in Tariffs : t = x.tariff /\ x = Access!OrderTerms(t) /\ tariff' = t /\ ~misfit
  BY FulfillIs DEF TermsFit
<1>2. PICK R \in Nat, N \in Nat, P \in Nat : R = Access!Rate(t) /\ N = Days[t] /\ P = Price[t] /\ N * R = P * Scale
  BY RateIs
<1>3. Day \in Nat /\ Scale \in Nat
  BY DEF Access!ConstantsFit
<1>4. PICK K \in Nat : K = Day * Scale
  BY <1>3
<1>5. /\ paid \in Nat /\ paid' \in Nat /\ rounded \in Nat /\ rounded' \in Nat /\ rounded <= rounded'
      /\ paid' = paid + (x.due + x.discount) /\ day \in Nat /\ end \in Nat /\ end' \in Nat
      /\ end' = Access!EndAfter(x) /\ rounded' = rounded + Access!RoundedUp(x)
  BY FulfillIs DEF DaysShape, Access!Fulfill
<1>6. CASE ~x.change
  <2>1. x.days = N /\ x.due + x.discount = P
    BY <1>1, <1>2, <1>6 DEF TermsFit
  <2>2. PICK g \in Nat : g = N * Day
    BY <1>3
  <2>3. g * R = K * P
    <3>1. (N * Day) * R = Day * (N * R)
      BY <1>3
    <3>2. Day * (P * Scale) = (Day * Scale) * P
      BY <1>3
    <3> QED BY <1>2, <1>4, <2>2, <3>1, <3>2
  <2>4. CASE end > day
    <3>1. tariff = t /\ end' = end + g
      BY <1>1, <1>5, <1>6, <2>1, <2>2, <2>4, TermsAre DEF Access!EndAfter, Access!Active
    <3>2. Worth(end - day, t, paid - F, rounded)
      <4>1. Worth(end - day, t, paid - Sum(order, Foreign(order, tariff)), rounded)
        BY <1>1, <2>4, <3>1 DEF WorthInv
      <4> QED BY <1>5, <1>6, <2>4, <4>1, WorthMore
    <3>3. PICK n \in Nat, p \in Int : n = end - day /\ p = paid - F
      BY <1>5, <2>4
    <3>4. 2 * (n * R) <= 2 * (K * p) + rounded
      BY <1>2, <1>4, <3>2, <3>3 DEF Worth
    <3>5. (n + g) * R = n * R + g * R /\ K * (p + P) = K * p + K * P
      BY <1>2, <1>4
    <3>6. n * R \in Nat /\ K * p \in Int /\ K * P \in Nat
      BY <1>2, <1>4
    <3>7. 2 * ((n + g) * R) <= 2 * (K * (p + P)) + rounded'
      BY <1>5, <2>3, <3>4, <3>5, <3>6
    <3>8. end' - day = n + g /\ paid' - F = p + P
      BY <1>5, <2>1, <3>1, <3>3
    <3> QED BY <1>1, <1>2, <1>4, <3>7, <3>8 DEF Worth
  <2>5. CASE end <= day
    <3>1. end' = day + g
      BY <1>5, <1>6, <2>1, <2>2, <2>5 DEF Access!EndAfter, Access!Active
    <3>2. PICK p \in Nat : p = paid - F
      BY <1>5, <1>6, <2>5
    <3>3. K * (p + P) = K * p + K * P /\ K * p \in Nat /\ K * P \in Nat
      BY <1>2, <1>4
    <3>4. 2 * (g * R) <= 2 * (K * (p + P)) + rounded'
      BY <1>5, <2>3, <3>3
    <3>5. end' - day = g /\ paid' - F = p + P
      BY <1>5, <2>1, <3>1, <3>2
    <3> QED BY <1>1, <1>2, <1>4, <3>4, <3>5 DEF Worth
  <2> QED BY <1>5, <2>4, <2>5
<1>7. CASE x.change
  <2>1. end > day /\ tariff \in Tariffs /\ x.discount = 0 /\ TermsFit(x)
    BY <1>1, <1>7, TermsAre
  <2>2. PICK u \in Nat, n \in Nat : u = x.due /\ n = x.days
    BY <2>1 DEF TermsFit, TermSet
  <2>3. PICK A \in Nat, D \in Nat, L \in Nat : A = Access!Rate(tariff) /\ D = Access!DaysLeft
                                             /\ L = Access!Left /\ L = end - day /\ L <= Day * D
    BY <2>1, LeftIs, RateIs
  <2>4. 2 * (n * R) <= 2 * (D * A) + 2 * (Scale * u) + Scale + R
    <3>1. PICK c : c = Access!TariffChange(tariff, t)
      OBVIOUS
    <3>2. c.due = u /\ c.days = n
      BY <1>1, <1>7, <2>2, <3>1, TermsAre
    <3>3. 2 * (c.days * R) <= 2 * (D * A) + 2 * (Scale * c.due) + Scale + R
      BY <1>2, <2>1, <2>3, <3>1, ChangeIs
    <3> QED BY <3>2, <3>3
  <2>5. PICK g \in Nat, h \in Nat, k \in Nat : g = n * Day /\ h = D * Day /\ k = h - L
    <3>1. D * Day \in Nat /\ D * Day = Day * D /\ n * Day \in Nat
      BY <1>3
    <3> QED BY <2>3, <3>1
  <2>6. rounded' = rounded + (2 * k * A + K + Day * R)
    BY <1>1, <1>2, <1>4, <1>5, <1>7, <2>1, <2>3, <2>5 DEF Access!RoundedUp, Access!ConstantsFit
  <2>7. 2 * (L * A) <= 2 * (K * paid) + rounded
    <3>1. Worth(L, tariff, paid - Sum(order, Foreign(order, tariff)), rounded)
      BY <1>1, <2>1, <2>3 DEF WorthInv
    <3>2. Worth(L, tariff, paid, rounded)
      BY <1>5, <2>1, <3>1, WorthMore
    <3> QED BY <1>4, <2>3, <3>2 DEF Worth
  <2>8. 2 * (g * R) <= 2 * (h * A) + 2 * (K * u) + K + Day * R
    <3>1. Day * (2 * (n * R)) <= Day * (2 * (D * A) + 2 * (Scale * u) + Scale + R)
      <4>1. n * R \in Nat /\ D * A \in Nat /\ Scale * u \in Nat
        BY <1>2, <1>3
      <4> QED BY <1>2, <1>3, <2>4, <4>1, Scales
    <3>2. Day * (2 * (n * R)) = 2 * ((n * Day) * R)
      BY <1>2, <1>3
    <3>3. Day * (2 * (D * A) + 2 * (Scale * u) + Scale + R)
             = 2 * ((D * Day) * A) + 2 * ((Day * Scale) * u) + Day * Scale + Day * R
      BY <1>2, <1>3
    <3> QED BY <1>4, <2>5, <3>1, <3>2, <3>3
  <2>9. 2 * k * A = 2 * (h * A) - 2 * (L * A)
    BY <2>5
  <2>10. K * (paid + u) = K * paid + K * u
    BY <1>4, <1>5
  <2>11. g * R \in Nat /\ h * A \in Nat /\ L * A \in Nat /\ K * paid \in Nat /\ K * u \in Nat /\ Day * R \in Nat
    BY <1>2, <1>3, <1>4, <1>5
  <2>12. 2 * (g * R) <= 2 * (K * (paid + u)) + rounded'
    <3>1. PICK gr \in Nat, ha \in Nat, la \in Nat, kp \in Nat, ku \in Nat, dr \in Nat :
             gr = g * R /\ ha = h * A /\ la = L * A /\ kp = K * paid /\ ku = K * u /\ dr = Day * R
      BY <2>11
    <3>2. 2 * gr <= 2 * ha + 2 * ku + K + dr /\ 2 * la <= 2 * kp + rounded
      BY <2>7, <2>8, <3>1
    <3>3. rounded' = rounded + (2 * ha - 2 * la + K + dr)
      BY <2>6, <2>9, <3>1
    <3>4. 2 * gr <= 2 * (kp + ku) + rounded'
      BY <1>4, <1>5, <3>1, <3>2, <3>3
    <3> QED BY <2>10, <3>1, <3>4
  <2>13. end' - day = g /\ paid' - F = paid + u
    BY <1>5, <1>7, <2>1, <2>2, <2>5 DEF Access!EndAfter
  <2> QED BY <1>1, <1>2, <1>4, <2>12, <2>13 DEF Worth
<1> QED BY <1>6, <1>7

-----------------------------------------------------------------------------
LEMMA SumsAre ==
    ASSUME DaysShape, SumInv
    PROVE  /\ IsFiniteSet(Coins(order, Open(order)))
           /\ Sum(order, Settled(order)) \in Nat /\ Sum(order, Open(order)) \in Nat
           /\ Sum(order, Foreign(order, tariff)) \in Nat
           /\ Sum(order, Foreign(order, tariff)) <= Sum(order, Open(order))
           /\ Sum(order, Open(order)) <= Sum(order, Settled(order))
           /\ Sum(order, Settled(order)) <= paid
<1>1. Open(order) \subseteq Settled(order) /\ Foreign(order, tariff) \subseteq Open(order)
  BY DEF Open, Foreign
<1>2. IsFiniteSet(Coins(order, Settled(order)))
  BY DEF SumInv
<1>3. IsFiniteSet(Coins(order, Open(order)))
  BY <1>1, <1>2, SumLess
<1> QED BY <1>1, <1>2, <1>3, SumLess DEF SumInv

\* One order more, or none.
LEMMA SumMore ==
    ASSUME NEW f, NEW S, NEW N, NEW a \in Nat, IsFiniteSet(Coins(f, S)),
           N = {} \/ \E o \in Orders : N = {o} /\ o \notin S /\ Amount(f, o) = a
    PROVE  IsFiniteSet(Coins(f, S \cup N)) /\ Sum(f, S \cup N) \in Nat /\ Sum(f, S \cup N) <= Sum(f, S) + a
<1>1. Sum(f, S) \in Nat
  BY FS_CardinalityType DEF Sum
<1>2. CASE N = {}
  <2>1. S \cup N = S
    BY <1>2
  <2>2. Coins(f, S \cup N) = Coins(f, S) /\ Sum(f, S \cup N) = Sum(f, S)
    BY <2>1, Zenon
  <2> QED BY <1>1, <2>2
<1>3. CASE \E o \in Orders : N = {o} /\ o \notin S /\ Amount(f, o) = a
  <2>1. PICK o \in Orders : N = {o} /\ o \notin S /\ Amount(f, o) = a
    BY <1>3
  <2>2. IsFiniteSet(Coins(f, S \cup {o})) /\ Sum(f, S \cup {o}) = Sum(f, S) + a
    BY <2>1, SumAdds
  <2> QED BY <1>1, <2>1, <2>2
<1> QED BY <1>2, <1>3

\* Access is paid, for the order N or from the wallet; a change covers what was
\* paid before.
LEMMA Pays ==
    ASSUME Access!ConstantsFit, DaysInv, NEW x, TermsFit(x), Access!Fulfill(x), day' = day,
           NEW N \in SUBSET Orders,
           \A p \in Orders : order'[p].terms = order[p].terms,
           \A p \in Orders \ N : /\ order'[p].st = order[p].st /\ order'[p].end = order[p].end
                                 /\ order'[p].tariff = order[p].tariff
                                 /\ order[p].st = "paid" /\ (order[p].over \/ x.change) => order'[p].over,
           N = {} \/ \E o \in Orders :
             /\ N = {o} /\ order[o].st = "pending" /\ order[o].terms = x
             /\ order'[o].st = "paid" /\ order'[o].end = end /\ order'[o].tariff = tariff
    PROVE  SumInv' /\ WorthInv'
<1>0. DaysShape /\ SumInv /\ WorthInv
  BY DEF DaysInv
<1>1. PICK a \in Nat : a = x.due + x.discount
  BY <1>0, FulfillIs
<1>2. /\ paid' = paid + a /\ tariff' = x.tariff /\ paid \in Nat /\ end \in Nat /\ end' \in Nat /\ day \in Nat
      /\ rounded \in Nat /\ rounded' \in Nat /\ rounded <= rounded'
      /\ ~misfit' => ~misfit /\ x = Access!OrderTerms(x.tariff)
  BY <1>0, <1>1, FulfillIs DEF DaysShape
<1>3. Settled(order') = Settled(order) \cup N
  BY DEF Settled
<1>4. /\ N \cap Settled(order) = {} /\ Open(order) \subseteq Settled(order)
      /\ Open(order') \subseteq Open(order) \cup N
      /\ x.change => Open(order') \subseteq N
  <2>1. N \cap Settled(order) = {}
    BY DEF Settled
  <2>2. Open(order) \subseteq Settled(order)
    BY DEF Open
  <2>3. ASSUME NEW p \in Open(order'), p \notin N
        PROVE  p \in Open(order) /\ ~x.change
    <3>1. p \in Orders /\ order'[p].st = "paid" /\ ~order'[p].over
      BY DEF Open, Settled
    <3>2. order[p].st = "paid" /\ ~(order[p].over \/ x.change)
      BY <2>3, <3>1
    <3> QED BY <3>1, <3>2 DEF Open, Settled
  <2> QED BY <2>1, <2>2, <2>3
<1>5. /\ Foreign(order', tariff') \subseteq Open(order)
      /\ x.change => Foreign(order', tariff') = {}
      /\ tariff = x.tariff => Foreign(order', tariff') \subseteq Foreign(order, tariff)
  <2>1. ASSUME NEW p \in Foreign(order', tariff')
        PROVE  p \in Open(order) /\ ~x.change /\ (tariff = x.tariff => p \in Foreign(order, tariff))
    <3>1. p \in Orders /\ p \in Open(order') /\ order[p].terms.tariff # x.tariff
      BY <1>2 DEF Foreign, Open, Settled
    <3>2. p \notin N
      BY <3>1
    <3> QED BY <1>4, <3>1, <3>2 DEF Foreign
  <2> QED BY <2>1
<1>6. \A S : Coins(order', S) = Coins(order, S)
  <2>1. \A p \in Orders : Amount(order', p) = Amount(order, p)
    BY DEF Amount
  <2> QED BY <2>1 DEF Coins
<1>7. \A S : Sum(order', S) = Sum(order, S)
  BY <1>6 DEF Sum
<1>8. N = {} \/ \E o \in Orders : N = {o} /\ o \notin Settled(order) /\ Amount(order, o) = a
  BY <1>1 DEF Settled, Amount
<1>9. N = {} \/ \E o \in Orders : N = {o} /\ o \notin Open(order) /\ Amount(order, o) = a
  BY <1>4, <1>8
<1>10. /\ IsFiniteSet(Coins(order, Settled(order) \cup N))
       /\ Sum(order, Settled(order) \cup N) <= Sum(order, Settled(order)) + a
  BY <1>0, <1>8, SumMore DEF SumInv
<1>11. /\ IsFiniteSet(Coins(order, Open(order) \cup N))
       /\ Sum(order, Open(order) \cup N) <= Sum(order, Open(order)) + a
  BY <1>0, <1>9, SumMore, SumsAre
<1>12. IsFiniteSet(Coins(order, N)) /\ Sum(order, N) \in Nat /\ Sum(order, N) <= a
  <2>1. {} \cup N = N
    OBVIOUS
  <2>2. /\ IsFiniteSet(Coins(order, {} \cup N)) /\ Sum(order, {} \cup N) \in Nat
        /\ Sum(order, {} \cup N) <= Sum(order, {}) + a
    <3>1. N = {} \/ \E o \in Orders : N = {o} /\ o \notin {} /\ Amount(order, o) = a
      BY <1>8
    <3> QED BY <3>1, NothingSums, SumMore
  <2> QED BY <2>1, <2>2, NothingSums
<1>13. SumInv'
  <2>1. Sum(order, Settled(order) \cup N) \in Nat
    BY <1>10, FS_CardinalityType DEF Sum
  <2> QED BY <1>2, <1>3, <1>6, <1>7, <1>10, <2>1, SumsAre, <1>0 DEF SumInv
<1>14. ASSUME ~misfit' PROVE WorthInv'
  <2>1. PICK F \in Nat : F = Sum(order', Foreign(order', tariff')) /\ F <= Sum(order, Open(order))
    <3>1. /\ Sum(order, Foreign(order', tariff')) \in Nat
          /\ Sum(order, Foreign(order', tariff')) <= Sum(order, Open(order))
      BY <1>0, <1>5, SumsAre, SumLess
    <3> QED BY <1>7, <3>1
  <2>2. x.change => F = 0
    BY <1>5, <1>7, <2>1, NothingSums
  <2>3. ~x.change /\ end > day => F <= Sum(order, Foreign(order, tariff))
    <3>1. ~x.change /\ end > day => tariff = x.tariff
      BY <1>0, <1>2, <1>14, TermsAre DEF TermsFit
    <3>2. IsFiniteSet(Coins(order, Foreign(order, tariff)))
      <4>1. Foreign(order, tariff) \subseteq Open(order)
        BY DEF Foreign
      <4> QED BY <1>0, <4>1, SumsAre, SumLess
    <3> QED BY <1>5, <1>7, <2>1, <3>1, <3>2, SumLess
  <2>4. ~x.change /\ end <= day => F <= paid
    BY <1>0, <1>2, <2>1, SumsAre
  <2>5. end' > day' => Worth(end' - day', tariff', paid' - F, rounded')
    BY <1>0, <1>14, <2>2, <2>3, <2>4, SumsAre, WorthPays
  <2>6. PICK G \in Nat, H \in Nat : G = Sum(order', Open(order')) /\ H = Sum(order, Open(order))
           /\ G <= H + a /\ (x.change => G <= a)
    <3>1. Sum(order, Open(order')) \in Nat /\ Sum(order, Open(order')) <= Sum(order, Open(order)) + a
      BY <1>0, <1>1, <1>4, <1>11, SumsAre, SumLess, FS_CardinalityType
    <3>2. x.change => Sum(order, Open(order')) <= a
      BY <1>1, <1>4, <1>12, <3>1, SumLess
    <3> QED BY <1>0, <1>7, <3>1, <3>2, SumsAre
  <2>7. ASSUME NEW q \in Open(order'), order'[q].terms.change
        PROVE  /\ order'[q].tariff \in Tariffs
               /\ order'[q].end > day' => Worth(order'[q].end - day', order'[q].tariff, paid' - G, rounded')
    <3>1. q \in Orders
      BY DEF Open, Settled
    <3>2. CASE q \in N
      <4>1. order'[q].end = end /\ order'[q].tariff = tariff /\ x.change
        BY <2>7, <3>1, <3>2
      <4>2. end > day /\ tariff \in Tariffs
        BY <1>0, <1>2, <1>14, <4>1, TermsAre DEF TermsFit
      <4>3. Worth(end - day, tariff, paid - Sum(order, Foreign(order, tariff)), rounded)
        BY <1>0, <1>2, <1>14, <4>2 DEF WorthInv
      <4>4. PICK p \in Int : p = paid - Sum(order, Foreign(order, tariff)) /\ p <= paid' - G
        BY <1>0, <1>2, <2>6, <4>1, SumsAre
      <4>5. Worth(end - day, tariff, paid' - G, rounded')
        BY <1>2, <2>6, <4>2, <4>3, <4>4, WorthMore
      <4> QED BY <4>1, <4>2, <4>5
    <3>3. CASE q \notin N
      <4>1. /\ order'[q].end = order[q].end /\ order'[q].tariff = order[q].tariff
            /\ order[q].terms.change /\ q \in Open(order)
        BY <1>4, <2>7, <3>1, <3>3
      <4>2. /\ order[q].tariff \in Tariffs
            /\ order[q].end > day => Worth(order[q].end - day, order[q].tariff, paid - H, rounded)
        BY <1>0, <1>2, <1>14, <2>6, <4>1 DEF WorthInv
      <4>3. order[q].end \in Nat
        BY <1>0, <3>1 DEF DaysShape, OrderSet
      <4>4. paid - H <= paid' - G /\ paid - H \in Int /\ paid' - G \in Int
        BY <1>2, <2>6
      <4>5. order[q].end > day => Worth(order[q].end - day, order[q].tariff, paid' - G, rounded')
        BY <1>2, <4>2, <4>3, <4>4, WorthMore
      <4> QED BY <4>1, <4>2, <4>5
    <3> QED BY <3>2, <3>3
  <2> QED BY <2>1, <2>5, <2>6, <2>7 DEF WorthInv
<1>15. WorthInv'
  <2>1. misfit' => WorthInv'
    BY DEF WorthInv
  <2> QED BY <1>14, <2>1
<1> QED BY <1>13, <1>15

LEMMA CoveredIs ==
    ASSUME DaysShape, NEW x, x.change \in BOOLEAN, NEW g, g = Access!Covered(x)
    PROVE  /\ g \in [Orders -> OrderSet]
           /\ \A p \in Orders : /\ g[p].st = order[p].st /\ g[p].terms = order[p].terms
                                /\ g[p].end = order[p].end /\ g[p].tariff = order[p].tariff
                                /\ g[p].over <=> order[p].over \/ (x.change /\ order[p].st = "paid")
<1>1. ASSUME NEW p \in Orders
      PROVE  /\ g[p] \in OrderSet
             /\ g[p].st = order[p].st /\ g[p].terms = order[p].terms
             /\ g[p].end = order[p].end /\ g[p].tariff = order[p].tariff
             /\ g[p].over <=> order[p].over \/ (x.change /\ order[p].st = "paid")
  <2>1. order[p] \in OrderSet
    BY DEF DaysShape
  <2>2. PICK b \in BOOLEAN : b <=> order[p].over \/ (x.change /\ order[p].st = "paid")
    OBVIOUS
  <2>3. g[p] = [order[p] EXCEPT !.over = b]
    <3>1. g[p] = [order[p] EXCEPT !.over = order[p].over \/ (x.change /\ order[p].st = "paid")]
      BY DEF Access!Covered
    <3>2. (order[p].over \/ (x.change /\ order[p].st = "paid")) = b
      BY <2>1, <2>2 DEF OrderSet
    <3> QED BY <3>1, <3>2
  <2>4. PICK r \in OrderSet : r = order[p]
    BY <2>1
  <2> QED BY <2>2, <2>3, <2>4 DEF OrderSet
<1>2. g = [p \in Orders |-> g[p]]
  BY DEF Access!Covered
<1> QED BY <1>1, <1>2

\* The discount is for those who have bought nothing, so it is the first.
LEMMA FirstDiscount ==
    ASSUME DaysShape, Access!Eligible
    PROVE  Discounted(order) = {} /\ wallet.bought = 0 /\ wallet.discounted = 0
<1>1. \A o \in Orders : ~(order[o].st = "paid" /\ order[o].terms.due > 0)
  BY DEF Access!Eligible, Access!Bought
<1>2. \A o \in Orders : order[o].st = "paid" /\ order[o].terms.discount > 0 => order[o].terms.due > 0
  BY DEF DaysShape, TermsFit
<1> QED BY <1>1, <1>2 DEF Discounted, DaysShape, Access!Eligible

LEMMA SettleStep ==
    ASSUME Access!ConstantsFit, DaysInv, NEW o \in Orders, Access!Settle(o)
    PROVE  DaysInv'
<1>0. DaysShape
  BY DEF DaysInv
<1>1. PICK x : x = order[o].terms
  OBVIOUS
<1>2. order[o].st = "pending" /\ Access!Fulfill(x) /\ day' = day /\ wallet' = wallet /\ TermsFit(x)
  BY <1>0, <1>1 DEF Access!Settle, DaysShape
<1>3. PICK g : g = Access!Covered(x)
  OBVIOUS
<1>4. x.change \in BOOLEAN
  BY <1>2 DEF TermsFit, TermSet
<1>5. order' = [g EXCEPT ![o] = [g[o] EXCEPT !.st = "paid", !.end = end, !.tariff = tariff]]
  BY <1>1, <1>3 DEF Access!Settle
<1>6. g \in [Orders -> OrderSet]
  BY <1>0, <1>3, <1>4, CoveredIs
<1>7. PICK r \in OrderSet : r = g[o]
  BY <1>6
<1>8. \A p \in Orders : g[p].st = order[p].st /\ g[p].terms = order[p].terms
                        /\ g[p].end = order[p].end /\ g[p].tariff = order[p].tariff
                        /\ (g[p].over <=> order[p].over \/ (x.change /\ order[p].st = "paid"))
  BY <1>0, <1>3, <1>4, CoveredIs
<1>9. PICK n : n = [st |-> "paid", terms |-> r.terms, end |-> end, tariff |-> tariff, over |-> r.over]
  OBVIOUS
<1>10. [g[o] EXCEPT !.st = "paid", !.end = end, !.tariff = tariff] = n
  <2>1. PICK u : u = [r EXCEPT !.st = "paid"]
    OBVIOUS
  <2>2. u = [st |-> "paid", terms |-> r.terms, end |-> r.end, tariff |-> r.tariff, over |-> r.over]
    BY <2>1 DEF OrderSet
  <2>3. PICK v : v = [u EXCEPT !.end = end]
    OBVIOUS
  <2>4. v = [st |-> "paid", terms |-> r.terms, end |-> end, tariff |-> r.tariff, over |-> r.over]
    BY <2>2, <2>3
  <2>5. [v EXCEPT !.tariff = tariff] = n
    BY <1>9, <2>4
  <2> QED BY <1>7, <2>1, <2>3, <2>5
<1>11. n \in OrderSet /\ n.st = "paid" /\ n.terms = order[o].terms /\ n.end = end /\ n.tariff = tariff
  BY <1>0, <1>7, <1>8, <1>9 DEF OrderSet, DaysShape
<1>12. order' \in [Orders -> OrderSet] /\ order'[o] = n /\ \A p \in Orders \ {o} : order'[p] = g[p]
  BY <1>5, <1>6, <1>10, <1>11
<1>13. \A p \in Orders : order'[p].terms = order[p].terms
  BY <1>8, <1>11, <1>12
<1>14. SumInv' /\ WorthInv'
  <2>1. PICK N \in SUBSET Orders : N = {o}
    OBVIOUS
  <2>2. \A p \in Orders \ N : /\ order'[p].st = order[p].st /\ order'[p].end = order[p].end
                              /\ order'[p].tariff = order[p].tariff
                              /\ order[p].st = "paid" /\ (order[p].over \/ x.change) => order'[p].over
    BY <1>8, <1>12, <2>1
  <2>3. N = {} \/ \E q \in Orders :
             /\ N = {q} /\ order[q].st = "pending" /\ order[q].terms = x
             /\ order'[q].st = "paid" /\ order'[q].end = end /\ order'[q].tariff = tariff
    BY <1>1, <1>2, <1>11, <1>12, <2>1
  <2> QED BY <1>2, <1>13, <2>2, <2>3, Pays
<1>15. DaysShape'
  <2>1. Settled(order') # {} /\ tariff' # NoTariff /\ tariff' \in Tariff
    BY <1>0, <1>2, <1>11, <1>12, FulfillIs DEF Settled, Tariff, TermsFit, Access!ConstantsFit
  <2>2. \A p \in Orders : order'[p].st # "none" => TermsFit(order'[p].terms)
    BY <1>0, <1>1, <1>2, <1>8, <1>12, <1>13 DEF DaysShape
  <2> QED BY <1>0, <1>2, <1>12, <2>1, <2>2, FulfillIs DEF DaysShape
<1>16. OnceInv'
  <2>1. SUFFICES ASSUME ~misfit'
                 PROVE  IsFiniteSet(Discounted(order')) /\ Cardinality(Discounted(order')) + wallet.discounted <= 1
    BY <1>2 DEF OnceInv
  <2>2. ~misfit /\ x = Access!OrderTerms(x.tariff)
    BY <1>0, <1>2, <2>1, FulfillIs
  <2>3. CASE x.discount > 0
    <3>1. Discounted(order) = {} /\ wallet.discounted = 0
      BY <1>0, <1>2, <2>2, <2>3, TermsAre, FirstDiscount DEF TermsFit
    <3>2. Discounted(order') = {o}
      BY <1>1, <1>8, <1>11, <1>12, <1>13, <2>3, <3>1 DEF Discounted
    <3>3. IsFiniteSet({o}) /\ Cardinality({o}) = 1
      BY FS_Singleton
    <3>4. IsFiniteSet(Discounted(order')) /\ Cardinality(Discounted(order')) = 1
      BY <3>2, <3>3, Zenon
    <3> QED BY <3>1, <3>4
  <2>4. CASE ~(x.discount > 0)
    <3>1. Discounted(order') = Discounted(order)
      BY <1>1, <1>2, <1>8, <1>12, <1>13, <2>4 DEF Discounted
    <3> QED BY <2>2, <3>1 DEF OnceInv, DaysInv
  <2> QED BY <2>3, <2>4
<1> QED BY <1>14, <1>15, <1>16 DEF DaysInv

LEMMA WalletStep ==
    ASSUME Access!ConstantsFit, DaysInv, NEW t \in Tariffs, Access!PayFromWallet(t)
    PROVE  DaysInv'
<1>0. DaysShape
  BY DEF DaysInv
<1>1. PICK x : x = Access!OrderTerms(t)
  OBVIOUS
<1>2. Access!Fulfill(x) /\ day' = day /\ TermsFit(x) /\ order' = Access!Covered(x)
  BY <1>0, <1>1, TermsAre DEF Access!PayFromWallet
<1>3. x.change \in BOOLEAN /\ x.due \in Nat /\ x.discount \in Nat
  BY <1>2 DEF TermsFit, TermSet
<1>4. order' \in [Orders -> OrderSet]
  BY <1>0, <1>2, <1>3, CoveredIs
<1>5. \A p \in Orders : order'[p].st = order[p].st /\ order'[p].terms = order[p].terms
                        /\ order'[p].end = order[p].end /\ order'[p].tariff = order[p].tariff
                        /\ (order'[p].over <=> order[p].over \/ (x.change /\ order[p].st = "paid"))
  BY <1>0, <1>2, <1>3, CoveredIs
<1>6. SumInv' /\ WorthInv'
  <2>1. PICK N \in SUBSET Orders : N = {}
    OBVIOUS
  <2> QED BY <1>2, <1>5, <2>1, Pays
<1>7. PICK b \in 0..1, d \in 0..1 :
        /\ wallet' = [all |-> wallet.all + 1, bought |-> wallet.bought + b,
                      discounted |-> wallet.discounted + d]
        /\ d <= b /\ (x.discount > 0 <=> d = 1)
  <2>1. PICK b \in 0..1, d \in 0..1 : b = (IF x.due > 0 THEN 1 ELSE 0) /\ d = (IF x.discount > 0 THEN 1 ELSE 0)
    OBVIOUS
  <2>2. wallet' = [all |-> wallet.all + 1, bought |-> wallet.bought + b, discounted |-> wallet.discounted + d]
    BY <1>1, <2>1 DEF Access!PayFromWallet, Access!Bought
  <2>3. d <= b
    BY <1>2, <1>3, <2>1 DEF TermsFit
  <2> QED BY <2>1, <2>2, <2>3
<1>8. DaysShape'
  <2>1. tariff' # NoTariff /\ tariff' \in Tariff
    BY <1>0, <1>2, FulfillIs DEF Tariff, TermsFit, Access!ConstantsFit
  <2>2. \A p \in Orders : order'[p].st # "none" => TermsFit(order'[p].terms)
    BY <1>0, <1>5 DEF DaysShape
  <2>3. wallet' \in [all : Nat, bought : Nat, discounted : Nat]
        /\ wallet'.discounted <= wallet'.bought /\ wallet'.bought <= wallet'.all
    BY <1>0, <1>7 DEF DaysShape
  <2> QED BY <1>0, <1>2, <1>4, <2>1, <2>2, <2>3, FulfillIs DEF DaysShape
<1>9. OnceInv'
  <2>1. SUFFICES ASSUME ~misfit'
                 PROVE  IsFiniteSet(Discounted(order')) /\ Cardinality(Discounted(order')) + wallet'.discounted <= 1
    BY DEF OnceInv
  <2>2. ~misfit
    BY <1>0, <1>2, <2>1, FulfillIs
  <2>3. Discounted(order') = Discounted(order)
    BY <1>5 DEF Discounted
  <2>4. CASE x.discount > 0
    <3>1. Discounted(order) = {} /\ wallet.discounted = 0
      BY <1>0, <1>1, <2>4, TermsAre, FirstDiscount
    <3>2. wallet'.discounted <= 1 /\ wallet'.discounted \in Nat
      BY <1>7, <3>1
    <3> QED BY <2>3, <3>1, <3>2, FS_EmptySet
  <2>5. CASE ~(x.discount > 0)
    <3>1. wallet'.discounted = wallet.discounted
      BY <1>0, <1>7, <2>5 DEF DaysShape
    <3> QED BY <2>2, <2>3, <3>1 DEF OnceInv, DaysInv
  <2> QED BY <2>4, <2>5
<1> QED BY <1>6, <1>8, <1>9 DEF DaysInv

\* What only adds orders that are not paid yet, or lets time pass.
LEMMA RestsIs ==
    ASSUME DaysInv, end' = end, tariff' = tariff, paid' = paid, rounded' = rounded,
           misfit' = misfit, wallet' = wallet, day' \in Nat, day <= day', Access!ConstantsFit,
           \A p \in Orders : IF order[p].st = "paid" THEN order'[p] = order[p] ELSE order'[p].st # "paid"
    PROVE  SumInv' /\ WorthInv' /\ OnceInv'
<1>0. DaysShape /\ SumInv /\ WorthInv /\ OnceInv
  BY DEF DaysInv
<1>1. Settled(order') = Settled(order) /\ Open(order') = Open(order)
  BY DEF Settled, Open
<1>2. Foreign(order', tariff') = Foreign(order, tariff) /\ Discounted(order') = Discounted(order)
  BY DEF Settled, Open, Foreign, Discounted
<1>3. \A S : S \subseteq Settled(order) => Coins(order', S) = Coins(order, S)
  BY DEF Settled, Coins, Amount
<1>4. /\ Coins(order', Settled(order')) = Coins(order, Settled(order))
      /\ Coins(order', Open(order')) = Coins(order, Open(order))
      /\ Coins(order', Foreign(order', tariff')) = Coins(order, Foreign(order, tariff))
  <2>1. Open(order) \subseteq Settled(order) /\ Foreign(order, tariff) \subseteq Settled(order)
    BY DEF Open, Foreign
  <2> QED BY <1>1, <1>2, <1>3, <2>1
<1>5. /\ Sum(order', Settled(order')) = Sum(order, Settled(order))
      /\ Sum(order', Open(order')) = Sum(order, Open(order))
      /\ Sum(order', Foreign(order', tariff')) = Sum(order, Foreign(order, tariff))
  BY <1>4 DEF Sum
<1>6. SumInv'
  BY <1>0, <1>4, <1>5 DEF SumInv
<1>7. OnceInv'
  BY <1>0, <1>2 DEF OnceInv
<1>8. ASSUME ~misfit' PROVE WorthInv'
  <2>1. PICK G \in Nat, F \in Nat : G = Sum(order, Open(order)) /\ F = Sum(order, Foreign(order, tariff))
    BY <1>0, SumsAre
  <2>2. day \in Nat /\ end \in Nat /\ paid \in Nat /\ rounded \in Nat
    BY <1>0 DEF DaysShape
  <2>3. end > day' => Worth(end - day', tariff, paid - F, rounded)
    <3>1. end > day' => tariff \in Tariffs
      BY <1>0 DEF DaysShape, Tariff
    <3>2. end > day' => Worth(end - day, tariff, paid - F, rounded)
      BY <1>0, <1>8, <2>1, <2>2 DEF WorthInv
    <3> QED BY <2>1, <2>2, <3>1, <3>2, WorthMore
  <2>4. ASSUME NEW q \in Open(order'), order'[q].terms.change
        PROVE  /\ order'[q].tariff \in Tariffs
               /\ order'[q].end > day' => Worth(order'[q].end - day', order'[q].tariff, paid - G, rounded)
    <3>1. q \in Open(order) /\ q \in Orders /\ order'[q] = order[q]
      BY <1>1, <2>4 DEF Open, Settled
    <3>2. /\ order[q].tariff \in Tariffs /\ order[q].end \in Nat
          /\ order[q].end > day => Worth(order[q].end - day, order[q].tariff, paid - G, rounded)
      BY <1>0, <1>8, <2>1, <2>4, <3>1 DEF WorthInv, DaysShape, OrderSet
    <3> QED BY <2>1, <2>2, <3>1, <3>2, WorthMore
  <2> QED BY <1>5, <2>1, <2>3, <2>4 DEF WorthInv
<1> QED BY <1>6, <1>7, <1>8 DEF WorthInv

LEMMA CreateStep ==
    ASSUME Access!ConstantsFit, DaysInv, NEW o \in Orders, NEW t \in Tariffs, Access!CreateOrder(o, t)
    PROVE  DaysInv'
<1>0. DaysShape
  BY DEF DaysInv
<1>1. PICK x : x = Access!OrderTerms(t) /\ TermsFit(x)
  BY <1>0, TermsAre
<1>2. PICK n, no : /\ no = FALSE
                   /\ n = [st |-> "pending", terms |-> x, end |-> 0, tariff |-> NoTariff, over |-> no]
  OBVIOUS
<1>3. order' = [order EXCEPT ![o] = n]
  <2>1. PICK u : u = [Access!NoOrder EXCEPT !.st = "pending"]
    OBVIOUS
  <2>2. u = [st |-> "pending", terms |-> Access!NoTerms, end |-> 0, tariff |-> NoTariff, over |-> no]
    BY <1>2, <2>1 DEF Access!NoOrder
  <2>3. [u EXCEPT !.terms = x] = n
    BY <1>2, <2>2
  <2>4. [Access!NoOrder EXCEPT !.st = "pending", !.terms = x] = n
    BY <2>1, <2>3
  <2> QED BY <1>1, <2>4 DEF Access!CreateOrder
<1>4. n \in OrderSet /\ order[o].st = "none"
  BY <1>1, <1>2 DEF OrderSet, TermsFit, Tariff, Access!CreateOrder
<1>5. order' \in [Orders -> OrderSet] /\ order'[o] = n /\ \A p \in Orders \ {o} : order'[p] = order[p]
  BY <1>0, <1>3, <1>4 DEF DaysShape
<1>6. \A p \in Orders : IF order[p].st = "paid" THEN order'[p] = order[p] ELSE order'[p].st # "paid"
  BY <1>2, <1>4, <1>5
<1>7. /\ end' = end /\ tariff' = tariff /\ paid' = paid /\ rounded' = rounded /\ misfit' = misfit
      /\ wallet' = wallet /\ day' = day
  BY DEF Access!CreateOrder
<1>8. SumInv' /\ WorthInv' /\ OnceInv'
  <2>1. day' \in Nat /\ day <= day'
    BY <1>0, <1>7 DEF DaysShape
  <2> QED BY <1>6, <1>7, <2>1, RestsIs
<1>9. DaysShape'
  <2>1. Settled(order') = Settled(order)
    BY <1>2, <1>4, <1>5 DEF Settled
  <2>2. \A p \in Orders : order'[p].st # "none" => TermsFit(order'[p].terms)
    BY <1>0, <1>1, <1>2, <1>5 DEF DaysShape
  <2> QED BY <1>0, <1>5, <1>7, <2>1, <2>2 DEF DaysShape
<1> QED BY <1>8, <1>9 DEF DaysInv

LEMMA TimeStep ==
    ASSUME Access!ConstantsFit, DaysInv, Access!TimePasses
    PROVE  DaysInv'
<1>0. DaysShape
  BY DEF DaysInv
<1>1. /\ end' = end /\ tariff' = tariff /\ paid' = paid /\ rounded' = rounded /\ misfit' = misfit
      /\ wallet' = wallet /\ order' = order /\ day' \in 0..MaxDay /\ day <= day'
  BY <1>0 DEF Access!TimePasses, DaysShape, Access!ConstantsFit
<1>2. day' \in Nat
  BY <1>1
<1>3. SumInv' /\ WorthInv' /\ OnceInv'
  BY <1>1, <1>2, RestsIs
<1>4. DaysShape'
  BY <1>0, <1>1 DEF DaysShape
<1> QED BY <1>3, <1>4 DEF DaysInv

\* revoke_order: what was paid for the days that go, or what a change met.
LEMMA RefundStep ==
    ASSUME Access!ConstantsFit, DaysInv, NEW o \in Orders, Access!Refund(o)
    PROVE  DaysInv'
<1>0. DaysShape /\ SumInv /\ WorthInv /\ OnceInv
  BY DEF DaysInv
<1>1. PICK x : x = order[o].terms /\ TermsFit(x)
  BY <1>0 DEF DaysShape, Access!Refund
<1>2. PICK a \in Nat : a = x.due + x.discount /\ x.due \in Nat /\ x.discount \in Nat /\ x.days \in Nat
  BY <1>1 DEF TermsFit, TermSet
<1>3. order[o].st = "paid" /\ order[o] \in OrderSet /\ tariff \in Tariffs
  BY <1>0 DEF Access!Refund, DaysShape, Settled, Tariff
<1>4. order' \in [Orders -> OrderSet] /\ \A p \in Orders :
         /\ order'[p].st = (IF p = o THEN "refunded" ELSE order[p].st) /\ order'[p].terms = order[p].terms
         /\ order'[p].end = order[p].end /\ order'[p].tariff = order[p].tariff
         /\ order'[p].over = order[p].over
  <2>1. PICK r \in OrderSet : r = order[o]
    BY <1>3
  <2>2. order' = [order EXCEPT ![o] = [r EXCEPT !.st = "refunded"]]
    BY <2>1 DEF Access!Refund
  <2>3. [r EXCEPT !.st = "refunded"]
          = [st |-> "refunded", terms |-> r.terms, end |-> r.end, tariff |-> r.tariff, over |-> r.over]
    BY DEF OrderSet
  <2>4. PICK n \in OrderSet : /\ n = [r EXCEPT !.st = "refunded"] /\ n.st = "refunded" /\ n.terms = r.terms
                              /\ n.end = r.end /\ n.tariff = r.tariff /\ n.over = r.over
    BY <2>3 DEF OrderSet
  <2> QED BY <1>0, <2>1, <2>2, <2>4 DEF DaysShape
<1>5. /\ day' = day /\ wallet' = wallet /\ rounded' = rounded /\ end' = Access!EndRefunded(o)
      /\ tariff' = IF x.change /\ order[o].tariff # NoTariff THEN order[o].tariff ELSE tariff
      /\ paid' = paid - x.due - x.discount
  BY <1>1 DEF Access!Refund
<1>6. misfit' \in BOOLEAN /\ (~misfit' => ~misfit /\ ~order[o].over)
  BY Zenon DEF Access!Refund
<1>7. /\ day \in Nat /\ end \in Nat /\ paid \in Nat /\ rounded \in Nat /\ order[o].end \in Nat
      /\ order[o].tariff \in Tariff /\ Day \in Nat /\ x.days * Day \in Nat
  BY <1>0, <1>2, <1>3 DEF DaysShape, OrderSet, Access!ConstantsFit
<1>8. Settled(order') = Settled(order) \ {o} /\ o \in Settled(order) /\ Open(order') = Open(order) \ {o}
  BY <1>3, <1>4 DEF Settled, Open
<1>9. \A S : Coins(order', S) = Coins(order, S)
  BY <1>4 DEF Coins, Amount
<1>10. \A S : Sum(order', S) = Sum(order, S)
  BY <1>9 DEF Sum
<1>11. ASSUME NEW S, IsFiniteSet(Coins(order, S)), o \in S
       PROVE  /\ IsFiniteSet(Coins(order, S \ {o})) /\ Sum(order, S \ {o}) \in Nat
              /\ Sum(order, S) = Sum(order, S \ {o}) + a
  <2>1. PICK T : T = S \ {o}
    OBVIOUS
  <2>2. T \cup {o} = S /\ o \notin T /\ T \subseteq S
    BY <1>11, <2>1
  <2>3. IsFiniteSet(Coins(order, T)) /\ Sum(order, T) \in Nat
    BY <1>11, <2>2, SumLess
  <2>4. Sum(order, T \cup {o}) = Sum(order, T) + a
    BY <1>1, <1>2, <2>2, <2>3, SumAdds DEF Amount
  <2>5. Sum(order, T \cup {o}) = Sum(order, S)
    BY <2>2, Zenon
  <2> QED BY <2>1, <2>3, <2>4, <2>5
<1>12. PICK A \in Nat : A = Sum(order', Settled(order')) /\ A + a <= paid /\ IsFiniteSet(Coins(order', Settled(order')))
  <2>1. Sum(order, Settled(order) \ {o}) \in Nat /\ Sum(order, Settled(order) \ {o}) + a <= paid
        /\ IsFiniteSet(Coins(order, Settled(order) \ {o}))
    BY <1>0, <1>8, <1>11 DEF SumInv
  <2> QED BY <1>8, <1>9, <1>10, <2>1
<1>13. PICK p \in Nat : p = paid' /\ paid = p + a /\ A <= p
  <2>1. paid' = paid - a
    BY <1>2, <1>5, <1>7
  <2> QED BY <1>7, <1>12, <2>1
<1>14. SumInv'
  BY <1>12, <1>13 DEF SumInv
<1>15. end' \in Nat /\ tariff' \in Tariffs
  <2>1. tariff' \in Tariffs
    BY <1>3, <1>5, <1>7 DEF Tariff
  <2>2. end' \in Nat
    <3>1. PICK g \in Nat : g = x.days * Day
      BY <1>7
    <3>2. end' = IF x.change THEN order[o].end ELSE IF end - g <= day THEN 0 ELSE end - g
      BY <1>1, <1>5, <3>1 DEF Access!EndRefunded
    <3> QED BY <1>7, <3>1, <3>2
  <2> QED BY <2>1, <2>2
<1>16. DaysShape'
  <2>1. \A q \in Orders : order'[q].st # "none" => TermsFit(order'[q].terms)
    BY <1>0, <1>1, <1>4 DEF DaysShape
  <2>2. tariff' # NoTariff /\ tariff' \in Tariff /\ day' \in 0..MaxDay /\ paid' \in Nat
    BY <1>0, <1>5, <1>13, <1>15 DEF Tariff, Access!ConstantsFit, DaysShape
  <2> QED BY <1>0, <1>4, <1>5, <1>6, <1>15, <2>1, <2>2 DEF DaysShape
<1>17. OnceInv'
  <2>1. SUFFICES ASSUME ~misfit'
                 PROVE  IsFiniteSet(Discounted(order')) /\ Cardinality(Discounted(order')) + wallet.discounted <= 1
    BY <1>5 DEF OnceInv
  <2>2. IsFiniteSet(Discounted(order)) /\ Cardinality(Discounted(order)) + wallet.discounted <= 1
    BY <1>0, <1>6, <2>1 DEF OnceInv
  <2>3. Discounted(order') \subseteq Discounted(order)
    BY <1>4 DEF Discounted
  <2>4. /\ IsFiniteSet(Discounted(order')) /\ Cardinality(Discounted(order')) <= Cardinality(Discounted(order))
        /\ Cardinality(Discounted(order')) \in Nat /\ Cardinality(Discounted(order)) \in Nat
    BY <2>2, <2>3, FS_Subset, FS_CardinalityType
  <2>5. wallet.discounted \in Nat
    BY <1>0 DEF DaysShape
  <2> QED BY <2>2, <2>4, <2>5
<1>18. ASSUME ~misfit' PROVE WorthInv'
  <2>1. ~misfit /\ o \in Open(order)
    BY <1>3, <1>6, <1>18 DEF Open, Settled
  <2>2. PICK G \in Nat : G = Sum(order', Open(order')) /\ Sum(order, Open(order)) = G + a
    BY <1>0, <1>8, <1>10, <1>11, <2>1, SumsAre
  <2>3. PICK F \in Nat : F = Sum(order', Foreign(order', tariff')) /\ F <= G /\ F <= A
    <3>1. Foreign(order', tariff') \subseteq Open(order') /\ Foreign(order', tariff') \subseteq Settled(order')
      BY DEF Foreign, Open
    <3>2. IsFiniteSet(Coins(order', Open(order')))
      <4>1. Open(order') \subseteq Settled(order')
        BY DEF Open
      <4> QED BY <1>12, <4>1, SumLess
    <3> QED BY <1>12, <2>2, <3>1, <3>2, SumLess
  <2>4. paid - (G + a) = p - G
    BY <1>13
  <2>5. ASSUME end' > day PROVE Worth(end' - day, tariff', p - F, rounded)
    <3>1. CASE x.change
      <4>1. end' = order[o].end /\ order[o].tariff \in Tariffs /\ tariff' = order[o].tariff
        BY <1>0, <1>1, <1>5, <2>1, <3>1 DEF WorthInv, Access!EndRefunded, Access!ConstantsFit
      <4>2. Worth(order[o].end - day, order[o].tariff, paid - Sum(order, Open(order)), rounded)
        BY <1>0, <1>1, <2>1, <2>5, <3>1, <4>1 DEF WorthInv
      <4>3. Worth(end' - day, tariff', p - G, rounded)
        BY <2>2, <2>4, <4>1, <4>2
      <4> QED BY <1>7, <1>15, <2>3, <2>5, <4>3, WorthMore
    <3>2. CASE ~x.change
      <4>1. PICK g \in Nat : g = x.days * Day /\ end' = end - g /\ end > day /\ tariff' = tariff
        <5>1. PICK g \in Nat : g = x.days * Day
          BY <1>7
        <5>2. end' = IF end - g <= day THEN 0 ELSE end - g
          BY <1>1, <1>5, <3>2, <5>1 DEF Access!EndRefunded
        <5> QED BY <1>5, <1>7, <2>5, <3>2, <5>1, <5>2
      <4>2. PICK H \in Nat : H = Sum(order, Foreign(order, tariff)) /\ IsFiniteSet(Coins(order, Foreign(order, tariff)))
        <5>1. Foreign(order, tariff) \subseteq Open(order)
          BY DEF Foreign
        <5> QED BY <1>0, <5>1, SumsAre, SumLess
      <4>3. Worth(end - day, tariff, paid - H, rounded)
        BY <1>0, <2>1, <4>1, <4>2 DEF WorthInv
      <4>4. CASE x.tariff # tariff
        <5>1. o \in Foreign(order, tariff) /\ Foreign(order', tariff') = Foreign(order, tariff) \ {o}
          BY <1>1, <1>4, <1>8, <2>1, <4>1, <4>4 DEF Foreign, Open, Settled
        <5>2. H = F + a
          BY <1>10, <1>11, <2>3, <4>2, <5>1
        <5>3. p - F = paid - H /\ p - F \in Int
          BY <1>13, <5>2
        <5>4. PICK n \in Nat, m \in Nat, b \in Int : n = end - day /\ m = end' - day /\ m <= n /\ b = p - F
          <6>1. PICK e, f, d : e = end' /\ f = end /\ d = day
            OBVIOUS
          <6>2. e \in Nat /\ f \in Nat /\ d \in Nat /\ d < e /\ e <= f
            BY <1>7, <1>15, <2>5, <4>1, <6>1
          <6>3. e - d \in Nat /\ f - d \in Nat /\ e - d <= f - d
            BY <6>2
          <6> QED BY <5>3, <6>1, <6>3
        <5>5. Worth(n, tariff, b, rounded)
          BY <4>3, <5>3, <5>4
        <5>6. Worth(m, tariff, b, rounded)
          BY <1>3, <1>7, <5>4, <5>5, WorthMore
        <5> QED BY <4>1, <5>4, <5>6
      <4>5. CASE x.tariff = tariff
        <5>1. Foreign(order', tariff') = Foreign(order, tariff)
          BY <1>1, <1>4, <1>8, <4>1, <4>5 DEF Foreign, Open, Settled
        <5>2. F = H
          BY <1>10, <2>3, <4>2, <5>1
        <5>3. PICK R \in Nat, K \in Nat : R = Access!Rate(tariff) /\ K = Day * Scale
          BY <1>3, RateIs DEF Access!ConstantsFit
        <5>4. g * R = K * a
          <6>1. PICK N \in Nat, P \in Nat : N = Days[tariff] /\ P = Price[tariff] /\ N * R = P * Scale
            BY <1>3, <5>3, RateIs
          <6>2. x.days = N /\ a = P
            BY <1>1, <1>2, <3>2, <4>5, <6>1 DEF TermsFit
          <6>3. (N * Day) * R = Day * (N * R) /\ Day * (P * Scale) = (Day * Scale) * P
            BY <1>7, <5>3, <6>1 DEF Access!ConstantsFit
          <6>4. g = N * Day
            BY <4>1, <6>2
          <6>5. g * R = Day * (N * R) /\ K * a = (Day * Scale) * P
            BY <5>3, <6>2, <6>3, <6>4
          <6> QED BY <6>1, <6>3, <6>5
        <5>5. PICK n \in Nat, q \in Int : n = end' - day /\ q = p - F
          <6>1. PICK e, d : e = end' /\ d = day
            OBVIOUS
          <6>2. e \in Nat /\ d \in Nat /\ d < e
            BY <1>7, <1>15, <2>5, <6>1
          <6>3. e - d \in Nat
            BY <6>2
          <6>4. p - F \in Int
            OBVIOUS
          <6> QED BY <6>1, <6>3, <6>4
        <5>6. end - day = n + g /\ paid - H = q + a
          BY <1>7, <1>13, <4>1, <5>2, <5>5
        <5>7. 2 * ((n + g) * R) <= 2 * (K * (q + a)) + rounded
          BY <4>3, <5>3, <5>6 DEF Worth
        <5>8. (n + g) * R = n * R + g * R /\ K * (q + a) = K * q + K * a
          BY <5>3
        <5>9. n * R \in Nat /\ K * q \in Int /\ K * a \in Nat
          BY <5>3
        <5>10. 2 * (n * R) <= 2 * (K * q) + rounded
          BY <1>7, <5>4, <5>7, <5>8, <5>9
        <5> QED BY <4>1, <5>3, <5>5, <5>10 DEF Worth
      <4> QED BY <4>4, <4>5
    <3> QED BY <3>1, <3>2
  <2>6. ASSUME NEW q \in Open(order'), order'[q].terms.change
        PROVE  /\ order'[q].tariff \in Tariffs
               /\ order'[q].end > day => Worth(order'[q].end - day, order'[q].tariff, p - G, rounded)
    <3>1. /\ q \in Open(order) /\ order[q].terms.change
          /\ order'[q].tariff = order[q].tariff /\ order'[q].end = order[q].end
      BY <1>4, <1>8, <2>6 DEF Open, Settled
    <3>2. /\ order[q].tariff \in Tariffs
          /\ order[q].end > day => Worth(order[q].end - day, order[q].tariff, paid - Sum(order, Open(order)), rounded)
      BY <1>0, <2>1, <3>1 DEF WorthInv
    <3> QED BY <2>2, <2>4, <3>1, <3>2
  <2> QED BY <1>5, <1>13, <2>2, <2>3, <2>5, <2>6 DEF WorthInv
<1> QED BY <1>14, <1>16, <1>17, <1>18 DEF DaysInv, WorthInv

LEMMA DaysStart == ASSUME Access!ConstantsFit, Access!Init PROVE DaysInv
<1>1. order = [o \in Orders |-> Access!NoOrder] /\ Access!NoOrder.st = "none"
  BY DEF Access!Init, Access!NoOrder
<1>2. Settled(order) = {} /\ Discounted(order) = {} /\ Open(order) = {}
  BY <1>1 DEF Settled, Discounted, Open
<1>3. Access!NoOrder \in OrderSet
  <2>1. Access!NoTerms \in TermSet
    BY DEF Access!NoTerms, TermSet, Tariff
  <2> QED BY <2>1 DEF Access!NoOrder, OrderSet, Tariff
<1>4. DaysShape
  <2>1. /\ day = 0 /\ end = 0 /\ tariff = NoTariff /\ paid = 0 /\ rounded = 0 /\ misfit = FALSE
        /\ wallet = [all |-> 0, bought |-> 0, discounted |-> 0] /\ MaxDay \in Nat
    BY DEF Access!Init, Access!ConstantsFit
  <2>2. order \in [Orders -> OrderSet] /\ \A o \in Orders : order[o].st = "none"
    BY <1>1, <1>3
  <2>3. misfit \in BOOLEAN
    BY <2>1, Zenon
  <2> QED BY <1>2, <2>1, <2>2, <2>3 DEF DaysShape, Tariff
<1>5. SumInv
  <2>1. paid = 0
    BY DEF Access!Init
  <2> QED BY <1>2, <2>1, NothingSums DEF SumInv
<1>6. WorthInv
  BY <1>2 DEF WorthInv, Access!Init
<1>7. OnceInv
  <2>1. wallet.discounted = 0
    BY DEF Access!Init
  <2> QED BY <1>2, <2>1, FS_EmptySet DEF OnceInv
<1> QED BY <1>4, <1>5, <1>6, <1>7 DEF DaysInv

LEMMA DaysKept ==
    ASSUME Access!ConstantsFit, DaysInv, [Access!Next]_Access!vars
    PROVE  DaysInv'
<1>1. CASE Access!Next
  BY <1>1, WalletStep, CreateStep, SettleStep, RefundStep, TimeStep DEF Access!Next
<1>2. CASE UNCHANGED Access!vars
  <2>1. /\ day' = day /\ end' = end /\ tariff' = tariff /\ order' = order /\ wallet' = wallet
        /\ paid' = paid /\ rounded' = rounded /\ misfit' = misfit
    BY <1>2 DEF Access!vars
  <2> QED BY <2>1 DEF DaysInv, DaysShape, SumInv, WorthInv, OnceInv
<1> QED BY <1>1, <1>2

LEMMA DaysMean ==
    ASSUME Access!ConstantsFit, DaysInv
    PROVE  DaysArePaid
<1>0. DaysShape
  BY DEF DaysInv
<1>1. Access!TypeOK
  BY <1>0 DEF DaysShape, OrderSet, Access!TypeOK, Tariff
<1>2. Access!AccessIsPaid
  <2>1. SUFFICES ASSUME ~misfit, Access!Active
                 PROVE  2 * Access!Left * Access!Rate(tariff) <= 2 * Day * Scale * paid + rounded
    BY DEF Access!AccessIsPaid
  <2>2. end > day /\ tariff \in Tariffs /\ Access!Left = end - day /\ Access!Left \in Nat
    BY <1>0, <2>1, LeftIs
  <2>3. PICK F \in Nat : F = Sum(order, Foreign(order, tariff))
    BY <1>0, SumsAre DEF DaysInv
  <2>4. Worth(end - day, tariff, paid - F, rounded)
    BY <2>1, <2>2, <2>3 DEF DaysInv, WorthInv
  <2>5. paid \in Nat /\ rounded \in Nat
    BY <1>0 DEF DaysShape
  <2>6. Worth(end - day, tariff, paid, rounded)
    BY <2>2, <2>3, <2>4, <2>5, WorthMore
  <2>7. PICK L \in Nat, R \in Nat : L = Access!Left /\ R = Access!Rate(tariff)
    BY <2>2, RateIs
  <2>8. 2 * (L * R) <= 2 * ((Day * Scale) * paid) + rounded
    BY <2>2, <2>6, <2>7 DEF Worth
  <2>9. 2 * L * R = 2 * (L * R) /\ 2 * Day * Scale * paid = 2 * ((Day * Scale) * paid)
    BY <2>5, <2>7 DEF Access!ConstantsFit
  <2> QED BY <2>7, <2>8, <2>9
<1>3. Access!DiscountOnce
  <2>1. \A S : Access!Cardinality(S) = Cardinality(S)
    BY DEF Access!Cardinality, Cardinality
  <2> QED BY <2>1 DEF DaysInv, OnceInv, Discounted, Access!DiscountOnce
<1>4. Access!ChangeIsFair
  <2>1. SUFFICES ASSUME NEW t \in Tariffs, NEW x, x = Access!OrderTerms(t), x.change
                 PROVE  2 * x.days * Day * Access!Rate(t) + Day * Scale + Day * Access!Rate(t)
                          >= 2 * Access!Left * Access!Rate(tariff) + 2 * Day * Scale * x.due
    BY DEF Access!ChangeIsFair
  <2>2. PICK c : c = Access!TariffChange(tariff, t)
    OBVIOUS
  <2>3. tariff \in Tariffs /\ x.due = c.due /\ x.days = c.days
    BY <1>0, <2>1, <2>2, TermsAre
  <2>4. PICK u \in Nat, n \in Nat, A \in Nat, R \in Nat, D \in Nat, L \in Nat :
          /\ u = x.due /\ n = x.days /\ A = Access!Rate(tariff) /\ R = Access!Rate(t)
          /\ D = Access!DaysLeft /\ L = Access!Left /\ L <= Day * D
    BY <1>0, <2>2, <2>3, ChangeIs, RateIs, LeftIs
  <2>5. 2 * (D * A) + 2 * (Scale * u) <= 2 * (n * R) + Scale + R
    <3>1. 2 * (D * A) + 2 * (Scale * c.due) <= 2 * (c.days * R) + Scale + R
      BY <1>0, <2>2, <2>3, <2>4, ChangeIs
    <3> QED BY <2>3, <2>4, <3>1
  <2>6. Day \in Nat /\ Scale \in Nat
    BY DEF Access!ConstantsFit
  <2>7. Day * (2 * (D * A) + 2 * (Scale * u)) <= Day * (2 * (n * R) + Scale + R)
    <3>1. D * A \in Nat /\ Scale * u \in Nat /\ n * R \in Nat
      BY <2>6
    <3> QED BY <2>4, <2>5, <2>6, <3>1, Scales
  <2>8. A * L <= A * (Day * D)
    <3>1. Day * D \in Nat
      BY <2>6
    <3> QED BY <2>4, <3>1, Scales
  <2>9. Day * (2 * (D * A) + 2 * (Scale * u)) = 2 * (A * (Day * D)) + 2 * Day * Scale * u
    BY <2>6
  <2>10. Day * (2 * (n * R) + Scale + R) = 2 * n * Day * R + Day * Scale + Day * R
    BY <2>6
  <2>11. 2 * L * A = 2 * (A * L)
    OBVIOUS
  <2>12. PICK l \in Nat, h \in Nat, v \in Nat, w \in Nat : l = A * L /\ h = A * (Day * D)
            /\ v = 2 * Day * Scale * u /\ w = 2 * n * Day * R + Day * Scale + Day * R
    BY <2>6
  <2>13. w >= 2 * l + v
    BY <2>7, <2>8, <2>9, <2>10, <2>12
  <2>14. 2 * n * Day * R + Day * Scale + Day * R >= 2 * L * A + 2 * Day * Scale * u
    BY <2>11, <2>12, <2>13
  <2> QED BY <2>4, <2>14
<1> QED BY <1>1, <1>2, <1>3, <1>4 DEF DaysArePaid

\* PaidAccess: for any tariffs, prices, orders and times, the access that is left
\* is paid for, a change of tariff is fair, and the welcome discount is given
\* once, until an order is paid or refunded whose terms no longer fit.
THEOREM AccessPaid ==
    ASSUME Access!ConstantsFit
    PROVE  Access!Spec => []DaysArePaid
<1>1. Access!Init => DaysInv  BY DaysStart
<1>2. DaysInv /\ [Access!Next]_Access!vars => DaysInv'  BY DaysKept
<1>3. DaysInv => DaysArePaid  BY DaysMean
<1> QED BY <1>1, <1>2, <1>3, PTL DEF Access!Spec
=============================================================================
