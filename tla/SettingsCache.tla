---------------------------- MODULE SettingsCache ---------------------------
(***************************************************************************)
(* One row of system_settings and the process-wide cache before it.  A     *)
(* writer flushes its value, drops the cached one, and commits later, some *)
(* of them only after they have talked to Telegram; a reader that finds    *)
(* nothing cached reads the committed row and then caches it.              *)
(***************************************************************************)
EXTENDS Naturals

CONSTANTS
    Values,   \* values of the setting
    Default,  \* the one a reset writes
    Writers, Readers,
    TTL,      \* CACHE_TTL_SECONDS
    MaxNow,   \* bound on the clock
    MaxWrites, \* and on the writes
    Idle

ASSUME ConstantsFit ==
    /\ Default \in Values /\ Idle \notin Values /\ Idle \notin Nat
    /\ TTL \in Nat /\ MaxNow \in Nat /\ MaxWrites \in Nat

VARIABLES
    value,  \* the committed row
    tx,     \* per writer: the value it has flushed
    cache,  \* the cached value and the time of the read it comes from
    reader, \* per reader: a miss under way
    now,
    until,  \* history: when a value was last replaced in the row
    hit,    \* history: what the cache served last
    writes  \* writes so far

vars == <<value, tx, cache, reader, now, until, hit, writes>>

Nothing == [val |-> Idle, at |-> 0]
Valid == cache # Nothing /\ now < cache.at + TTL

-----------------------------------------------------------------------------
\* get_system_setting.
Hit(r) ==
    /\ reader[r] = Idle /\ Valid
    /\ hit' = cache.val
    /\ UNCHANGED <<value, tx, cache, reader, now, until, writes>>

Misses(r) ==
    /\ reader[r] = Idle /\ ~Valid
    /\ reader' = [reader EXCEPT ![r] = [val |-> Idle, at |-> now]]
    /\ UNCHANGED <<value, tx, cache, now, until, hit, writes>>

Fetches(r) ==
    /\ reader[r] # Idle /\ reader[r].val = Idle
    /\ reader' = [reader EXCEPT ![r].val = value]
    /\ UNCHANGED <<value, tx, cache, now, until, hit, writes>>

\* Variant: the cached value is dated by the time it was stored.
StampedLate(r) == [val |-> reader[r].val, at |-> now]

Entry(r) == [val |-> reader[r].val, at |-> reader[r].at]

Stores(r) ==
    /\ reader[r] # Idle /\ reader[r].val # Idle
    /\ cache' = Entry(r)
    /\ reader' = [reader EXCEPT ![r] = Idle]
    /\ UNCHANGED <<value, tx, now, until, hit, writes>>

-----------------------------------------------------------------------------
\* Variant: the writer puts its value into the cache.
Stored(v) == [val |-> v, at |-> now]

\* What a write leaves in the cache.
Dropped(v) == Nothing

\* set_system_setting: the flush takes the row's lock.
Sets(w, v) ==
    /\ writes < MaxWrites /\ writes' = writes + 1
    /\ \A x \in Writers : tx[x] = Idle
    /\ tx' = [tx EXCEPT ![w] = v]
    /\ cache' = Dropped(v)
    /\ UNCHANGED <<value, reader, now, until, hit>>

\* process_std_incy_param_input and process_edit_mtproto: what was typed.
TypesStd(w) == \E v \in Values : Sets(w, v)
TypesMtproto(w) == \E v \in Values : Sets(w, v)

\* toggle_std_sub_incy_devices: another value than the one that was read.
ToggleDevices(w) ==
    LET shown == IF Valid THEN cache.val ELSE value
    IN  \E v \in Values \ {shown} : Sets(w, v)

\* reset_std_sub_incy_to_defaults.
ResetStd(w) == Sets(w, Default)

\* The commit, by the handler or by the session middleware at its end.
Commits(w) ==
    /\ tx[w] # Idle
    /\ value' = tx[w] /\ tx' = [tx EXCEPT ![w] = Idle]
    /\ until' = [until EXCEPT ![value] = now]
    /\ UNCHANGED <<cache, reader, now, hit, writes>>

RollsBack(w) ==
    /\ tx[w] # Idle /\ tx' = [tx EXCEPT ![w] = Idle]
    /\ UNCHANGED <<value, cache, reader, now, until, hit, writes>>

Tick == now < MaxNow /\ now' = now + 1 /\ UNCHANGED <<value, tx, cache, reader, until, hit, writes>>

Init ==
    /\ value = Default /\ tx = [w \in Writers |-> Idle] /\ cache = Nothing
    /\ reader = [r \in Readers |-> Idle] /\ now = 0 /\ until = [v \in Values |-> Idle]
    /\ hit = Default /\ writes = 0

Next ==
    \/ \E r \in Readers : Hit(r) \/ Misses(r) \/ Fetches(r) \/ Stores(r)
    \/ \E w \in Writers : TypesStd(w) \/ TypesMtproto(w) \/ ToggleDevices(w) \/ ResetStd(w)
                          \/ Commits(w) \/ RollsBack(w)
    \/ Tick

Spec == Init /\ [][Next]_vars

-----------------------------------------------------------------------------
\* A value that is rolled back is never served: what the cache holds was
\* committed, now or before.
NeverUncommitted == cache # Nothing => cache.val = value \/ until[cache.val] # Idle

\* A value is served for no longer than its time to live after it was
\* replaced, however long its reader was held up.
StaleForTTLOnly ==
    [][\A r \in Readers : Hit(r) => hit' = value \/ now <= until[hit'] + TTL]_vars
=============================================================================
