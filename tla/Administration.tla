----------------------------- MODULE Administration ----------------------------
(***************************************************************************)
(* What administrators do, in one state: the cards of one user             *)
(* (AdminAccess), the feed of one server (FeedSettings), extensions and    *)
(* bonuses for many (MassGrants), and messages to many (Broadcast).  An    *)
(* administrator is in one conversation at a time: its prompt is of one of *)
(* them.                                                                   *)
(***************************************************************************)
EXTENDS AdminAccess

CONSTANTS
    Staff,                                              \* the administrators, but for the cards
    Codes, Texts, Params,                               \* FeedSettings
    People, Audiences, ServerCaps, MaxDays, MaxAmount,  \* MassGrants
    ChunkSize, Runs,
    MaxUser, Rows, BatchSize                            \* Broadcast

VARIABLES
    extra, job, hid, dropped,                                                 \* FeedSettings
    person, click, busy, lock, run, chosen, begun,                            \* MassGrants
    up, member, progress, claim, owned, worker, launch, got, tried, dueAll, breaks, \* Broadcast
    prompt, faults                                                            \* of each of these

Feed == INSTANCE FeedSettings WITH Admins <- Staff, form <- prompt, events <- faults
Mass == INSTANCE MassGrants WITH
    Admins <- Staff, Users <- People, form <- prompt, talks <- begun, events <- faults
News == INSTANCE Broadcast WITH
    Admins <- Staff, user <- member, form <- prompt, row <- progress, due <- dueAll,
    events <- faults

-----------------------------------------------------------------------------
\* What an administrator has hidden stays out of the feed until it is shown
\* again or all is reset, and a badge that the card calls off is in no feed
\* (FeedSettings).
HiddenIsNotServed == hid # Idle => Feed!TypeOK /\ Feed!HiddenIsNotServed /\ Feed!OffIsOff

\* One conversation credits nobody twice, and an extension applies what was
\* picked in it (MassGrants).
GrantsAsTalked == begun # Idle => Mass!TypeOK /\ Mass!GrantsAsTalked

\* A completed broadcast has tried everyone who was in its audience all the
\* time, one task sends for an administrator, and a crash repeats at most the
\* message that was in flight (Broadcast).
CompletedReachedAll ==
    launch # Idle =>
      News!TypeOK /\ News!OneReplayPerCrash /\ News!CompletedReachedAll /\ News!OneTaskPerAdmin
=============================================================================
