---------------------------- MODULE StreakLedger ----------------------------
(***************************************************************************)
(* One user's streak: the user_stats row and the append-only streak_events *)
(* ledger, under the five operations that write them, each of which is one *)
(* database transaction:                                                   *)
(*   Submit          attempts/service.py, streak/service.py                *)
(*   Repair          streak/service.py repair_streak                       *)
(*   ChangeTimezone  users/service.py, jobs/streak_recon.py                *)
(*   OutageFreeze, GrantInitialFreezes   streak/service.py (operator)      *)
(* Here the transactions are atomic.                                       *)
(* The clock counts ticks, DAY_LENGTH of them to a day, and a timezone is  *)
(* an offset in ticks, so that two zones disagree on the date part of the  *)
(* time, as they do in the program.                                        *)
(* A definition marked "Fault" is a plausible mistake in the one after it, *)
(* which no action uses: the runs' properties are tried against it.        *)
(***************************************************************************)
EXTENDS Integers, FiniteSets

CONSTANTS
    FREEZE_START,  \* STREAK_FREEZE_START: balance a user_stats row is born with
    FREEZE_MAX,    \* STREAK_FREEZE_MAX: cap on accrual and on one gap
    EARN_EVERY,    \* STREAK_FREEZE_EARN_EVERY: milestone step, <= 0 disables
    REPAIR_WINDOW, \* STREAK_REPAIR_WINDOW_H, in ticks
    DAY_LENGTH,    \* ticks in a day
    Offsets,       \* the timezones the user may choose
    OutageDates,   \* local dates the operator may pass to the admin routes
    LEGACY,        \* TRUE: the account's row predates the freeze feature
    NoDate,        \* SQL NULL
    CLOCK_LIMIT,   \* bound on the clock
    ATTEMPT_LIMIT  \* bound on the number of submissions

ASSUME ConfigAssumption ==
    /\ FREEZE_START \in Nat /\ FREEZE_MAX \in Nat
    /\ EARN_EVERY \in Int
    /\ REPAIR_WINDOW \in Nat
    /\ LEGACY \in BOOLEAN

ASSUME TimeAssumption ==
    /\ DAY_LENGTH \in Nat \ {0}
    /\ Offsets \subseteq Int /\ Offsets # {}
    /\ OutageDates \subseteq Int
    /\ NoDate \notin Int

VARIABLES
    now,             \* the instant, in ticks
    tz,              \* users.timezone
    current_streak, longest_streak, last_active, streak_freezes,
    total_attempts,  \* the other columns of user_stats
    streak_events,   \* the ledger: a set of rows with a primary key
    next_id          \* the identity sequence of streak_events

stats == <<current_streak, longest_streak, last_active, streak_freezes, total_attempts>>
ledger == <<streak_events, next_id>>
vars == <<now, tz, stats, ledger>>

-----------------------------------------------------------------------------
LocalDate(zone) == (now + zone) \div DAY_LENGTH

Today == LocalDate(tz)

\* No user_stats row exists before the first submit, and a row is committed
\* only together with its first active day.
HasStats == last_active # NoDate

\* `ref` is the anchor the note of a repair carries, 0 elsewhere; `why` is
\* what the rest of the note tells apart.
Row(id, event, from, to, date, why, ref) ==
    [id |-> id, event |-> event, from_value |-> from, to_value |-> to,
     local_date |-> date, created_at |-> now, why |-> why, ref |-> ref]

Transitions == {r \in streak_events : r.event \in {"extended", "reset"}}

Resets == {r \in streak_events : r.event = "reset"}

\* uq_streak_events_one_transition_per_day: a second extended/reset row for a
\* date makes the whole transaction fail.
IndexAdmits(date) == \A r \in Transitions : r.local_date # date

Larger(a, b) == IF a >= b THEN a ELSE b
Smaller(a, b) == IF a <= b THEN a ELSE b

-----------------------------------------------------------------------------
\* Fault: the day before today is not seen as missed (an exclusive bound twice).
MissedDatesButYesterday == (last_active + 1) .. (Today - 2)

\* The gap between the last active day and today.
MissedDates == (last_active + 1) .. (Today - 1)

CoveredDates == {r.local_date : r \in {e \in streak_events : e.event = "freeze_used"}}

\* Fault: a day that is already covered is paid for again.
UncoveredUnchecked == MissedDates

Uncovered == MissedDates \ CoveredDates

\* Fault: the cap is applied and the balance is not.
GapCoveredByCap ==
    /\ MissedDates # {}
    /\ Cardinality(Uncovered) <= FREEZE_MAX

\* try_cover_gap: all or nothing; cap and balance apply to the remainder.
GapCovered ==
    /\ MissedDates # {}
    /\ Cardinality(Uncovered) <= Smaller(streak_freezes, FREEZE_MAX)

\* Fault: a frozen day is written as if it had been an active one.
FreezeRowsExtending(days) ==
    {Row(next_id + Cardinality({e \in days : e < d}), "freeze_used",
         current_streak, current_streak + 1, d, "paid", 0) : d \in days}

\* One row per day paid for, in date order.
FreezeRows(days) ==
    {Row(next_id + Cardinality({e \in days : e < d}), "freeze_used",
         current_streak, current_streak, d, "paid", 0) : d \in days}

\* Fault: a milestone at the cap still grants.
EarnsFreezeUncapped(value, balance) == EARN_EVERY > 0 /\ value > 0 /\ value % EARN_EVERY = 0

EarnsFreeze(value, balance) ==
    /\ EARN_EVERY > 0
    /\ value > 0
    /\ value % EARN_EVERY = 0
    /\ balance < FREEZE_MAX

\* The transition of the day: `paid` days are bought, the day's row is added,
\* and an extension that reaches a milestone earns a freeze.
CountToday(event, value, paid) ==
    LET balance == streak_freezes - Cardinality(paid)
        id      == next_id + Cardinality(paid)
        earns   == event = "extended" /\ EarnsFreeze(value, balance)
    IN  /\ IndexAdmits(Today)
        /\ current_streak' = value
        /\ longest_streak' = Larger(longest_streak, value)
        /\ last_active' = Today
        /\ streak_freezes' = IF earns THEN balance + 1 ELSE balance
        /\ streak_events' = streak_events \cup FreezeRows(paid)
               \cup {Row(id, event, current_streak, value, Today, "submit", 0)}
               \cup IF earns THEN {Row(id + 1, "adjusted", value, value, Today, "earned", 0)}
                             ELSE {}
        /\ next_id' = IF earns THEN id + 2 ELSE id + 1

AttemptCounted ==
    /\ total_attempts < ATTEMPT_LIMIT
    /\ total_attempts' = total_attempts + 1
    /\ UNCHANGED <<now, tz>>

SubmitAgainToday ==
    /\ last_active = Today
    /\ AttemptCounted
    /\ UNCHANGED <<current_streak, longest_streak, last_active, streak_freezes, ledger>>

SubmitNextDay ==
    /\ ~HasStats \/ last_active = Today - 1
    /\ AttemptCounted
    /\ CountToday("extended", current_streak + 1, {})

SubmitAfterCoveredGap ==
    /\ HasStats /\ last_active \notin {Today, Today - 1}
    /\ GapCovered
    /\ AttemptCounted
    /\ CountToday("extended", current_streak + 1, Uncovered)

\* Fault: every day but today itself goes to the gap branch.
SubmitAfterAnyGap ==
    /\ HasStats /\ last_active # Today
    /\ ~GapCovered
    /\ AttemptCounted
    /\ CountToday("reset", 1, {})

SubmitAfterGap ==
    /\ HasStats /\ last_active \notin {Today, Today - 1}
    /\ ~GapCovered
    /\ AttemptCounted
    /\ CountToday("reset", 1, {})

Submit ==
    SubmitAgainToday \/ SubmitNextDay \/ SubmitAfterCoveredGap \/ SubmitAfterGap

-----------------------------------------------------------------------------
\* ORDER BY first, id.
NotAfter(first1, id1, first2, id2) == first1 < first2 \/ (first1 = first2 /\ id1 <= id2)

\* Fault: a reset stays restorable after it was repaired.
RestorableResetsAgain ==
    {r \in Resets :
        /\ r.created_at >= now - REPAIR_WINDOW
        /\ \A s \in Resets : NotAfter(s.created_at, s.id, r.created_at, r.id)}

\* The newest reset in the window, and the value of the run built since it,
\* both as the ORDER BY clauses of _RESTORABLE_SQL pick them.
RestorableResets ==
    {r \in Resets :
        /\ r.created_at >= now - REPAIR_WINDOW
        /\ \A s \in Resets : NotAfter(s.created_at, s.id, r.created_at, r.id)
        /\ ~ \E q \in streak_events : q.event = "repaired" /\ q.ref = r.id}

RunEnds(reset) ==
    LET since == {t \in Transitions : t.local_date >= reset.local_date}
    IN  {t \in since : \A u \in since : NotAfter(u.local_date, u.id, t.local_date, t.id)}

\* Fault: the day of the reset is not part of the run built since.
RestoresToExclusive(reset, end) == reset.from_value + end.to_value - 1

RestoresTo(reset, end) == reset.from_value + end.to_value

\* The value moves only up (D-124) and the repair is anchored to its reset.
RepairTo(reset, restored) ==
    /\ restored > current_streak
    /\ current_streak' = restored
    /\ longest_streak' = Larger(longest_streak, restored)
    /\ streak_events' = streak_events \cup
           {Row(next_id, "repaired", current_streak, restored, Today, "repair", reset.id)}

Repair ==
    /\ HasStats
    /\ \E reset \in RestorableResets : \E end \in RunEnds(reset) :
           RepairTo(reset, RestoresTo(reset, end))
    /\ next_id' = next_id + 1
    /\ UNCHANGED <<now, tz, last_active, streak_freezes, total_attempts>>

\* Fault: the profile is patched and the streak is not reconciled.
ChangeTimezoneOnly(zone) ==
    /\ zone # tz
    /\ tz' = zone
    /\ UNCHANGED <<now, stats, ledger>>

\* Moving west past the last counted day pulls that day back to the new today.
ChangeTimezone(zone) ==
    /\ zone # tz
    /\ tz' = zone
    /\ IF HasStats /\ LocalDate(zone) < last_active
       THEN /\ last_active' = LocalDate(zone)
            /\ streak_events' = streak_events \cup
                   {Row(next_id, "repaired", current_streak, current_streak,
                        LocalDate(zone), "timezone", 0)}
            /\ next_id' = next_id + 1
       ELSE UNCHANGED <<last_active, ledger>>
    /\ UNCHANGED <<now, current_streak, longest_streak, streak_freezes, total_attempts>>

OutageFreeze(date) ==
    /\ HasStats
    /\ date \notin CoveredDates
    /\ streak_events' = streak_events \cup
           {Row(next_id, "freeze_used", current_streak, current_streak, date, "outage", 0)}
    /\ next_id' = next_id + 1
    /\ UNCHANGED <<now, tz, stats>>

InitialGrant == Smaller(FREEZE_START, FREEZE_MAX)

\* Fault: the grant leaves no row, so it can also be repeated.
GrantWithoutRow(date) ==
    /\ HasStats
    /\ streak_freezes < InitialGrant
    /\ streak_freezes' = InitialGrant
    /\ UNCHANGED <<now, tz, current_streak, longest_streak, last_active, total_attempts, ledger>>

GrantInitialFreezes(date) ==
    /\ HasStats
    /\ streak_freezes < InitialGrant
    /\ ~ \E r \in streak_events : r.event = "adjusted" /\ r.why = "grant"
    /\ streak_freezes' = InitialGrant
    /\ streak_events' = streak_events \cup
           {Row(next_id, "adjusted", current_streak, current_streak, date, "grant", 0)}
    /\ next_id' = next_id + 1
    /\ UNCHANGED <<now, tz, current_streak, longest_streak, last_active, total_attempts>>

Tick ==
    /\ now < CLOCK_LIMIT
    /\ now' = now + 1
    /\ UNCHANGED <<tz, stats, ledger>>

-----------------------------------------------------------------------------
\* A legacy account enters with one counted day and the column default 0.
OpeningBalance == IF LEGACY THEN 0 ELSE FREEZE_START

Init ==
    /\ now = 0
    /\ tz \in Offsets
    /\ total_attempts = IF LEGACY THEN 1 ELSE 0
    /\ current_streak = total_attempts
    /\ longest_streak = total_attempts
    /\ last_active = IF LEGACY THEN Today ELSE NoDate
    /\ streak_freezes = OpeningBalance
    /\ streak_events = IF LEGACY THEN {Row(1, "extended", 0, 1, Today, "submit", 0)} ELSE {}
    /\ next_id = IF LEGACY THEN 2 ELSE 1

Next ==
    \/ Submit
    \/ Repair
    \/ \E zone \in Offsets : ChangeTimezone(zone)
    \/ \E date \in OutageDates : OutageFreeze(date) \/ GrantInitialFreezes(date)
    \/ Tick

Spec == Init /\ [][Next]_vars

-----------------------------------------------------------------------------
Rows ==
    [id : Nat \ {0}, event : {"extended", "reset", "freeze_used", "repaired", "adjusted"},
     from_value : Nat, to_value : Nat, local_date : Int, created_at : Int,
     why : {"submit", "paid", "outage", "earned", "grant", "repair", "timezone"}, ref : Nat]

\* Type invariant. The balance is never negative: the code subtracts from an
\* INTEGER column that no CHECK constraint guards.
TypeOK ==
    /\ now \in Int /\ tz \in Offsets
    /\ current_streak \in Nat /\ longest_streak \in Nat
    /\ last_active \in Int \cup {NoDate}
    /\ streak_freezes \in Nat
    /\ total_attempts \in Nat
    /\ streak_events \subseteq Rows
    /\ next_id \in Nat \ {0}

\* `rows` has the ids 1 .. next-1, each once; in id order each row starts at
\* the value the row before it left, from 0 to `value`.
IsChain(rows, next, value) ==
    /\ \A r \in rows : r.id \in 1 .. (next - 1)
    /\ \A i \in 1 .. (next - 1) : \E r \in rows : r.id = i
    /\ \A r, s \in rows : r.id = s.id => r = s
    /\ \A r, s \in rows : s.id = r.id + 1 => s.from_value = r.to_value
    /\ \A r \in rows : r.id = 1 => r.from_value = 0
    /\ \A r \in rows : r.id = next - 1 => r.to_value = value
    /\ next = 1 => value = 0

\* The ledger explains the streak ("every streak transition writes a
\* streak_events row", migration 0007): in whatever order submits, repairs,
\* moves and operator fills come, the rows replay to user_stats.
LedgerExplainsStreak == IsChain(streak_events, next_id, current_streak)

\* The balance that replaying the ledger in order gives.
ReplayedBalance ==
    LET RowAt(i) == CHOOSE r \in streak_events : r.id = i
        after[i \in 0 .. (next_id - 1)] ==
            IF i = 0 THEN OpeningBalance
            ELSE CASE RowAt(i).why = "paid"   -> after[i - 1] - 1
                   [] RowAt(i).why = "earned" -> after[i - 1] + 1
                   [] RowAt(i).why = "grant"  -> InitialGrant
                   [] OTHER -> after[i - 1]
    IN  after[next_id - 1]

\* The balance never passes the larger of the birth grant and the cap.
BalanceWithinCap == streak_freezes <= Larger(FREEZE_START, FREEZE_MAX)

\* The ledger explains the balance (docs/10 A1, D-118): every freeze earned,
\* spent or granted has its row, an outage fill costs nothing, and no milestone
\* or grant lifts the balance over the cap.
LedgerExplainsBalance == ReplayedBalance = streak_freezes /\ BalanceWithinCap

\* D-116: a day is covered at most once.
NoDayCoveredTwice ==
    \A r, s \in streak_events :
        r.event = "freeze_used" /\ s.event = "freeze_used" /\ r.local_date = s.local_date => r = s

\* Every day of a gap the streak was carried over was covered by the time the
\* extending row was written.
EveryGapCovered ==
    \A t, r \in Transitions :
        /\ r.event = "extended"
        /\ t.id < r.id
        /\ \A u \in Transitions : u.id <= t.id \/ u.id >= r.id
        => \A d \in (t.local_date + 1) .. (r.local_date - 1) :
               \E f \in streak_events : f.event = "freeze_used" /\ f.local_date = d /\ f.id < r.id

\* A streak is carried over a gap only when every day of it is covered, by a
\* freeze or an outage fill, and each of them once: a freeze never covers
\* partially, and nothing is paid for twice.
GapsPaidExactlyOnce == NoDayCoveredTwice /\ EveryGapCovered

\* "It can never manufacture a streak": repairs, freezes and outage fills
\* never make the streak exceed the number of days the user submitted on.
NoManufacturedStreak == current_streak <= Cardinality(Transitions)

\* A reset is repaired at most once, and to the unbroken counterfactual: the
\* value lost plus one for every day counted from the reset on; so no order of
\* resets, freezes and repairs yields more than the days practised.
RepairsAreCounterfactual ==
    /\ NoManufacturedStreak
    /\ \A q \in streak_events : q.why = "repair" =>
           /\ \A p \in streak_events : p.why = "repair" /\ p.ref = q.ref => p = q
           /\ \E r \in Resets :
               /\ r.id = q.ref
               /\ q.to_value = r.from_value
                      + Cardinality({t \in Transitions : r.id <= t.id /\ t.id < q.id})

\* The reconciliation's promise: last_active is never in the user's future, so
\* the "gap" branch is only ever taken for a real gap.
LastActiveNotAhead == HasStats => last_active <= Today

\* The unique index is only a backstop: a submit that reaches a day's first
\* transition never finds the day's row already there.
IndexIsOnlyBackstop == HasStats /\ last_active # Today => IndexAdmits(Today)

\* docs/05 "Changing timezone never retroactively breaks a streak": a submit
\* on the day after one that was counted never resets.
ResetOnlyAfterIdleDay ==
    \A r \in Resets : \A t \in Transitions : t.id < r.id => t.local_date # r.local_date - 1

=============================================================================
