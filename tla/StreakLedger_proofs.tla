------------------------ MODULE StreakLedger_proofs -------------------------
(***************************************************************************)
(* Theorems about StreakLedger, for every value of its constants.          *)
(*   StreakTyping          Spec => []TypeOK                                *)
(*   StreakLedgerIsAChain  Spec => []LedgerExplainsStreak                  *)
(*   LastActiveNeverAhead  Spec => []LastActiveNotAhead                    *)
(*   SettledUserKeepsStreak, with one timezone:                            *)
(*       Spec => [](ResetOnlyAfterIdleDay /\ IndexIsOnlyBackstop)          *)
(*   GapsArePaidOnce       Spec => []GapsPaidExactlyOnce                   *)
(*   RepairsRestoreTheRun, with timezones at most a day apart:             *)
(*       Spec => []RepairsAreCounterfactual                                *)
(*   BalanceIsExplained    Spec => []LedgerExplainsBalance                 *)
(* The chain is inductive with the types; the ids of the rows a gap pays   *)
(* for need that a finite set of dates is ranked densely (RanksAreDense).  *)
(* The others rest on the chain and an invariant of their own, stated where*)
(* their proof begins: SettledInv, GapsInv, RepairInv, BalanceInv.         *)
(***************************************************************************)
EXTENDS StreakLedger, FunctionTheorems, FiniteSetTheorems, WellFoundedInduction, TLAPS

-----------------------------------------------------------------------------
\* The number of members of S below d: the offset of d's row in FreezeRows.
Rank(S, d) == Cardinality({e \in S : e < d})

\* In a finite set of dates, dates have distinct ranks below the cardinality,
\* and every number below the cardinality is the rank of a date: the rows paid
\* for by try_cover_gap take consecutive ids.
LEMMA RanksAreDense ==
    ASSUME NEW S, S \subseteq Int, IsFiniteSet(S)
    PROVE  /\ Cardinality(S) \in Nat
           /\ \A d \in S : Rank(S, d) \in 0 .. (Cardinality(S) - 1)
           /\ \A d, e \in S : Rank(S, d) = Rank(S, e) => d = e
           /\ \A i \in 0 .. (Cardinality(S) - 1) : \E d \in S : Rank(S, d) = i
<1> DEFINE Below(d) == {e \in S : e < d}
<1>1. Cardinality(S) \in Nat
  BY FS_CardinalityType
<1>2. \A d \in S : /\ IsFiniteSet(Below(d))
                   /\ Cardinality(Below(d)) \in Nat
                   /\ Cardinality(Below(d)) < Cardinality(S)
  <2> TAKE d \in S
  <2>1. Below(d) \in SUBSET S /\ d \notin Below(d)
    OBVIOUS
  <2>2. IsFiniteSet(Below(d)) /\ Cardinality(Below(d)) <= Cardinality(S)
    BY <2>1, FS_Subset
  <2>3. Cardinality(Below(d)) \in Nat
    BY <2>2, FS_CardinalityType
  <2>4. Cardinality(Below(d)) # Cardinality(S)
    BY <2>1, FS_Subset
  <2>5. QED
    BY <1>1, <2>2, <2>3, <2>4
<1>3. \A d, e \in S : d < e => Cardinality(Below(d)) < Cardinality(Below(e))
  <2> SUFFICES ASSUME NEW d \in S, NEW e \in S, d < e
               PROVE  Cardinality(Below(d)) < Cardinality(Below(e))
    OBVIOUS
  <2>1. \A x \in S : x < d => x < e
    OBVIOUS
  <2>2. Below(d) \in SUBSET Below(e)
    BY <2>1
  <2>3. d \in Below(e)
    OBVIOUS
  <2>4. d \notin Below(d)
    OBVIOUS
  <2>5. Cardinality(Below(d)) <= Cardinality(Below(e))
    BY <1>2, <2>2, FS_Subset
  <2>6. Cardinality(Below(d)) # Cardinality(Below(e))
    BY <1>2, <2>2, <2>3, <2>4, FS_Subset
  <2>7. QED
    BY <1>2, <2>5, <2>6
<1>4. \A d, e \in S : Cardinality(Below(d)) = Cardinality(Below(e)) => d = e
  <2> SUFFICES ASSUME NEW d \in S, NEW e \in S, d # e
               PROVE  Cardinality(Below(d)) # Cardinality(Below(e))
    OBVIOUS
  <2>1. CASE d < e
    BY <1>2, <1>3, <2>1
  <2>2. CASE e < d
    BY <1>2, <1>3, <2>2
  <2>3. QED
    BY <2>1, <2>2
<1>5. \A i \in 0 .. (Cardinality(S) - 1) : \E d \in S : Cardinality(Below(d)) = i
  <2> DEFINE T == 0 .. (Cardinality(S) - 1)
             f == [d \in S |-> Cardinality(Below(d))]
  <2>1. f \in [S -> T]
    BY <1>1, <1>2
  <2>2. f \in Injection(S, T)
    BY <2>1, <1>4 DEF Injection, IsInjective
  <2>3. IsFiniteSet(T) /\ Cardinality(T) = Cardinality(S)
    BY <1>1, FS_Interval
  <2> HIDE DEF f, T
  <2>4. f \in Surjection(S, T)
    BY <2>2, <2>3, FS_Injection
  <2>5. \A i \in T : \E d \in S : f[d] = i
    BY <2>4 DEF Surjection
  <2>6. QED
    BY <2>5 DEF f, T
<1>6. QED
  BY <1>1, <1>2, <1>4, <1>5 DEF Rank

-----------------------------------------------------------------------------
\* Every timezone gives a date.
LEMMA DatesAreIntegers ==
    ASSUME now \in Int, NEW zone \in Offsets
    PROVE  LocalDate(zone) \in Int
BY TimeAssumption DEF LocalDate

\* What try_cover_gap may be asked to pay for: finitely many dates, and no
\* more of them than the balance holds.
LEMMA GapIsPayable ==
    ASSUME TypeOK, HasStats
    PROVE  /\ Uncovered \subseteq Int
           /\ IsFiniteSet(Uncovered)
           /\ Cardinality(Uncovered) \in Nat
           /\ GapCovered => Cardinality(Uncovered) <= streak_freezes
<1>1. last_active \in Int /\ Today \in Int
  BY DatesAreIntegers DEF TypeOK, HasStats, Today
<1>2. IsFiniteSet(MissedDates) /\ MissedDates \subseteq Int
  BY <1>1, FS_Interval DEF MissedDates
<1>3. Uncovered \in SUBSET MissedDates
  BY DEF Uncovered
<1>4. IsFiniteSet(Uncovered) /\ Uncovered \subseteq Int
  BY <1>2, <1>3, FS_Subset
<1>5. Cardinality(Uncovered) \in Nat
  BY <1>4, FS_CardinalityType
<1>6. GapCovered => Cardinality(Uncovered) <= streak_freezes
  BY <1>5, ConfigAssumption DEF GapCovered, Smaller, TypeOK
<1>7. QED
  BY <1>4, <1>5, <1>6

\* A row built from well-typed parts is well typed.
LEMMA RowIsTyped ==
    ASSUME now \in Int,
           NEW id \in Nat \ {0}, NEW event \in {"extended", "reset", "freeze_used", "repaired", "adjusted"},
           NEW from \in Nat, NEW to \in Nat, NEW date \in Int,
           NEW why \in {"submit", "paid", "outage", "earned", "grant", "repair", "timezone"},
           NEW ref \in Nat
    PROVE  Row(id, event, from, to, date, why, ref) \in Rows
BY DEF Row, Rows

\* The day's transition keeps the types: the balance stays a natural number
\* because no more days are paid for than it holds.
LEMMA CountTodayTypes ==
    ASSUME TypeOK, NEW event \in {"extended", "reset"}, NEW value \in Nat,
           NEW paid, paid \subseteq Int, IsFiniteSet(paid),
           Cardinality(paid) <= streak_freezes,
           CountToday(event, value, paid)
    PROVE  /\ current_streak' \in Nat /\ longest_streak' \in Nat
           /\ last_active' \in Int
           /\ streak_freezes' \in Nat
           /\ streak_events' \subseteq Rows
           /\ next_id' \in Nat \ {0}
<1> DEFINE balance == streak_freezes - Cardinality(paid)
           n == next_id + Cardinality(paid)
           earns == event = "extended" /\ EarnsFreeze(value, balance)
<1>1. Cardinality(paid) \in Nat /\ Today \in Int
  BY FS_CardinalityType, DatesAreIntegers DEF TypeOK, Today
<1>2. balance \in Nat /\ n \in Nat \ {0} /\ n + 1 \in Nat \ {0}
  BY <1>1 DEF TypeOK
<1>3. FreezeRows(paid) \subseteq Rows
  <2> SUFFICES ASSUME NEW d \in paid
               PROVE  Row(next_id + Rank(paid, d), "freeze_used", current_streak,
                          current_streak, d, "paid", 0) \in Rows
    BY DEF FreezeRows, Rank
  <2>1. Rank(paid, d) \in 0 .. (Cardinality(paid) - 1)
    BY RanksAreDense
  <2>2. Rank(paid, d) \in Nat
    BY <1>1, <2>1
  <2>3. next_id + Rank(paid, d) \in Nat \ {0}
    BY <2>2 DEF TypeOK
  <2>4. QED
    BY <2>3, RowIsTyped DEF TypeOK
<1>4. /\ Row(n, event, current_streak, value, Today, "submit", 0) \in Rows
      /\ Row(n + 1, "adjusted", value, value, Today, "earned", 0) \in Rows
  BY <1>1, <1>2, RowIsTyped DEF TypeOK
<1>5. streak_events' \subseteq Rows
  BY <1>3, <1>4 DEF CountToday, TypeOK
<1>6. QED
  BY <1>1, <1>2, <1>5 DEF CountToday, Larger, TypeOK

-----------------------------------------------------------------------------
\* Every step keeps the types, action by action.
LEMMA TypesAreInductive == TypeOK /\ [Next]_vars => TypeOK'
<1> SUFFICES ASSUME TypeOK, [Next]_vars PROVE TypeOK'
  OBVIOUS
<1>1. CASE Submit
  <2>1. CASE SubmitAgainToday
    BY <2>1 DEF SubmitAgainToday, AttemptCounted, ledger, TypeOK
  <2>2. CASE SubmitNextDay
    <3>1. IsFiniteSet({}) /\ Cardinality({}) = 0
      BY FS_EmptySet
    <3>2. CountToday("extended", current_streak + 1, {})
      BY <2>2 DEF SubmitNextDay
    <3>3. current_streak + 1 \in Nat /\ 0 <= streak_freezes
      BY DEF TypeOK
    <3>4. /\ current_streak' \in Nat /\ longest_streak' \in Nat
          /\ last_active' \in Int /\ streak_freezes' \in Nat
          /\ streak_events' \subseteq Rows /\ next_id' \in Nat \ {0}
      BY <3>1, <3>2, <3>3, CountTodayTypes
    <3>5. QED
      BY <2>2, <3>4 DEF SubmitNextDay, AttemptCounted, TypeOK
  <2>3. CASE SubmitAfterCoveredGap
    <3>1. /\ Uncovered \subseteq Int /\ IsFiniteSet(Uncovered)
          /\ Cardinality(Uncovered) <= streak_freezes
      BY <2>3, GapIsPayable DEF SubmitAfterCoveredGap
    <3>2. CountToday("extended", current_streak + 1, Uncovered)
      BY <2>3 DEF SubmitAfterCoveredGap
    <3>3. current_streak + 1 \in Nat /\ 0 <= streak_freezes
      BY DEF TypeOK
    <3>4. /\ current_streak' \in Nat /\ longest_streak' \in Nat
          /\ last_active' \in Int /\ streak_freezes' \in Nat
          /\ streak_events' \subseteq Rows /\ next_id' \in Nat \ {0}
      BY <3>1, <3>2, <3>3, CountTodayTypes
    <3>5. QED
      BY <2>3, <3>4 DEF SubmitAfterCoveredGap, AttemptCounted, TypeOK
  <2>4. CASE SubmitAfterGap
    <3>1. IsFiniteSet({}) /\ Cardinality({}) = 0
      BY FS_EmptySet
    <3>2. CountToday("reset", 1, {})
      BY <2>4 DEF SubmitAfterGap
    <3>3. current_streak + 1 \in Nat /\ 0 <= streak_freezes
      BY DEF TypeOK
    <3>4. /\ current_streak' \in Nat /\ longest_streak' \in Nat
          /\ last_active' \in Int /\ streak_freezes' \in Nat
          /\ streak_events' \subseteq Rows /\ next_id' \in Nat \ {0}
      BY <3>1, <3>2, <3>3, CountTodayTypes
    <3>5. QED
      BY <2>4, <3>4 DEF SubmitAfterGap, AttemptCounted, TypeOK
  <2>5. QED
    BY <1>1, <2>1, <2>2, <2>3, <2>4 DEF Submit
<1>2. CASE Repair
  <2>1. PICK reset \in RestorableResets : \E end \in RunEnds(reset) :
          RepairTo(reset, RestoresTo(reset, end))
    BY <1>2 DEF Repair
  <2>2. PICK end \in RunEnds(reset) : RepairTo(reset, RestoresTo(reset, end))
    BY <2>1
  <2>3. reset \in Rows /\ end \in Rows
    BY DEF RestorableResets, Resets, RunEnds, Transitions, TypeOK
  <2>4. RestoresTo(reset, end) \in Nat /\ reset.id \in Nat
    BY <2>3 DEF RestoresTo, Rows
  <2>5. Today \in Int
    BY DatesAreIntegers DEF TypeOK, Today
  <2>6. streak_events' \subseteq Rows
    BY <2>2, <2>4, <2>5, RowIsTyped DEF RepairTo, TypeOK
  <2>7. QED
    BY <1>2, <2>2, <2>4, <2>6 DEF Repair, RepairTo, Larger, TypeOK
<1>3. ASSUME NEW zone \in Offsets, ChangeTimezone(zone) PROVE TypeOK'
  <2>1. LocalDate(zone) \in Int
    BY DatesAreIntegers DEF TypeOK
  <2>2. Row(next_id, "repaired", current_streak, current_streak, LocalDate(zone),
            "timezone", 0) \in Rows
    BY <2>1, RowIsTyped DEF TypeOK
  <2>3. QED
    BY <1>3, <2>1, <2>2 DEF ChangeTimezone, ledger, TypeOK
<1>4. ASSUME NEW date \in OutageDates, OutageFreeze(date) PROVE TypeOK'
  <2>1. Row(next_id, "freeze_used", current_streak, current_streak, date, "outage", 0) \in Rows
    BY TimeAssumption, RowIsTyped DEF TypeOK
  <2>2. QED
    BY <1>4, <2>1 DEF OutageFreeze, stats, TypeOK
<1>5. ASSUME NEW date \in OutageDates, GrantInitialFreezes(date) PROVE TypeOK'
  <2>1. Row(next_id, "adjusted", current_streak, current_streak, date, "grant", 0) \in Rows
    BY TimeAssumption, RowIsTyped DEF TypeOK
  <2>2. InitialGrant \in Nat
    BY ConfigAssumption DEF InitialGrant, Smaller
  <2>3. QED
    BY <1>5, <2>1, <2>2 DEF GrantInitialFreezes, TypeOK
<1>6. CASE Tick
  BY <1>6 DEF Tick, stats, ledger, TypeOK
<1>7. CASE UNCHANGED vars
  BY <1>7 DEF vars, stats, ledger, TypeOK
<1>8. QED
  BY <1>1, <1>2, <1>3, <1>4, <1>5, <1>6, <1>7 DEF Next

\* Initially, for a new and for a legacy account, the types hold.
LEMMA TypesInitially == Init => TypeOK
<1> SUFFICES ASSUME Init PROVE TypeOK
  OBVIOUS
<1>1. now \in Int /\ tz \in Offsets /\ Today \in Int
  BY DatesAreIntegers DEF Init, Today
<1>2. Row(1, "extended", 0, 1, Today, "submit", 0) \in Rows
  BY <1>1, RowIsTyped
<1>3. QED
  BY <1>1, <1>2, ConfigAssumption DEF Init, OpeningBalance, TypeOK

\* StreakTyping: every reachable state is well typed; in particular the freeze
\* balance, which the code decrements without a database check, never goes
\* below zero, whatever the configured grant, cap and milestone step are.
THEOREM StreakTyping == Spec => []TypeOK
BY TypesInitially, TypesAreInductive, PTL DEF Spec

-----------------------------------------------------------------------------
\* A row that takes the next id and starts at the chain's value extends it.
LEMMA ChainGrows ==
    ASSUME NEW rows, NEW n \in Nat \ {0}, NEW v, IsChain(rows, n, v),
           \A r \in rows : r.id \in Int,
           NEW row, row.id = n, row.from_value = v
    PROVE  IsChain(rows \cup {row}, n + 1, row.to_value)
<1> DEFINE all == rows \cup {row}
<1>1. \A r \in rows : r.id \in Int /\ 1 <= r.id /\ r.id < n
  BY DEF IsChain
<1>2. \A r \in all : r.id \in 1 .. n
  BY <1>1
<1>3. \A i \in 1 .. n : \E r \in all : r.id = i
  <2> TAKE i \in 1 .. n
  <2>1. CASE i = n
    BY <2>1
  <2>2. CASE i \in 1 .. (n - 1)
    BY <2>2 DEF IsChain
  <2>3. QED
    BY <2>1, <2>2
<1>4. \A r, s \in all : r.id = s.id => r = s
  BY <1>1 DEF IsChain
<1>5. \A r, s \in all : s.id = r.id + 1 => s.from_value = r.to_value
  <2> SUFFICES ASSUME NEW r \in all, NEW s \in all, s.id = r.id + 1
               PROVE  s.from_value = r.to_value
    OBVIOUS
  <2>1. CASE r \in rows /\ s \in rows
    BY <2>1 DEF IsChain
  <2>2. CASE r \in rows /\ s = row
    BY <1>1, <2>2 DEF IsChain
  <2>3. CASE r = row
    BY <1>1, <2>3
  <2>4. QED
    BY <2>1, <2>2, <2>3
<1>6. \A r \in all : r.id = 1 => r.from_value = 0
  <2>1. n = 1 => v = 0
    BY DEF IsChain
  <2>2. \A r \in rows : r.id = 1 => r.from_value = 0
    BY DEF IsChain
  <2>3. QED
    BY <2>1, <2>2
<1>7. \A r \in all : r.id = n => r.to_value = row.to_value
  BY <1>1
<1>8. QED
  BY <1>2, <1>3, <1>4, <1>5, <1>6, <1>7 DEF IsChain

\* The rows paid for keep the chain at its value: they take the ids after the
\* last one, one each (RanksAreDense), and leave the streak as it is.
LEMMA ChainOverGap ==
    ASSUME TypeOK, LedgerExplainsStreak,
           NEW paid, paid \subseteq Int, IsFiniteSet(paid)
    PROVE  IsChain(streak_events \cup FreezeRows(paid),
                   next_id + Cardinality(paid), current_streak)
<1> DEFINE k == Cardinality(paid)
           n == next_id + k
           RowFor(d) == Row(next_id + Rank(paid, d), "freeze_used",
                            current_streak, current_streak, d, "paid", 0)
           new == FreezeRows(paid)
           all == streak_events \cup new
<1>1. k \in Nat /\ next_id \in Nat \ {0} /\ n \in Nat \ {0}
  BY FS_CardinalityType DEF TypeOK
<1>2. new = {RowFor(d) : d \in paid}
  BY DEF FreezeRows, Rank
<1>3. \A d \in paid : /\ RowFor(d).id = next_id + Rank(paid, d)
                      /\ RowFor(d).from_value = current_streak
                      /\ RowFor(d).to_value = current_streak
  BY DEF Row
<1>4. \A d \in paid : Rank(paid, d) \in 0 .. (k - 1)
  BY RanksAreDense
<1>5. \A d, e \in paid : Rank(paid, d) = Rank(paid, e) => d = e
  BY RanksAreDense
<1>6. \A i \in 0 .. (k - 1) : \E d \in paid : Rank(paid, d) = i
  BY RanksAreDense
<1> HIDE DEF RowFor, new, k
<1>7. \A r \in new : r.id \in Int /\ next_id <= r.id /\ r.id < n
                     /\ r.from_value = current_streak /\ r.to_value = current_streak
  BY <1>1, <1>2, <1>3, <1>4
<1>8. \A r, s \in new : r.id = s.id => r = s
  <2> SUFFICES ASSUME NEW d \in paid, NEW e \in paid, RowFor(d).id = RowFor(e).id
               PROVE  RowFor(d) = RowFor(e)
    BY <1>2
  <2>1. Rank(paid, d) = Rank(paid, e)
    BY <1>1, <1>3, <1>4
  <2>2. QED
    BY <1>5, <2>1
<1>9. \A i \in next_id .. (n - 1) : \E r \in new : r.id = i
  <2> TAKE i \in next_id .. (n - 1)
  <2>1. i - next_id \in 0 .. (k - 1)
    BY <1>1
  <2>2. PICK d \in paid : Rank(paid, d) = i - next_id
    BY <1>6, <2>1
  <2>3. RowFor(d).id = i
    BY <1>1, <1>3, <2>2
  <2>4. QED
    BY <1>2, <2>3
<1>10. \A r \in streak_events : r.id \in Int /\ 1 <= r.id /\ r.id < next_id
  BY <1>1 DEF LedgerExplainsStreak, IsChain
<1>11. \A r \in all : r.id \in 1 .. (n - 1)
  BY <1>1, <1>7, <1>10
<1>12. \A i \in 1 .. (n - 1) : \E r \in all : r.id = i
  <2> TAKE i \in 1 .. (n - 1)
  <2>1. CASE i \in 1 .. (next_id - 1)
    BY <2>1 DEF LedgerExplainsStreak, IsChain
  <2>2. CASE i \in next_id .. (n - 1)
    BY <2>2, <1>9
  <2>3. QED
    BY <1>1, <2>1, <2>2
<1>13. \A r, s \in all : r.id = s.id => r = s
  BY <1>1, <1>7, <1>8, <1>10 DEF LedgerExplainsStreak, IsChain
<1>14. \A r, s \in all : s.id = r.id + 1 => s.from_value = r.to_value
  <2> SUFFICES ASSUME NEW r \in all, NEW s \in all, s.id = r.id + 1
               PROVE  s.from_value = r.to_value
    OBVIOUS
  <2>1. CASE r \in streak_events /\ s \in streak_events
    BY <2>1 DEF LedgerExplainsStreak, IsChain
  <2>2. CASE r \in streak_events /\ s \in new
    <3>1. r.id = next_id - 1
      BY <1>1, <1>7, <1>10, <2>2
    <3>2. r.to_value = current_streak
      BY <2>2, <3>1 DEF LedgerExplainsStreak, IsChain
    <3>3. QED
      BY <1>7, <2>2, <3>2
  <2>3. CASE r \in new /\ s \in streak_events
    BY <1>1, <1>7, <1>10, <2>3
  <2>4. CASE r \in new /\ s \in new
    BY <1>7, <2>4
  <2>5. QED
    BY <2>1, <2>2, <2>3, <2>4
<1>15. \A r \in all : r.id = 1 => r.from_value = 0
  <2> SUFFICES ASSUME NEW r \in new, r.id = 1 PROVE r.from_value = 0
    BY DEF LedgerExplainsStreak, IsChain
  <2>1. next_id = 1
    BY <1>1, <1>7
  <2>2. QED
    BY <1>7, <2>1 DEF LedgerExplainsStreak, IsChain
<1>16. \A r \in all : r.id = n - 1 => r.to_value = current_streak
  <2> SUFFICES ASSUME NEW r \in streak_events, r.id = n - 1
               PROVE  r.to_value = current_streak
    BY <1>7
  <2>1. r.id = next_id - 1
    BY <1>1, <1>10
  <2>2. QED
    BY <2>1 DEF LedgerExplainsStreak, IsChain
<1>17. n = 1 => current_streak = 0
  BY <1>1 DEF LedgerExplainsStreak, IsChain
<1>18. QED
  BY <1>11, <1>12, <1>13, <1>14, <1>15, <1>16, <1>17 DEF IsChain, new, k

\* The day's transition extends the chain: the rows paid for, then the day's
\* row, then the row of an earned freeze.
LEMMA CountTodayKeepsChain ==
    ASSUME TypeOK, LedgerExplainsStreak,
           NEW event, NEW value, NEW paid, paid \subseteq Int, IsFiniteSet(paid),
           CountToday(event, value, paid)
    PROVE  LedgerExplainsStreak'
<1> DEFINE n == next_id + Cardinality(paid)
           covered == streak_events \cup FreezeRows(paid)
           day == Row(n, event, current_streak, value, Today, "submit", 0)
           earned == Row(n + 1, "adjusted", value, value, Today, "earned", 0)
           counted == covered \cup {day}
<1>1. n \in Nat \ {0}
  BY FS_CardinalityType DEF TypeOK
<1>2. IsChain(covered, n, current_streak)
  BY ChainOverGap
<1>3. /\ day.id = n /\ day.from_value = current_streak /\ day.to_value = value
      /\ earned.id = n + 1 /\ earned.from_value = value /\ earned.to_value = value
  BY DEF Row
<1>4. \/ /\ streak_events' = counted
         /\ next_id' = n + 1
      \/ /\ streak_events' = counted \cup {earned}
         /\ next_id' = n + 2
  BY DEF CountToday
<1>5. current_streak' = value
  BY DEF CountToday
<1> HIDE DEF n, covered, day, earned
<1>6. IsChain(counted, n + 1, value)
  <2>1. \A r \in covered : r.id \in Int
    BY <1>1, <1>2 DEF IsChain
  <2>2. IsChain(covered \cup {day}, n + 1, day.to_value)
    BY <1>1, <1>2, <1>3, <2>1, ChainGrows
  <2>3. QED
    BY <1>3, <2>2
<1> HIDE DEF counted
<1>7. IsChain(counted \cup {earned}, n + 2, value)
  <2>1. \A r \in counted : r.id \in Int
    BY <1>1, <1>6 DEF IsChain
  <2>2. n + 1 \in Nat \ {0} /\ (n + 1) + 1 = n + 2
    BY <1>1
  <2>3. IsChain(counted \cup {earned}, (n + 1) + 1, earned.to_value)
    BY <1>3, <1>6, <2>1, <2>2, ChainGrows
  <2>4. QED
    BY <1>3, <2>2, <2>3
<1>8. QED
  BY <1>4, <1>5, <1>6, <1>7 DEF LedgerExplainsStreak

\* Any other writer adds one row that starts at the streak it found.
LEMMA OneRowKeepsChain ==
    ASSUME TypeOK, LedgerExplainsStreak, NEW row,
           row.id = next_id, row.from_value = current_streak,
           row.to_value = current_streak',
           streak_events' = streak_events \cup {row}, next_id' = next_id + 1
    PROVE  LedgerExplainsStreak'
<1>1. \A r \in streak_events : r.id \in Int
  BY DEF TypeOK, LedgerExplainsStreak, IsChain
<1>2. IsChain(streak_events \cup {row}, next_id + 1, row.to_value)
  BY <1>1, ChainGrows DEF TypeOK, LedgerExplainsStreak
<1>3. QED
  BY <1>2 DEF LedgerExplainsStreak

\* Every step keeps the chain, action by action.
LEMMA ChainIsInductive == TypeOK /\ LedgerExplainsStreak /\ [Next]_vars => LedgerExplainsStreak'
<1> SUFFICES ASSUME TypeOK, LedgerExplainsStreak, [Next]_vars
             PROVE  LedgerExplainsStreak'
  OBVIOUS
<1>1. CASE Submit
  <2>1. {} \subseteq Int /\ IsFiniteSet({})
    BY FS_EmptySet
  <2>2. CASE SubmitAgainToday
    BY <2>2 DEF SubmitAgainToday, ledger, LedgerExplainsStreak
  <2>3. CASE SubmitNextDay
    BY <2>1, <2>3, CountTodayKeepsChain DEF SubmitNextDay
  <2>4. CASE SubmitAfterCoveredGap
    BY <2>4, GapIsPayable, CountTodayKeepsChain DEF SubmitAfterCoveredGap
  <2>5. CASE SubmitAfterGap
    BY <2>1, <2>5, CountTodayKeepsChain DEF SubmitAfterGap
  <2>6. QED
    BY <1>1, <2>2, <2>3, <2>4, <2>5 DEF Submit
<1>2. CASE Repair
  <2>1. PICK reset \in RestorableResets : \E end \in RunEnds(reset) :
          RepairTo(reset, RestoresTo(reset, end))
    BY <1>2 DEF Repair
  <2>2. PICK end \in RunEnds(reset) : RepairTo(reset, RestoresTo(reset, end))
    BY <2>1
  <2> DEFINE row == Row(next_id, "repaired", current_streak, RestoresTo(reset, end),
                        Today, "repair", reset.id)
  <2>3. /\ row.id = next_id /\ row.from_value = current_streak
        /\ row.to_value = RestoresTo(reset, end)
    BY DEF Row
  <2>4. /\ streak_events' = streak_events \cup {row}
        /\ current_streak' = RestoresTo(reset, end)
        /\ next_id' = next_id + 1
    BY <1>2, <2>2 DEF Repair, RepairTo
  <2> HIDE DEF row
  <2>5. QED
    BY <2>3, <2>4, OneRowKeepsChain
<1>3. ASSUME NEW zone \in Offsets, ChangeTimezone(zone) PROVE LedgerExplainsStreak'
  <2>1. CASE HasStats /\ LocalDate(zone) < last_active
    <3> DEFINE row == Row(next_id, "repaired", current_streak, current_streak,
                          LocalDate(zone), "timezone", 0)
    <3>1. row.id = next_id /\ row.from_value = current_streak /\ row.to_value = current_streak
      BY DEF Row
    <3>2. /\ streak_events' = streak_events \cup {row}
          /\ next_id' = next_id + 1 /\ current_streak' = current_streak
      BY <1>3, <2>1 DEF ChangeTimezone
    <3> HIDE DEF row
    <3>3. QED
      BY <3>1, <3>2, OneRowKeepsChain
  <2>2. CASE ~(HasStats /\ LocalDate(zone) < last_active)
    BY <1>3, <2>2 DEF ChangeTimezone, ledger, LedgerExplainsStreak
  <2>3. QED
    BY <2>1, <2>2
<1>4. ASSUME NEW date \in OutageDates, OutageFreeze(date) PROVE LedgerExplainsStreak'
  <2> DEFINE row == Row(next_id, "freeze_used", current_streak, current_streak, date, "outage", 0)
  <2>1. row.id = next_id /\ row.from_value = current_streak /\ row.to_value = current_streak
    BY DEF Row
  <2>2. /\ streak_events' = streak_events \cup {row}
        /\ next_id' = next_id + 1 /\ current_streak' = current_streak
    BY <1>4 DEF OutageFreeze, stats
  <2> HIDE DEF row
  <2>3. QED
    BY <2>1, <2>2, OneRowKeepsChain
<1>5. ASSUME NEW date \in OutageDates, GrantInitialFreezes(date) PROVE LedgerExplainsStreak'
  <2> DEFINE row == Row(next_id, "adjusted", current_streak, current_streak, date, "grant", 0)
  <2>1. row.id = next_id /\ row.from_value = current_streak /\ row.to_value = current_streak
    BY DEF Row
  <2>2. /\ streak_events' = streak_events \cup {row}
        /\ next_id' = next_id + 1 /\ current_streak' = current_streak
    BY <1>5 DEF GrantInitialFreezes
  <2> HIDE DEF row
  <2>3. QED
    BY <2>1, <2>2, OneRowKeepsChain
<1>6. CASE Tick
  BY <1>6 DEF Tick, stats, ledger, LedgerExplainsStreak
<1>7. CASE UNCHANGED vars
  BY <1>7 DEF vars, stats, ledger, LedgerExplainsStreak
<1>8. QED
  BY <1>1, <1>2, <1>3, <1>4, <1>5, <1>6, <1>7 DEF Next

\* The empty ledger of a new account and the one row of a legacy account are
\* chains.
LEMMA ChainInitially == Init => LedgerExplainsStreak
<1> SUFFICES ASSUME Init PROVE LedgerExplainsStreak
  OBVIOUS
<1>1. CASE LEGACY
  <2>1. /\ streak_events = {Row(1, "extended", 0, 1, Today, "submit", 0)}
        /\ next_id = 2 /\ current_streak = 1
    BY <1>1 DEF Init
  <2>2. QED
    BY <2>1 DEF Row, LedgerExplainsStreak, IsChain
<1>2. CASE ~LEGACY
  <2>1. streak_events = {} /\ next_id = 1 /\ current_streak = 0
    BY <1>2 DEF Init
  <2>2. QED
    BY <2>1 DEF LedgerExplainsStreak, IsChain
<1>3. QED
  BY <1>1, <1>2

\* StreakLedgerIsAChain: in every reachable state the streak_events rows replay
\* to user_stats.current_streak without a gap, whatever the configuration, the
\* timezones and the operator's dates.
THEOREM StreakLedgerIsAChain == Spec => []LedgerExplainsStreak
<1>1. TypeOK /\ LedgerExplainsStreak /\ [Next]_vars => (TypeOK /\ LedgerExplainsStreak)'
  BY TypesAreInductive, ChainIsInductive
<1>2. Init => TypeOK /\ LedgerExplainsStreak
  BY TypesInitially, ChainInitially
<1>3. QED
  BY <1>1, <1>2, PTL DEF Spec

-----------------------------------------------------------------------------
\* The calendar date never moves back while the clock moves on.
LEMMA DivisionIsMonotone ==
    ASSUME NEW a \in Int, NEW b \in Int, a <= b, NEW d \in Nat \ {0}
    PROVE  a \div d <= b \div d
<1> DEFINE q == a \div d
           r == b \div d
<1>1. q \in Int /\ d * q <= a /\ a < d * q + d
  OBVIOUS
<1>2. r \in Int /\ d * r <= b /\ b < d * r + d
  OBVIOUS
<1> HIDE DEF q, r
<1>3. d * q < d * (r + 1)
  BY <1>1, <1>2
<1>4. q < r + 1
  BY <1>1, <1>2, <1>3
<1>5. QED
  BY <1>1, <1>2, <1>4 DEF q, r

\* Every step leaves the last active day no later than today: a submit counts
\* today itself, a tick moves today forward, and a move west clamps.
LEMMA NotAheadIsInductive ==
    TypeOK /\ LastActiveNotAhead /\ [Next]_vars => LastActiveNotAhead'
<1> SUFFICES ASSUME TypeOK, LastActiveNotAhead, [Next]_vars
             PROVE  LastActiveNotAhead'
  OBVIOUS
<1> USE DEF LastActiveNotAhead, HasStats, Today
<1>1. CASE Submit
  <2>1. Today \in Int /\ now' = now /\ tz' = tz
    BY <1>1, DatesAreIntegers DEF TypeOK, Submit, SubmitAgainToday, SubmitNextDay,
          SubmitAfterCoveredGap, SubmitAfterGap, AttemptCounted
  <2>2. last_active' = last_active \/ last_active' = Today
    BY <1>1 DEF Submit, SubmitAgainToday, SubmitNextDay, SubmitAfterCoveredGap,
          SubmitAfterGap, CountToday
  <2>3. Today' = Today
    BY <2>1 DEF LocalDate
  <2>4. QED
    BY <2>1, <2>2, <2>3
<1>2. CASE Repair
  BY <1>2 DEF Repair, LocalDate
<1>3. ASSUME NEW zone \in Offsets, ChangeTimezone(zone) PROVE LastActiveNotAhead'
  <2>1. LocalDate(zone) \in Int
    BY DatesAreIntegers DEF TypeOK
  <2>2. Today' = LocalDate(zone)
    BY <1>3 DEF ChangeTimezone, LocalDate
  <2>3. CASE HasStats /\ LocalDate(zone) < last_active
    BY <1>3, <2>1, <2>2, <2>3 DEF ChangeTimezone
  <2>4. CASE ~(HasStats /\ LocalDate(zone) < last_active)
    BY <1>3, <2>1, <2>2, <2>4 DEF ChangeTimezone, TypeOK
  <2>5. QED
    BY <2>3, <2>4
<1>4. ASSUME NEW date \in OutageDates, OutageFreeze(date) PROVE LastActiveNotAhead'
  BY <1>4 DEF OutageFreeze, stats, LocalDate
<1>5. ASSUME NEW date \in OutageDates, GrantInitialFreezes(date) PROVE LastActiveNotAhead'
  BY <1>5 DEF GrantInitialFreezes, LocalDate
<1>6. CASE Tick
  <2>1. now + tz \in Int /\ now + 1 + tz \in Int /\ now + tz <= now + 1 + tz
    BY TimeAssumption DEF TypeOK
  <2>2. (now + tz) \div DAY_LENGTH <= (now + 1 + tz) \div DAY_LENGTH
    BY <2>1, TimeAssumption, DivisionIsMonotone
  <2>3. Today \in Int /\ Today' \in Int /\ Today <= Today'
    BY <1>6, <2>1, <2>2, TimeAssumption, DatesAreIntegers DEF Tick, LocalDate, TypeOK
  <2>4. last_active' = last_active
    BY <1>6 DEF Tick, stats
  <2>5. QED
    BY <2>3, <2>4 DEF TypeOK
<1>7. CASE UNCHANGED vars
  BY <1>7 DEF vars, stats, LocalDate
<1>8. QED
  BY <1>1, <1>2, <1>3, <1>4, <1>5, <1>6, <1>7 DEF Next

\* A new account has no last active day; an old one was active today.
LEMMA NotAheadInitially == Init => LastActiveNotAhead
<1> SUFFICES ASSUME Init PROVE LastActiveNotAhead
  OBVIOUS
<1>1. Today \in Int
  BY DatesAreIntegers DEF Init, Today
<1>2. QED
  BY <1>1 DEF Init, LastActiveNotAhead, HasStats

\* LastActiveNeverAhead: the promise of jobs/streak_recon.py, for any set of
\* timezones: a submit never finds the last active day in its future, so the
\* gap branch is taken for a gap only.
THEOREM LastActiveNeverAhead == Spec => []LastActiveNotAhead
BY NotAheadInitially, NotAheadIsInductive, StreakTyping, PTL DEF Spec

-----------------------------------------------------------------------------
(***************************************************************************)
(* A user who never changes timezone. The strengthening is that no row of  *)
(* the ledger counts a day after the last active one; a move west is what  *)
(* breaks it, and with it both properties (runs streak_index, streak_tz).  *)
(***************************************************************************)
NoneAfterLastActive == \A t \in Transitions : HasStats /\ t.local_date <= last_active

SettledInv ==
    /\ TypeOK
    /\ LedgerExplainsStreak
    /\ LastActiveNotAhead
    /\ NoneAfterLastActive
    /\ ResetOnlyAfterIdleDay

\* The day's transition adds one extended/reset row, with a fresh id.
LEMMA CountTodayTransitions ==
    ASSUME TypeOK, NEW event \in {"extended", "reset"}, NEW value, NEW paid,
           paid \subseteq Int, IsFiniteSet(paid), CountToday(event, value, paid)
    PROVE  \E day : /\ Transitions' = Transitions \cup {day}
                    /\ day.local_date = Today /\ day.event = event
                    /\ day.id \in Nat /\ next_id <= day.id
<1> DEFINE day == Row(next_id + Cardinality(paid), event, current_streak, value,
                      Today, "submit", 0)
<1>1. Cardinality(paid) \in Nat
  BY FS_CardinalityType
<1>2. /\ day.local_date = Today /\ day.event = event
      /\ day.id = next_id + Cardinality(paid)
  BY DEF Row
<1> DEFINE earned == Row(next_id + Cardinality(paid) + 1, "adjusted", value, value,
                         Today, "earned", 0)
<1>3. \A r \in FreezeRows(paid) : r.event = "freeze_used"
  <2> SUFFICES ASSUME NEW id, NEW d
               PROVE  Row(id, "freeze_used", current_streak, current_streak,
                          d, "paid", 0).event = "freeze_used"
    BY DEF FreezeRows
  <2>1. QED
    BY DEF Row
<1>4. earned.event = "adjusted"
  BY DEF Row
<1>5. \/ streak_events' = streak_events \cup FreezeRows(paid) \cup {day} \cup {earned}
      \/ streak_events' = streak_events \cup FreezeRows(paid) \cup {day} \cup {}
  BY DEF CountToday
<1> HIDE DEF earned
<1> HIDE DEF day
<1>6. \A r : r \in Transitions' <=> r \in Transitions \cup {day}
  BY <1>2, <1>3, <1>4, <1>5 DEF Transitions
<1>7. QED
  BY <1>1, <1>2, <1>6 DEF TypeOK

\* A first submission of a day keeps SettledInv's two date conjuncts.
LEMMA CountTodayKeepsDates ==
    ASSUME SettledInv, NEW event \in {"extended", "reset"}, NEW value, NEW paid,
           paid \subseteq Int, IsFiniteSet(paid), CountToday(event, value, paid),
           event = "reset" => HasStats /\ last_active \notin {Today, Today - 1}
    PROVE  NoneAfterLastActive' /\ ResetOnlyAfterIdleDay'
<1>1. Today \in Int
  BY DatesAreIntegers DEF SettledInv, TypeOK, Today
<1>2. PICK day : /\ Transitions' = Transitions \cup {day}
                 /\ day.local_date = Today /\ day.event = event
                 /\ day.id \in Nat /\ next_id <= day.id
  BY CountTodayTransitions DEF SettledInv
<1>3. last_active' = Today
  BY DEF CountToday
<1>4. \A t \in Transitions : /\ t.local_date \in Int /\ t.local_date <= Today
                             /\ t.id \in Nat /\ t.id < next_id
                             /\ HasStats /\ t.local_date <= last_active
  BY <1>1 DEF SettledInv, TypeOK, Rows, Transitions, NoneAfterLastActive, HasStats,
         LastActiveNotAhead, LedgerExplainsStreak, IsChain
<1>5. NoneAfterLastActive'
  <2>1. HasStats'
    BY <1>1, <1>3, TimeAssumption DEF HasStats
  <2>2. QED
    BY <1>1, <1>2, <1>3, <1>4, <2>1 DEF NoneAfterLastActive
<1>6. \A r \in Resets' : \A t \in Transitions' :
          t.id < r.id => t.local_date # r.local_date - 1
  <2> SUFFICES ASSUME NEW r \in Transitions', r.event = "reset",
                      NEW t \in Transitions', t.id < r.id
               PROVE  t.local_date # r.local_date - 1
    BY DEF Resets, Transitions
  <2>1. next_id \in Nat
    BY DEF SettledInv, TypeOK
  <2>2. CASE r \in Transitions
    <3>1. t \in Transitions
      BY <1>2, <1>4, <2>1, <2>2
    <3>2. QED
      BY <2>2, <3>1 DEF SettledInv, ResetOnlyAfterIdleDay, Resets, Transitions
  <2>3. CASE r = day
    <3>1. t \in Transitions
      BY <1>2, <2>3
    <3>2. last_active \in Int /\ last_active <= Today /\ last_active \notin {Today, Today - 1}
      BY <1>2, <2>3 DEF SettledInv, TypeOK, HasStats, LastActiveNotAhead
    <3>3. t.local_date < Today - 1
      BY <1>1, <1>4, <3>1, <3>2
    <3>4. QED
      BY <1>1, <1>2, <1>4, <2>3, <3>1, <3>3
  <2>4. QED
    BY <1>2, <2>2, <2>3
<1>7. QED
  BY <1>5, <1>6 DEF ResetOnlyAfterIdleDay

\* A step that adds no extended/reset row keeps the two date conjuncts.
LEMMA NoTransitionKeepsDates ==
    ASSUME SettledInv, Transitions' = Transitions, last_active' = last_active
    PROVE  NoneAfterLastActive' /\ ResetOnlyAfterIdleDay'
<1>1. \A r : r \in Resets <=> r \in Transitions /\ r.event = "reset"
  BY DEF Resets, Transitions
<1>2. \A r : r \in Resets' <=> r \in Transitions' /\ r.event = "reset"
  BY DEF Resets, Transitions
<1>3. NoneAfterLastActive'
  BY DEF SettledInv, NoneAfterLastActive, HasStats
<1>4. ResetOnlyAfterIdleDay'
  BY <1>1, <1>2 DEF SettledInv, ResetOnlyAfterIdleDay
<1>5. QED
  BY <1>3, <1>4

\* Adding a row of another kind adds no transition.
LEMMA OtherRowIsNoTransition ==
    ASSUME NEW row, row.event \notin {"extended", "reset"},
           streak_events' = streak_events \cup {row}
    PROVE  Transitions' = Transitions
BY DEF Transitions

\* Every step of a user with one timezone keeps SettledInv.
LEMMA SettledIsInductive ==
    ASSUME NEW zone0, Offsets = {zone0}
    PROVE  SettledInv /\ [Next]_vars => SettledInv'
<1> SUFFICES ASSUME SettledInv, [Next]_vars PROVE SettledInv'
  OBVIOUS
<1>1. TypeOK' /\ LedgerExplainsStreak' /\ LastActiveNotAhead'
  BY TypesAreInductive, ChainIsInductive, NotAheadIsInductive DEF SettledInv
<1>2. CASE Submit
  <2>1. {} \subseteq Int /\ IsFiniteSet({})
    BY FS_EmptySet
  <2>2. CASE SubmitAgainToday
    BY <1>1, <2>2, NoTransitionKeepsDates DEF SubmitAgainToday, ledger, Transitions, SettledInv
  <2>3. CASE SubmitNextDay
    BY <1>1, <2>1, <2>3, CountTodayKeepsDates DEF SubmitNextDay, SettledInv
  <2>4. CASE SubmitAfterCoveredGap
    <3>1. Uncovered \subseteq Int /\ IsFiniteSet(Uncovered)
      BY <2>4, GapIsPayable DEF SubmitAfterCoveredGap, SettledInv
    <3>2. QED
      BY <1>1, <2>4, <3>1, CountTodayKeepsDates DEF SubmitAfterCoveredGap, SettledInv
  <2>5. CASE SubmitAfterGap
    BY <1>1, <2>1, <2>5, CountTodayKeepsDates DEF SubmitAfterGap, SettledInv
  <2>6. QED
    BY <1>2, <2>2, <2>3, <2>4, <2>5 DEF Submit
<1>3. CASE Repair
  <2>1. PICK reset \in RestorableResets : \E end \in RunEnds(reset) :
          RepairTo(reset, RestoresTo(reset, end))
    BY <1>3 DEF Repair
  <2>2. PICK end \in RunEnds(reset) : RepairTo(reset, RestoresTo(reset, end))
    BY <2>1
  <2> DEFINE row == Row(next_id, "repaired", current_streak, RestoresTo(reset, end),
                        Today, "repair", reset.id)
  <2>3. row.event = "repaired"
    BY DEF Row
  <2>4. streak_events' = streak_events \cup {row}
    BY <2>2 DEF RepairTo
  <2>5. last_active' = last_active
    BY <1>3 DEF Repair
  <2> HIDE DEF row
  <2>6. Transitions' = Transitions
    BY <2>3, <2>4, OtherRowIsNoTransition
  <2>7. QED
    BY <1>1, <2>5, <2>6, NoTransitionKeepsDates DEF SettledInv
<1>4. ASSUME NEW zone \in Offsets, ChangeTimezone(zone) PROVE SettledInv'
  BY <1>4 DEF ChangeTimezone, SettledInv, TypeOK
<1>5. ASSUME NEW date \in OutageDates, OutageFreeze(date) PROVE SettledInv'
  <2> DEFINE row == Row(next_id, "freeze_used", current_streak, current_streak, date, "outage", 0)
  <2>1. row.event = "freeze_used"
    BY DEF Row
  <2>2. streak_events' = streak_events \cup {row} /\ last_active' = last_active
    BY <1>5 DEF OutageFreeze, stats
  <2> HIDE DEF row
  <2>3. Transitions' = Transitions
    BY <2>1, <2>2, OtherRowIsNoTransition
  <2>4. QED
    BY <1>1, <2>2, <2>3, NoTransitionKeepsDates DEF SettledInv
<1>6. ASSUME NEW date \in OutageDates, GrantInitialFreezes(date) PROVE SettledInv'
  <2> DEFINE row == Row(next_id, "adjusted", current_streak, current_streak, date, "grant", 0)
  <2>1. row.event = "adjusted"
    BY DEF Row
  <2>2. streak_events' = streak_events \cup {row} /\ last_active' = last_active
    BY <1>6 DEF GrantInitialFreezes
  <2> HIDE DEF row
  <2>3. Transitions' = Transitions
    BY <2>1, <2>2, OtherRowIsNoTransition
  <2>4. QED
    BY <1>1, <2>2, <2>3, NoTransitionKeepsDates DEF SettledInv
<1>7. CASE Tick
  BY <1>1, <1>7, NoTransitionKeepsDates DEF Tick, stats, ledger, Transitions, SettledInv
<1>8. CASE UNCHANGED vars
  BY <1>1, <1>8, NoTransitionKeepsDates DEF vars, stats, ledger, Transitions, SettledInv
<1>9. QED
  BY <1>2, <1>3, <1>4, <1>5, <1>6, <1>7, <1>8 DEF Next

\* No row counts a day, or only the day of the legacy account's last activity.
LEMMA SettledInitially == Init => SettledInv
<1> SUFFICES ASSUME Init PROVE SettledInv
  OBVIOUS
<1>1. Today \in Int
  BY DatesAreIntegers DEF Init, Today
<1>2. TypeOK /\ LedgerExplainsStreak
  BY TypesInitially, ChainInitially
<1>3. LastActiveNotAhead
  BY NotAheadInitially
<1>4. CASE LEGACY
  <2>1. /\ streak_events = {Row(1, "extended", 0, 1, Today, "submit", 0)}
        /\ last_active = Today
    BY <1>4 DEF Init
  <2>2. \A r \in streak_events : r.event = "extended" /\ r.local_date = Today
    BY <2>1 DEF Row
  <2>3. NoneAfterLastActive
    BY <1>1, <2>1, <2>2, TimeAssumption DEF NoneAfterLastActive, HasStats, Transitions
  <2>4. ResetOnlyAfterIdleDay
    BY <2>2 DEF ResetOnlyAfterIdleDay, Resets
  <2>5. QED
    BY <1>2, <1>3, <2>3, <2>4 DEF SettledInv
<1>5. CASE ~LEGACY
  BY <1>2, <1>3, <1>5 DEF Init, SettledInv, NoneAfterLastActive, ResetOnlyAfterIdleDay,
     Resets, Transitions
<1>6. QED
  BY <1>4, <1>5

\* SettledUserKeepsStreak: for a user with one timezone, whatever the clock,
\* the operator and the configuration do, a submit on the day after a counted
\* one never resets, and no first submit of a day is refused by the unique
\* index. The two timezone findings are exactly what the hypothesis excludes.
THEOREM SettledUserKeepsStreak ==
    ASSUME NEW zone0, Offsets = {zone0}
    PROVE  Spec => [](ResetOnlyAfterIdleDay /\ IndexIsOnlyBackstop)
<1>1. SettledInv /\ [Next]_vars => SettledInv'
  BY SettledIsInductive
<1>2. SettledInv => ResetOnlyAfterIdleDay /\ IndexIsOnlyBackstop
  <2> SUFFICES ASSUME SettledInv, HasStats, last_active # Today
               PROVE  IndexAdmits(Today)
    BY DEF SettledInv, IndexIsOnlyBackstop
  <2>1. last_active \in Int /\ Today \in Int /\ last_active <= Today
    BY DatesAreIntegers DEF SettledInv, TypeOK, HasStats, LastActiveNotAhead, Today
  <2>2. \A t \in Transitions : t.local_date \in Int /\ t.local_date <= last_active
    BY DEF SettledInv, TypeOK, Rows, Transitions, NoneAfterLastActive
  <2>3. QED
    BY <2>1, <2>2 DEF IndexAdmits
<1>3. QED
  BY <1>1, <1>2, SettledInitially, PTL DEF Spec

-----------------------------------------------------------------------------
(***************************************************************************)
(* What a gap costs, and what it must have.                                *)
(***************************************************************************)
Freezes == {r \in streak_events : r.event = "freeze_used"}

\* The rows of the days paid for: after every row there was, one per day.
LEMMA FreezeRowsAre ==
    ASSUME TypeOK, NEW paid, paid \subseteq Int, IsFiniteSet(paid)
    PROVE  /\ \A f \in FreezeRows(paid) :
                /\ f.id \in next_id .. (next_id + Cardinality(paid) - 1)
                /\ f.event = "freeze_used" /\ f.why = "paid" /\ f.local_date \in paid
                /\ f.to_value = current_streak
           /\ \A d \in paid : \E f \in FreezeRows(paid) : f.local_date = d
           /\ \A f, g \in FreezeRows(paid) : f.local_date = g.local_date => f = g
<1> DEFINE RowFor(d) == Row(next_id + Rank(paid, d), "freeze_used",
                            current_streak, current_streak, d, "paid", 0)
<1>1. FreezeRows(paid) = {RowFor(d) : d \in paid}
  BY DEF FreezeRows, Rank
<1>2. \A d \in paid : /\ RowFor(d).id = next_id + Rank(paid, d)
                      /\ RowFor(d).event = "freeze_used" /\ RowFor(d).why = "paid"
                      /\ RowFor(d).local_date = d /\ RowFor(d).to_value = current_streak
  BY DEF Row
<1>3. Cardinality(paid) \in Nat /\ \A d \in paid : Rank(paid, d) \in 0 .. (Cardinality(paid) - 1)
  BY RanksAreDense
<1>4. next_id \in Nat
  BY DEF TypeOK
<1> HIDE DEF RowFor
<1>5. \A d \in paid : RowFor(d).id \in next_id .. (next_id + Cardinality(paid) - 1)
  BY <1>2, <1>3, <1>4
<1>6. QED
  BY <1>1, <1>2, <1>5

\* What the day's transition adds, by kind of row.
Counted(day, event, value, paid) ==
    /\ Transitions' = Transitions \cup {day}
    /\ day.id = next_id + Cardinality(paid) /\ day.event = event /\ day.why = "submit"
    /\ day.from_value = current_streak /\ day.to_value = value
    /\ day.local_date = Today /\ day.created_at = now
    /\ Freezes' = Freezes \cup FreezeRows(paid)
    /\ \A r \in streak_events' :
         \/ r \in streak_events \cup FreezeRows(paid) \cup {day}
         \/ /\ r.id = day.id + 1 /\ r.event = "adjusted" /\ r.why = "earned"
            /\ r.to_value = value

\* The rows a counted day adds: freezes, one transition, perhaps a freeze earned.
LEMMA CountTodayRows ==
    ASSUME TypeOK, NEW event \in {"extended", "reset"}, NEW value, NEW paid,
           paid \subseteq Int, IsFiniteSet(paid), CountToday(event, value, paid)
    PROVE  \E day : Counted(day, event, value, paid)
<1> DEFINE n == next_id + Cardinality(paid)
           day == Row(n, event, current_streak, value, Today, "submit", 0)
           earned == Row(n + 1, "adjusted", value, value, Today, "earned", 0)
<1>1. /\ day.id = n /\ day.event = event /\ day.why = "submit" /\ day.from_value = current_streak
      /\ day.to_value = value /\ day.local_date = Today /\ day.created_at = now
      /\ earned.id = n + 1 /\ earned.event = "adjusted" /\ earned.why = "earned"
      /\ earned.to_value = value
  BY DEF Row
<1>2. \/ /\ streak_events' = (streak_events \cup FreezeRows(paid)) \cup {day}
         /\ next_id' = n + 1
      \/ /\ streak_events' = (streak_events \cup FreezeRows(paid)) \cup {day, earned}
         /\ next_id' = n + 2
  BY DEF CountToday
<1> HIDE DEF day, earned, n
<1>3. \A f \in FreezeRows(paid) : f.event = "freeze_used"
  BY FreezeRowsAre
<1>4. Transitions' = Transitions \cup {day}
  BY <1>1, <1>2, <1>3 DEF Transitions
<1>5. Freezes' = Freezes \cup FreezeRows(paid)
  BY <1>1, <1>2, <1>3 DEF Freezes
<1>6. n = next_id + Cardinality(paid)
  BY DEF n
<1>7. QED
  BY <1>1, <1>2, <1>4, <1>5, <1>6 DEF Counted

\* The last active day is never after the newest counted one: a move only pulls
\* it back.
NewestIsLast ==
    \A t \in Transitions :
        HasStats /\ ((\A u \in Transitions : u.id <= t.id) => last_active <= t.local_date)

GapsInv == NoDayCoveredTwice /\ EveryGapCovered /\ NewestIsLast

\* Ids are numbers, and those of a ledger lie behind the next one.
LEMMA IdsAreOld ==
    ASSUME TypeOK, LedgerExplainsStreak
    PROVE  /\ next_id \in Nat
           /\ \A r \in streak_events : r.id \in Nat /\ 1 <= r.id /\ r.id < next_id
           /\ \A r, s \in streak_events : r.id = s.id => r = s
BY DEF TypeOK, LedgerExplainsStreak, IsChain

\* A day that is counted: its gap is covered, by what was there and what is
\* paid for now.
LEMMA CountTodayCovers ==
    ASSUME TypeOK, LedgerExplainsStreak, GapsInv,
           NEW event \in {"extended", "reset"}, NEW value, NEW paid,
           paid \subseteq Int, IsFiniteSet(paid), CountToday(event, value, paid),
           paid \cap CoveredDates = {},
           event = "extended" /\ HasStats => MissedDates \subseteq CoveredDates \cup paid
    PROVE  GapsInv'
<1>1. Today \in Int
  BY DatesAreIntegers DEF TypeOK, Today
<1>0. PICK day : Counted(day, event, value, paid)
  BY CountTodayRows
<1>2. /\ Transitions' = Transitions \cup {day}
      /\ day.id = next_id + Cardinality(paid) /\ day.event = event /\ day.why = "submit"
      /\ day.local_date = Today
      /\ Freezes' = Freezes \cup FreezeRows(paid)
  BY <1>0 DEF Counted
<1>3. Cardinality(paid) \in Nat
  BY FS_CardinalityType
<1>4. /\ \A f \in FreezeRows(paid) : f.id < day.id /\ f.local_date \in paid
      /\ \A d \in paid : \E f \in FreezeRows(paid) : f.local_date = d
      /\ \A f, g \in FreezeRows(paid) : f.local_date = g.local_date => f = g
  <2>1. \A f \in FreezeRows(paid) :
            f.id \in next_id .. (next_id + Cardinality(paid) - 1) /\ f.local_date \in paid
    BY FreezeRowsAre
  <2>2. /\ \A d \in paid : \E f \in FreezeRows(paid) : f.local_date = d
        /\ \A f, g \in FreezeRows(paid) : f.local_date = g.local_date => f = g
    BY FreezeRowsAre
  <2>3. next_id \in Nat
    BY DEF TypeOK
  <2>4. \A f \in FreezeRows(paid) : f.id < day.id
    BY <1>2, <1>3, <2>1, <2>3
  <2>5. QED
    BY <2>1, <2>2, <2>4
<1>5. day.id \in Nat /\ next_id <= day.id /\ next_id \in Nat
  BY <1>2, <1>3, IdsAreOld
<1>6. \A t \in Transitions : t.id \in Nat /\ t.id < next_id
  BY IdsAreOld DEF Transitions
<1>7. \A f \in Freezes : f.id \in Nat /\ f.id < next_id /\ f.local_date \in CoveredDates
  BY IdsAreOld DEF Freezes, CoveredDates
<1>8. \A d \in CoveredDates : \E f \in Freezes : f.local_date = d
  BY DEF Freezes, CoveredDates
<1>9. NoDayCoveredTwice'
  <2>1. \A f, g \in Freezes' : f.local_date = g.local_date => f = g
    BY <1>2, <1>4, <1>7 DEF GapsInv, NoDayCoveredTwice, Freezes
  <2>2. QED
    BY <2>1 DEF NoDayCoveredTwice, Freezes
<1>10. ASSUME NEW t \in Transitions', NEW r \in Transitions',
              r.event = "extended", t.id < r.id,
              \A u \in Transitions' : u.id <= t.id \/ u.id >= r.id,
              NEW d \in (t.local_date + 1) .. (r.local_date - 1)
       PROVE  \E f \in Freezes' : f.local_date = d /\ f.id < r.id
  <2>1. CASE r \in Transitions
    <3>1. t \in Transitions
      BY <1>2, <1>5, <1>6, <1>10, <2>1
    <3>2. \E f \in streak_events : f.event = "freeze_used" /\ f.local_date = d /\ f.id < r.id
      BY <1>2, <1>10, <2>1, <3>1 DEF GapsInv, EveryGapCovered
    <3>3. QED
      BY <1>2, <3>2 DEF Freezes
  <2>2. CASE r = day
    <3>1. t \in Transitions
      BY <1>2, <1>5, <1>10, <2>2
    <3>2. \A u \in Transitions : u.id <= t.id
      BY <1>2, <1>5, <1>6, <1>10, <2>2, <3>1
    <3>3. HasStats /\ last_active <= t.local_date
      BY <3>1, <3>2 DEF GapsInv, NewestIsLast
    <3>4. last_active \in Int /\ t.local_date \in Int
      BY <3>1, <3>3 DEF HasStats, TypeOK, Rows, Transitions
    <3>5. d \in MissedDates
      BY <1>1, <1>2, <1>10, <2>2, <3>3, <3>4 DEF MissedDates
    <3>6. d \in CoveredDates \cup paid
      BY <1>2, <1>10, <2>2, <3>3, <3>5
    <3>7. CASE d \in CoveredDates
      BY <1>2, <1>5, <1>7, <1>8, <2>2, <3>7
    <3>8. CASE d \in paid
      BY <1>2, <1>4, <2>2, <3>8
    <3>9. QED
      BY <3>6, <3>7, <3>8
  <2>3. QED
    BY <1>2, <1>10, <2>1, <2>2
<1>11. EveryGapCovered'
  BY <1>10 DEF EveryGapCovered, Freezes
<1>12. NewestIsLast'
  <2>1. last_active' = Today
    BY DEF CountToday
  <2>2. Today # NoDate
    BY <1>1, TimeAssumption
  <2>3. ASSUME NEW t \in Transitions', \A u \in Transitions' : u.id <= t.id
        PROVE  last_active' <= t.local_date
    <3>1. t = day
      BY <1>2, <1>5, <1>6, <2>3
    <3>2. QED
      BY <1>1, <1>2, <2>1, <3>1
  <2>4. QED
    BY <2>1, <2>2, <2>3 DEF NewestIsLast, HasStats
<1>13. QED
  BY <1>9, <1>11, <1>12 DEF GapsInv

\* A step that counts no day covers at most one that was not, and may pull the
\* last active day back.
LEMMA OtherStepCovers ==
    ASSUME TypeOK, GapsInv, Transitions' = Transitions, streak_events \subseteq streak_events',
           \/ Freezes' = Freezes
           \/ \E f : Freezes' = Freezes \cup {f} /\ f.local_date \notin CoveredDates,
           \/ last_active' = last_active
           \/ HasStats /\ last_active' \in Int /\ last_active' < last_active
    PROVE  GapsInv'
<1>1. NoDayCoveredTwice'
  <2>1. \A f \in Freezes : f.local_date \in CoveredDates
    BY DEF Freezes, CoveredDates
  <2>2. \A f, g \in Freezes' : f.local_date = g.local_date => f = g
    BY <2>1 DEF GapsInv, NoDayCoveredTwice, Freezes
  <2>3. QED
    BY <2>2 DEF NoDayCoveredTwice, Freezes
<1>2. EveryGapCovered'
  BY DEF GapsInv, EveryGapCovered
<1>3. NewestIsLast'
  <2>1. \A t \in Transitions : t.local_date \in Int
    BY DEF TypeOK, Rows, Transitions
  <2>2. CASE last_active' = last_active
    BY <2>2 DEF GapsInv, NewestIsLast, HasStats
  <2>3. CASE HasStats /\ last_active' \in Int /\ last_active' < last_active
    <3>1. last_active \in Int /\ last_active' # NoDate
      BY <2>3, TimeAssumption DEF HasStats, TypeOK
    <3>2. QED
      BY <2>1, <2>3, <3>1 DEF GapsInv, NewestIsLast, HasStats
  <2>4. QED
    BY <2>2, <2>3
<1>4. QED
  BY <1>1, <1>2, <1>3 DEF GapsInv

\* Action by action: only a submission counts a day, only it and an outage fill
\* cover one.
LEMMA GapsStep ==
    TypeOK /\ LedgerExplainsStreak /\ GapsInv /\ [Next]_vars => GapsInv'
<1> SUFFICES ASSUME TypeOK, LedgerExplainsStreak, GapsInv, [Next]_vars
             PROVE  GapsInv'
  OBVIOUS
<1>1. CASE Submit
  <2>1. {} \subseteq Int /\ IsFiniteSet({}) /\ {} \cap CoveredDates = {}
    BY FS_EmptySet
  <2>2. CASE SubmitAgainToday
    BY <2>2, OtherStepCovers DEF SubmitAgainToday, ledger, Transitions, Freezes
  <2>3. CASE SubmitNextDay
    <3>1. HasStats => MissedDates = {}
      BY <2>3, DatesAreIntegers DEF SubmitNextDay, MissedDates, TypeOK, Today, HasStats
    <3>2. QED
      BY <2>1, <2>3, <3>1, CountTodayCovers DEF SubmitNextDay
  <2>4. CASE SubmitAfterCoveredGap
    <3>1. Uncovered \cap CoveredDates = {} /\ MissedDates \subseteq CoveredDates \cup Uncovered
      BY DEF Uncovered
    <3>2. QED
      BY <2>4, <3>1, GapIsPayable, CountTodayCovers DEF SubmitAfterCoveredGap
  <2>5. CASE SubmitAfterGap
    BY <2>1, <2>5, CountTodayCovers DEF SubmitAfterGap
  <2>6. QED
    BY <1>1, <2>2, <2>3, <2>4, <2>5 DEF Submit
<1>2. CASE Repair
  <2>1. \E from, to, ref : streak_events' = streak_events \cup
            {Row(next_id, "repaired", from, to, Today, "repair", ref)}
    BY <1>2 DEF Repair, RepairTo
  <2>2. Transitions' = Transitions /\ Freezes' = Freezes /\ streak_events \subseteq streak_events'
    BY <2>1 DEF Row, Transitions, Freezes
  <2>3. QED
    BY <1>2, <2>2, OtherStepCovers DEF Repair
<1>3. ASSUME NEW zone \in Offsets, ChangeTimezone(zone) PROVE GapsInv'
  <2>1. Transitions' = Transitions /\ Freezes' = Freezes /\ streak_events \subseteq streak_events'
    BY <1>3 DEF ChangeTimezone, ledger, Row, Transitions, Freezes
  <2>2. LocalDate(zone) \in Int
    BY DatesAreIntegers DEF TypeOK
  <2>3. QED
    BY <1>3, <2>1, <2>2, OtherStepCovers DEF ChangeTimezone
<1>4. ASSUME NEW date \in OutageDates, OutageFreeze(date) PROVE GapsInv'
  <2>1. PICK f : f = Row(next_id, "freeze_used", current_streak, current_streak, date, "outage", 0)
    OBVIOUS
  <2>2. f.event = "freeze_used" /\ f.local_date = date
    BY <2>1 DEF Row
  <2>3. streak_events' = streak_events \cup {f} /\ date \notin CoveredDates
    BY <1>4, <2>1 DEF OutageFreeze
  <2>4. Transitions' = Transitions /\ Freezes' = Freezes \cup {f}
    BY <2>2, <2>3 DEF Transitions, Freezes
  <2>5. QED
    BY <1>4, <2>2, <2>3, <2>4, OtherStepCovers DEF OutageFreeze, stats
<1>5. ASSUME NEW date \in OutageDates, GrantInitialFreezes(date) PROVE GapsInv'
  <2>1. Transitions' = Transitions /\ Freezes' = Freezes /\ streak_events \subseteq streak_events'
    BY <1>5 DEF GrantInitialFreezes, Row, Transitions, Freezes
  <2>2. QED
    BY <1>5, <2>1, OtherStepCovers DEF GrantInitialFreezes
<1>6. CASE Tick
  BY <1>6, OtherStepCovers DEF Tick, stats, ledger, Transitions, Freezes
<1>7. CASE UNCHANGED vars
  BY <1>7, OtherStepCovers DEF vars, stats, ledger, Transitions, Freezes
<1>8. QED
  BY <1>1, <1>2, <1>3, <1>4, <1>5, <1>6, <1>7 DEF Next

\* One counted day at most, so no gap.
LEMMA GapsInitially == Init => GapsInv
<1> SUFFICES ASSUME Init PROVE GapsInv
  OBVIOUS
<1>1. Today \in Int /\ Today # NoDate
  BY DatesAreIntegers, TimeAssumption DEF Init, Today
<1>2. CASE LEGACY
  <2>1. PICK r : r = Row(1, "extended", 0, 1, Today, "submit", 0)
    OBVIOUS
  <2>2. r.event = "extended" /\ r.local_date = Today /\ r.id = 1
    BY <2>1 DEF Row
  <2>3. streak_events = {r} /\ last_active = Today
    BY <1>2, <2>1 DEF Init
  <2>4. QED
    BY <1>1, <2>2, <2>3 DEF GapsInv, NoDayCoveredTwice, EveryGapCovered, NewestIsLast,
                            Transitions, HasStats
<1>3. CASE ~LEGACY
  BY <1>3 DEF Init, GapsInv, NoDayCoveredTwice, EveryGapCovered, NewestIsLast, Transitions
<1>4. QED
  BY <1>2, <1>3

\* GapsArePaidOnce: a streak is carried over a gap only when every day of it is
\* covered, each by one row, wherever the user moves and whatever the operator
\* fills (try_cover_gap, D-116).
THEOREM GapsArePaidOnce == Spec => []GapsPaidExactlyOnce
<1>1. Init => TypeOK /\ LedgerExplainsStreak /\ GapsInv
  BY TypesInitially, ChainInitially, GapsInitially
<1>2. TypeOK /\ LedgerExplainsStreak /\ GapsInv /\ [Next]_vars
        => (TypeOK /\ LedgerExplainsStreak /\ GapsInv)'
  BY TypesAreInductive, ChainIsInductive, GapsStep
<1>3. GapsInv => GapsPaidExactlyOnce
  BY DEF GapsInv, GapsPaidExactlyOnce
<1>4. QED
  BY <1>1, <1>2, <1>3, PTL DEF Spec

-----------------------------------------------------------------------------
(***************************************************************************)
(* What a repair gives back.                                               *)
(***************************************************************************)
Upto(T, i) == {t \in T : t.id <= i}

Since(T, i) == {t \in T : i <= t.id}

Between(T, i, j) == {t \in T : i <= t.id /\ t.id <= j}

\* U is T and one row more: what there is of it up to, since and between ids.
Grown(T, U, day) ==
    /\ IsFiniteSet(U) /\ Cardinality(T) \in Nat /\ Cardinality(U) = Cardinality(T) + 1
    /\ \A i \in Nat : i < day.id => Upto(U, i) = Upto(T, i)
    /\ \A i \in Nat : day.id <= i => Upto(U, i) = U
    /\ \A i \in Nat : Cardinality(Since(T, i)) \in Nat
    /\ \A i \in Nat : i <= day.id =>
         Cardinality(Since(U, i)) = Cardinality(Since(T, i)) + 1
    /\ \A i, j \in Nat : j < day.id => Between(U, i, j) = Between(T, i, j)
    /\ \A i \in Nat : Between(U, i, day.id) = Since(U, i)

\* One row more, with the greatest id.
LEMMA OneMore ==
    ASSUME NEW T, IsFiniteSet(T), NEW day, day.id \in Nat,
           \A t \in T : t.id \in Nat /\ t.id < day.id,
           NEW U, U = T \cup {day}
    PROVE  Grown(T, U, day)
<1>1. day \notin T
  OBVIOUS
<1>2. IsFiniteSet(U) /\ Cardinality(T) \in Nat /\ Cardinality(U) = Cardinality(T) + 1
  BY <1>1, FS_AddElement, FS_CardinalityType
<1>3. ASSUME NEW i \in Nat
      PROVE  /\ Cardinality(Since(T, i)) \in Nat
             /\ i <= day.id => Cardinality(Since(U, i)) = Cardinality(Since(T, i)) + 1
  <2>1. IsFiniteSet(Since(T, i))
    BY FS_Subset DEF Since
  <2>2. day \notin Since(T, i)
    BY <1>1 DEF Since
  <2>3. i <= day.id => Since(U, i) = Since(T, i) \cup {day}
    BY DEF Since
  <2>4. QED
    BY <2>1, <2>2, <2>3, FS_AddElement, FS_CardinalityType
<1>4. /\ \A i \in Nat : i < day.id => Upto(U, i) = Upto(T, i)
      /\ \A i \in Nat : day.id <= i => Upto(U, i) = U
  BY DEF Upto
<1>5. /\ \A i, j \in Nat : j < day.id => Between(U, i, j) = Between(T, i, j)
      /\ \A i \in Nat : Between(U, i, day.id) = Since(U, i)
  BY DEF Between, Since
<1>6. QED
  BY <1>2, <1>3, <1>4, <1>5 DEF Grown

\* No two zones are more than a day apart.
OneDayApart == \A y, z \in Offsets : y - z <= DAY_LENGTH

\* The dates of the transitions follow their ids, and so do their instants.
InOrder ==
    \A t, u \in Transitions :
        t.id < u.id => t.local_date < u.local_date /\ t.created_at <= u.created_at

\* No transition is more than a day ahead of the last active day, or of today in
\* any zone.
InReach ==
    \A t \in Transitions :
        /\ HasStats /\ t.created_at <= now /\ t.local_date <= last_active + 1
        /\ \A zone \in Offsets : t.local_date <= LocalDate(zone) + 1

\* A value is never more than the days that were counted for it.
WorkedFor ==
    \A r \in streak_events : r.to_value <= Cardinality(Upto(Transitions, r.id))

Repaired(r) == \E q \in streak_events : q.event = "repaired" /\ q.ref = r.id

\* Since the newest reset, as long as it is not repaired, the streak counts days.
Built ==
    \A r \in Resets :
        (\A s \in Resets : s.id <= r.id) /\ ~Repaired(r) =>
            /\ current_streak = Cardinality(Since(Transitions, r.id))
            /\ \A t \in Since(Transitions, r.id) :
                   t.to_value = Cardinality(Between(Transitions, r.id, t.id))

\* What a repair row says.
Anchored(q) ==
    /\ q.event = "repaired"
    /\ \A p \in streak_events : p.why = "repair" /\ p.ref = q.ref => p = q
    /\ \E r \in Resets :
        /\ r.id = q.ref
        /\ q.to_value = r.from_value
               + Cardinality({t \in Transitions : r.id <= t.id /\ t.id < q.id})

AllAnchored == \A q \in streak_events : q.why = "repair" => Anchored(q)

RepairInv ==
    /\ IsFiniteSet(Transitions)
    /\ InOrder /\ InReach
    /\ WorkedFor /\ Built /\ AllAnchored /\ NoManufacturedStreak

Base == TypeOK /\ LedgerExplainsStreak /\ LastActiveNotAhead

\* Row by row: what a step that counts no day must leave alone.
LEMMA OtherStepRepairs ==
    ASSUME Base, RepairInv, Transitions' = Transitions, current_streak' = current_streak,
           \/ streak_events' = streak_events
           \/ \E row : /\ streak_events' = streak_events \cup {row}
                       /\ row.id = next_id /\ row.to_value = current_streak
                       /\ row.why # "repair",
           InReach'
    PROVE  RepairInv'
<1>1. PICK T : T = Transitions /\ T = Transitions'
  OBVIOUS
<1>2. /\ next_id \in Nat
      /\ \A t \in T : t.id \in Nat /\ t.id < next_id
      /\ \A r \in streak_events : r.id \in Nat
  BY <1>1, IdsAreOld DEF Base, Transitions
<1>3. Resets' = Resets /\ Resets \subseteq T
  BY <1>1 DEF Resets, Transitions
<1>4. streak_events \subseteq streak_events'
  OBVIOUS
<1>5. IsFiniteSet(Transitions)' /\ InOrder' /\ NoManufacturedStreak'
  BY DEF RepairInv, InOrder, NoManufacturedStreak
<1>6. WorkedFor'
  <2>1. Upto(T, next_id) = T
    BY <1>2 DEF Upto
  <2>2. current_streak <= Cardinality(T)
    BY <1>1 DEF RepairInv, NoManufacturedStreak
  <2>3. \A r \in streak_events' : r.to_value <= Cardinality(Upto(T, r.id))
    BY <1>1, <2>1, <2>2 DEF RepairInv, WorkedFor
  <2>4. QED
    BY <1>1, <2>3 DEF WorkedFor
<1>7. Built'
  BY <1>1, <1>3, <1>4 DEF RepairInv, Built, Repaired
<1>8. AllAnchored'
  <2>1. \A q \in streak_events' : q.why = "repair" => q \in streak_events
    OBVIOUS
  <2>2. ASSUME NEW q \in streak_events, q.why = "repair" PROVE Anchored(q)'
    <3>1. Anchored(q)
      BY <2>2 DEF RepairInv, AllAnchored
    <3>2. QED
      BY <1>3, <2>1, <3>1 DEF Anchored
  <2>3. QED
    BY <2>1, <2>2 DEF AllAnchored
<1>9. QED
  BY <1>5, <1>6, <1>7, <1>8 DEF RepairInv

\* A day later is the next date.
LEMMA NextDay ==
    ASSUME NEW a \in Int, NEW d \in Nat \ {0} PROVE (a + d) \div d = (a \div d) + 1
<1>1. PICK q \in Int : q = a \div d /\ d * q <= a /\ a < d * q + d
  OBVIOUS
<1>2. PICK r \in Int : r = (a + d) \div d /\ d * r <= a + d /\ a + d < d * r + d
  OBVIOUS
<1>3. d * q + d = d * (q + 1) /\ d * r + d = d * (r + 1)
  BY <1>1, <1>2
<1>4. d * r < d * (q + 1) + d /\ d * (q + 1) < d * r + d
  BY <1>1, <1>2, <1>3
<1>5. ~(r > q + 1) /\ ~(r < q + 1)
  BY <1>1, <1>2, <1>4
<1>6. QED
  BY <1>1, <1>2, <1>5

\* It is at most a day later in one zone than in another.
LEMMA ZonesAgree ==
    ASSUME OneDayApart, now \in Int, NEW y \in Offsets, NEW z \in Offsets
    PROVE  LocalDate(y) <= LocalDate(z) + 1
<1>1. /\ now + y \in Int /\ now + z \in Int /\ (now + z) + DAY_LENGTH \in Int
      /\ now + y <= (now + z) + DAY_LENGTH
  BY TimeAssumption DEF OneDayApart
<1>2. (now + y) \div DAY_LENGTH <= ((now + z) + DAY_LENGTH) \div DAY_LENGTH
  BY <1>1, DivisionIsMonotone, TimeAssumption
<1>3. ((now + z) + DAY_LENGTH) \div DAY_LENGTH = ((now + z) \div DAY_LENGTH) + 1
  BY <1>1, NextDay, TimeAssumption
<1>4. QED
  BY <1>2, <1>3 DEF LocalDate

\* The dates of a day counted now: later than all that were counted.
LEMMA CountTodayInOrder ==
    ASSUME OneDayApart, Base, RepairInv,
           NEW event \in {"extended", "reset"}, NEW value, NEW paid, NEW day,
           CountToday(event, value, paid), Counted(day, event, value, paid),
           next_id <= day.id, day.id \in Nat,
           now' = now, tz' = tz, last_active # Today
    PROVE  InOrder' /\ InReach'
<1>1. /\ now \in Int /\ tz \in Offsets /\ Today \in Int
      /\ \A zone \in Offsets : LocalDate(zone) \in Int
  BY DatesAreIntegers DEF Base, TypeOK, Today
<1>2. \A t \in Transitions : /\ t.local_date \in Int /\ t.created_at \in Int
                             /\ t.id \in Nat /\ t.id < day.id
  BY IdsAreOld DEF Base, TypeOK, Rows, Transitions
<1>3. /\ Transitions' = Transitions \cup {day}
      /\ day.local_date = Today /\ day.created_at = now
  BY DEF Counted
<1>4. ASSUME NEW t \in Transitions PROVE t.local_date < Today /\ t.created_at <= now
  <2>1. HasStats /\ t.local_date <= last_active + 1 /\ t.created_at <= now
    BY DEF RepairInv, InReach
  <2>2. last_active \in Int /\ last_active < Today
    BY <1>1, <2>1 DEF Base, LastActiveNotAhead, HasStats, TypeOK
  <2>3. t.local_date # Today
    BY DEF CountToday, IndexAdmits
  <2>4. QED
    BY <1>1, <1>2, <2>1, <2>2, <2>3
<1>5. InOrder'
  <2>1. ASSUME NEW t \in Transitions', NEW u \in Transitions', t.id < u.id
        PROVE  t.local_date < u.local_date /\ t.created_at <= u.created_at
    <3>1. t \in Transitions
      BY <1>2, <1>3, <2>1
    <3>2. CASE u \in Transitions
      BY <2>1, <3>1, <3>2 DEF RepairInv, InOrder
    <3>3. CASE u = day
      BY <1>3, <1>4, <3>1, <3>3
    <3>4. QED
      BY <1>3, <3>2, <3>3
  <2>2. QED
    BY <2>1 DEF InOrder
<1>6. \A zone \in Offsets : Today <= LocalDate(zone) + 1
  BY <1>1, ZonesAgree DEF Today
<1>7. InReach'
  <2>1. last_active' = Today /\ Today # NoDate
    BY <1>1, TimeAssumption DEF CountToday
  <2>2. \A zone \in Offsets : LocalDate(zone)' = LocalDate(zone)
    BY DEF LocalDate
  <2>3. ASSUME NEW t \in Transitions'
        PROVE  t.created_at <= now /\ t.local_date <= Today + 1
               /\ \A zone \in Offsets : t.local_date <= LocalDate(zone) + 1
    <3>1. CASE t = day
      BY <1>1, <1>3, <1>6, <3>1
    <3>2. CASE t \in Transitions
      BY <1>1, <1>2, <1>4, <3>2 DEF RepairInv, InReach
    <3>3. QED
      BY <1>3, <3>1, <3>2
  <2>4. QED
    BY <2>1, <2>2, <2>3 DEF InReach, HasStats
<1>8. QED
  BY <1>5, <1>7

\* The day's transition: one day more than were counted, or the first of a run.
LEMMA CountTodayRepairs ==
    ASSUME OneDayApart, Base, RepairInv,
           NEW event \in {"extended", "reset"}, NEW value, NEW paid,
           paid \subseteq Int, IsFiniteSet(paid), CountToday(event, value, paid),
           \/ event = "extended" /\ value = current_streak + 1
           \/ event = "reset" /\ value = 1,
           now' = now, tz' = tz, last_active # Today
    PROVE  RepairInv'
<1>1. PICK day : Counted(day, event, value, paid)
  BY CountTodayRows DEF Base
<1>2. Cardinality(paid) \in Nat /\ current_streak \in Nat
  BY FS_CardinalityType DEF Base, TypeOK
<1>3. next_id \in Nat /\ day.id \in Nat /\ next_id <= day.id
  BY <1>1, <1>2, IdsAreOld DEF Base, Counted
<1>4. InOrder' /\ InReach'
  BY <1>1, <1>3, CountTodayInOrder
<1>5. PICK T : T = Transitions
  OBVIOUS
<1>6. PICK U : U = Transitions'
  OBVIOUS
<1>7. U = T \cup {day} /\ IsFiniteSet(T)
  BY <1>1, <1>5, <1>6 DEF Counted, RepairInv
<1>8. \A t \in T : t.id \in Nat /\ t.id < day.id
  BY <1>3, <1>5, IdsAreOld DEF Base, Transitions
<1>9. /\ IsFiniteSet(U) /\ Cardinality(T) \in Nat /\ Cardinality(U) = Cardinality(T) + 1
      /\ \A i \in Nat : i < day.id => Upto(U, i) = Upto(T, i)
      /\ \A i \in Nat : day.id <= i => Upto(U, i) = U
      /\ \A i \in Nat : Cardinality(Since(T, i)) \in Nat
      /\ \A i \in Nat : i <= day.id => Cardinality(Since(U, i)) = Cardinality(Since(T, i)) + 1
      /\ \A i, j \in Nat : j < day.id => Between(U, i, j) = Between(T, i, j)
      /\ \A i \in Nat : Between(U, i, day.id) = Since(U, i)
  <2>1. Grown(T, U, day)
    BY <1>3, <1>7, <1>8, OneMore
  <2>2. QED
    BY <2>1 DEF Grown
<1>10. current_streak' = value /\ value \in Nat
  BY <1>2 DEF CountToday
<1>11. current_streak <= Cardinality(T)
  BY <1>5 DEF RepairInv, NoManufacturedStreak
<1>12. value <= Cardinality(U)
  BY <1>2, <1>9, <1>11
<1>13. WorkedFor'
  <2>1. ASSUME NEW r \in streak_events' PROVE r.to_value <= Cardinality(Upto(U, r.id))
    <3>1. CASE r \in streak_events
      <4>1. r.id \in Nat /\ r.id < day.id
        BY <1>3, <3>1, IdsAreOld DEF Base
      <4>2. r.to_value <= Cardinality(Upto(T, r.id))
        BY <1>5, <3>1 DEF RepairInv, WorkedFor
      <4>3. QED
        BY <1>9, <4>1, <4>2
    <3>2. CASE r \in FreezeRows(paid)
      <4>1. /\ r.id \in next_id .. (next_id + Cardinality(paid) - 1)
            /\ r.to_value = current_streak
        BY <3>2, FreezeRowsAre DEF Base
      <4>2. r.id \in Nat /\ next_id <= r.id /\ r.id < day.id
        BY <1>1, <1>2, <1>3, <4>1 DEF Counted
      <4>3. Upto(T, r.id) = T
        <5>1. \A t \in T : t.id \in Nat /\ t.id < next_id
          BY <1>5, IdsAreOld DEF Base, Transitions
        <5>2. QED
          BY <1>3, <4>2, <5>1 DEF Upto
      <4>4. QED
        BY <1>9, <1>11, <4>1, <4>2, <4>3
    <3>3. CASE r = day
      BY <1>1, <1>3, <1>9, <1>12, <3>3 DEF Counted
    <3>4. CASE r.id = day.id + 1 /\ r.to_value = value
      BY <1>3, <1>9, <1>12, <3>4
    <3>5. QED
      BY <1>1, <3>1, <3>2, <3>3, <3>4 DEF Counted
  <2>2. QED
    BY <1>6, <2>1 DEF WorkedFor
<1>14. streak_events \subseteq streak_events'
  BY DEF CountToday
<1>15. Resets' = IF event = "reset" THEN Resets \cup {day} ELSE Resets
  <2>1. Resets' = {t \in Transitions' : t.event = "reset"} /\ Resets = {t \in Transitions : t.event = "reset"}
    BY DEF Resets, Transitions
  <2>2. QED
    BY <1>1, <2>1 DEF Counted
<1>16. \A r \in Resets : r \in T /\ r.id \in Nat /\ r.id < day.id
  BY <1>5, <1>8 DEF Resets, Transitions
<1>17. Built'
  <2>1. ASSUME NEW r \in Resets', \A s \in Resets' : s.id <= r.id, ~Repaired(r)'
        PROVE  /\ value = Cardinality(Since(U, r.id))
               /\ \A t \in Since(U, r.id) : t.to_value = Cardinality(Between(U, r.id, t.id))
    <3>1. CASE event = "reset"
      <4>1. r = day
        BY <1>3, <1>15, <1>16, <2>1, <3>1
      <4>2. Since(U, day.id) = {day} /\ Between(U, day.id, day.id) = {day}
        BY <1>3, <1>7, <1>8 DEF Since, Between
      <4>3. Cardinality({day}) = 1
        BY FS_Singleton
      <4>4. value = 1
        BY <3>1
      <4>5. QED
        BY <1>1, <4>1, <4>2, <4>3, <4>4 DEF Counted
    <3>2. CASE event = "extended"
      <4>1. r \in Resets /\ value = current_streak + 1
        BY <1>15, <3>2
      <4>2. ~Repaired(r)
        BY <1>14, <2>1 DEF Repaired
      <4>3. /\ current_streak = Cardinality(Since(T, r.id))
            /\ \A t \in Since(T, r.id) : t.to_value = Cardinality(Between(T, r.id, t.id))
        BY <1>5, <1>15, <2>1, <3>2, <4>1, <4>2 DEF RepairInv, Built
      <4>4. r.id \in Nat /\ r.id < day.id
        BY <1>16, <4>1
      <4>5. value = Cardinality(Since(U, r.id))
        BY <1>3, <1>9, <4>1, <4>3, <4>4
      <4>6. ASSUME NEW t \in Since(U, r.id)
            PROVE  t.to_value = Cardinality(Between(U, r.id, t.id))
        <5>1. CASE t = day
          BY <1>1, <1>9, <4>4, <4>5, <5>1 DEF Counted
        <5>2. CASE t \in T
          BY <1>8, <1>9, <4>3, <4>4, <4>6, <5>2 DEF Since
        <5>3. QED
          BY <1>7, <5>1, <5>2 DEF Since
      <4>7. QED
        BY <4>5, <4>6
    <3>3. QED
      BY <3>1, <3>2
  <2>2. QED
    BY <1>6, <1>10, <2>1 DEF Built
<1>18. AllAnchored'
  <2>1. \A q \in streak_events' : q.why = "repair" => q \in streak_events
    <3>1. day.why = "submit"
      BY <1>1 DEF Counted
    <3>2. \A f \in FreezeRows(paid) : f.why = "paid"
      BY FreezeRowsAre DEF Base
    <3>3. QED
      BY <1>1, <3>1, <3>2 DEF Counted
  <2>2. ASSUME NEW q \in streak_events, q.why = "repair" PROVE Anchored(q)'
    <3>1. Anchored(q)
      BY <2>2 DEF RepairInv, AllAnchored
    <3>2. q.id \in Nat /\ q.id < day.id
      BY <1>3, IdsAreOld DEF Base
    <3>3. ASSUME NEW i
          PROVE  {t \in U : i <= t.id /\ t.id < q.id} = {t \in T : i <= t.id /\ t.id < q.id}
      <4>1. ~(day.id < q.id)
        BY <1>3, <3>2
      <4>2. QED
        BY <1>7, <4>1
    <3>4. Resets \subseteq Resets'
      BY <1>15
    <3>5. QED
      BY <1>5, <1>6, <2>1, <3>1, <3>3, <3>4 DEF Anchored
  <2>3. QED
    BY <2>1, <2>2 DEF AllAnchored
<1>19. NoManufacturedStreak' /\ IsFiniteSet(Transitions)'
  BY <1>6, <1>9, <1>10, <1>12 DEF NoManufacturedStreak
<1>20. QED
  BY <1>4, <1>13, <1>17, <1>18, <1>19 DEF RepairInv

\* The reset a repair finds is the newest, and the run it ends at is the last.
LEMMA RepairFinds ==
    ASSUME Base, RepairInv, NEW reset \in RestorableResets, NEW end \in RunEnds(reset)
    PROVE  /\ reset \in Resets /\ ~Repaired(reset) /\ \A s \in Resets : s.id <= reset.id
           /\ end.to_value = Cardinality(Since(Transitions, reset.id))
           /\ RestoresTo(reset, end) <= Cardinality(Transitions)
<1>1. PICK T : T = Transitions
  OBVIOUS
<1>2. /\ \A t \in T : t.id \in Nat /\ t.local_date \in Int /\ t.created_at \in Int
      /\ \A t, u \in T : t.id = u.id => t = u
      /\ \A t, u \in T :
            t.id < u.id => t.local_date < u.local_date /\ t.created_at <= u.created_at
  BY <1>1, IdsAreOld DEF Base, TypeOK, Rows, Transitions, RepairInv, InOrder
<1>3. reset \in Resets /\ ~Repaired(reset) /\ Resets \subseteq T
  BY <1>1 DEF RestorableResets, Repaired, Resets, Transitions
<1>4. ASSUME NEW s \in Resets PROVE s.id <= reset.id
  <2>1. s.created_at < reset.created_at
        \/ (s.created_at = reset.created_at /\ s.id <= reset.id)
    BY DEF RestorableResets, NotAfter
  <2>2. QED
    BY <1>2, <1>3, <2>1
<1>5. PICK S : S = Since(T, reset.id)
  OBVIOUS
<1>6. {t \in T : t.local_date >= reset.local_date} = S
  <2>1. ASSUME NEW t \in T PROVE t.local_date >= reset.local_date <=> reset.id <= t.id
    <3>1. t.id < reset.id \/ t = reset \/ reset.id < t.id
      BY <1>2, <1>3
    <3>2. QED
      BY <1>2, <1>3, <3>1
  <2>2. QED
    BY <1>5, <2>1 DEF Since
<1>7. end \in S /\ \A u \in S : u.id <= end.id
  <2>1. end \in S /\ \A u \in S : NotAfter(u.local_date, u.id, end.local_date, end.id)
    BY <1>1, <1>6 DEF RunEnds
  <2>2. \A u \in S : u \in T
    BY <1>5 DEF Since
  <2>3. QED
    BY <1>2, <2>1, <2>2 DEF NotAfter
<1>8. end.to_value = Cardinality(S)
  <2>1. end.to_value = Cardinality(Between(T, reset.id, end.id))
    BY <1>1, <1>3, <1>4, <1>5, <1>7 DEF RepairInv, Built
  <2>2. Between(T, reset.id, end.id) = S
    BY <1>5, <1>7 DEF Between, Since
  <2>3. QED
    BY <2>1, <2>2
<1>9. PICK B : B = {t \in T : t.id < reset.id}
  OBVIOUS
<1>10. Cardinality(T) = Cardinality(B) + Cardinality(S)
  <2>1. IsFiniteSet(T) /\ B \subseteq T /\ S \subseteq T
    BY <1>1, <1>5, <1>9 DEF RepairInv, Since
  <2>2. T = B \cup S /\ B \cap S = {}
    BY <1>2, <1>3, <1>5, <1>9 DEF Since
  <2>3. IsFiniteSet(B) /\ IsFiniteSet(S)
    BY <2>1, FS_Subset
  <2>4. Cardinality(T) = Cardinality(B) + Cardinality(S) - Cardinality({})
    BY <2>2, <2>3, FS_Union
  <2>5. Cardinality({}) = 0 /\ Cardinality(B) \in Nat /\ Cardinality(S) \in Nat
    BY <2>3, FS_EmptySet, FS_CardinalityType
  <2>6. QED
    BY <2>4, <2>5
<1>11. Cardinality(B) \in Nat /\ Cardinality(S) \in Nat
  <2>1. IsFiniteSet(T) /\ B \subseteq T /\ S \subseteq T
    BY <1>1, <1>5, <1>9 DEF RepairInv, Since
  <2>2. QED
    BY <2>1, FS_Subset, FS_CardinalityType
<1>12. reset.from_value \in Nat /\ reset.from_value <= Cardinality(B)
  <2>1. reset \in streak_events /\ reset.id \in Nat /\ 1 <= reset.id /\ reset.id < next_id
    BY <1>3, IdsAreOld DEF Base, Resets
  <2>2. reset.from_value \in Nat
    BY <2>1 DEF Base, TypeOK, Rows
  <2>3. CASE reset.id = 1
    BY <1>11, <2>1, <2>3 DEF Base, LedgerExplainsStreak, IsChain
  <2>4. CASE reset.id # 1
    <3>1. next_id \in Nat /\ reset.id - 1 \in 1 .. (next_id - 1)
      BY <2>1, <2>4, IdsAreOld DEF Base
    <3>2. PICK p \in streak_events : p.id = reset.id - 1
      BY <3>1 DEF Base, LedgerExplainsStreak, IsChain
    <3>3. reset.id = p.id + 1
      BY <2>1, <3>2
    <3>4. reset.from_value = p.to_value
      BY <2>1, <3>3 DEF Base, LedgerExplainsStreak, IsChain
    <3>5. Upto(T, p.id) = B
      BY <1>2, <1>9, <2>1, <3>2 DEF Upto
    <3>6. QED
      BY <1>1, <2>2, <3>4, <3>5 DEF RepairInv, WorkedFor
  <2>5. QED
    BY <2>2, <2>3, <2>4
<1>13. RestoresTo(reset, end) <= Cardinality(T)
  BY <1>8, <1>10, <1>11, <1>12 DEF RestoresTo
<1>14. QED
  BY <1>1, <1>3, <1>4, <1>5, <1>8, <1>13

\* A repair is anchored to the newest reset, which no other row names.
LEMMA RepairRepairs ==
    ASSUME Base, RepairInv, Repair
    PROVE  RepairInv'
<1>1. PICK reset \in RestorableResets : \E end \in RunEnds(reset) :
          RepairTo(reset, RestoresTo(reset, end))
  BY DEF Repair
<1>2. PICK end \in RunEnds(reset) : RepairTo(reset, RestoresTo(reset, end))
  BY <1>1
<1>3. /\ reset \in Resets /\ ~Repaired(reset) /\ \A s \in Resets : s.id <= reset.id
      /\ end.to_value = Cardinality(Since(Transitions, reset.id))
      /\ RestoresTo(reset, end) <= Cardinality(Transitions)
  BY RepairFinds
<1>4. PICK value : value = RestoresTo(reset, end)
  OBVIOUS
<1>5. PICK row : row = Row(next_id, "repaired", current_streak, value, Today, "repair", reset.id)
  OBVIOUS
<1>6. /\ row.id = next_id /\ row.event = "repaired" /\ row.to_value = value
      /\ row.why = "repair" /\ row.ref = reset.id
  BY <1>5 DEF Row
<1>7. /\ streak_events' = streak_events \cup {row} /\ current_streak' = value
      /\ UNCHANGED <<now, tz, last_active>>
  BY <1>2, <1>4, <1>5 DEF Repair, RepairTo
<1>8. Transitions' = Transitions /\ Resets' = Resets
  BY <1>6, <1>7 DEF Transitions, Resets
<1>9. PICK T : T = Transitions /\ T = Transitions'
  BY <1>8
<1>10. /\ next_id \in Nat /\ \A t \in T : t.id \in Nat /\ t.id < next_id
       /\ \A r \in streak_events : r.id \in Nat /\ r.id < next_id
       /\ \A r, s \in streak_events : r.id = s.id => r = s
  BY <1>9, IdsAreOld DEF Base, Transitions
<1>11. value = reset.from_value + Cardinality(Since(T, reset.id)) /\ value <= Cardinality(T)
  BY <1>3, <1>4, <1>9 DEF RestoresTo
<1>12. IsFiniteSet(Transitions)' /\ InOrder' /\ InReach' /\ NoManufacturedStreak'
  <2>1. IsFiniteSet(Transitions)' /\ InOrder' /\ NoManufacturedStreak'
    BY <1>7, <1>8, <1>9, <1>11 DEF RepairInv, InOrder, NoManufacturedStreak
  <2>2. InReach'
    BY <1>7, <1>8 DEF RepairInv, InReach, HasStats, LocalDate
  <2>3. QED
    BY <2>1, <2>2
<1>13. WorkedFor'
  <2>1. Upto(T, next_id) = T
    BY <1>10 DEF Upto
  <2>2. \A r \in streak_events' : r.to_value <= Cardinality(Upto(T, r.id))
    BY <1>6, <1>7, <1>9, <1>11, <2>1 DEF RepairInv, WorkedFor
  <2>3. QED
    BY <1>9, <2>2 DEF WorkedFor
<1>14. Built'
  <2>1. ASSUME NEW r \in Resets, \A s \in Resets : s.id <= r.id PROVE Repaired(r)'
    <3>1. r.id = reset.id
      BY <1>3, <1>10, <2>1 DEF Resets
    <3>2. QED
      BY <1>6, <1>7, <3>1 DEF Repaired
  <2>2. QED
    BY <1>8, <2>1 DEF Built
<1>15. AllAnchored'
  <2>1. \A q \in streak_events : q.why = "repair" => q.ref # reset.id /\ Anchored(q)
    BY <1>3 DEF RepairInv, AllAnchored, Anchored, Repaired
  <2>2. Anchored(row)'
    <3>1. {t \in T : reset.id <= t.id /\ t.id < next_id} = Since(T, reset.id)
      BY <1>10 DEF Since
    <3>2. value = reset.from_value + Cardinality({t \in T : reset.id <= t.id /\ t.id < next_id})
      BY <1>11, <3>1
    <3>3. \A p \in streak_events' : p.why = "repair" /\ p.ref = reset.id => p = row
      BY <1>7, <2>1
    <3>4. QED
      BY <1>3, <1>6, <1>8, <1>9, <3>2, <3>3 DEF Anchored
  <2>3. ASSUME NEW q \in streak_events, q.why = "repair" PROVE Anchored(q)'
    <3>1. Anchored(q) /\ q.ref # reset.id
      BY <2>1, <2>3
    <3>2. \A p \in streak_events' : p.why = "repair" /\ p.ref = q.ref => p = q
      BY <1>6, <1>7, <3>1 DEF Anchored
    <3>3. QED
      BY <1>8, <3>1, <3>2 DEF Anchored
  <2>4. QED
    BY <1>7, <2>2, <2>3 DEF AllAnchored
<1>16. QED
  BY <1>12, <1>13, <1>14, <1>15 DEF RepairInv

\* Action by action: Submit counts a day, Repair repairs, the rest add no row
\* that the run is made of.
LEMMA RepairsStep ==
    ASSUME OneDayApart PROVE Base /\ RepairInv /\ [Next]_vars => RepairInv'
<1> SUFFICES ASSUME Base, RepairInv, [Next]_vars PROVE RepairInv'
  OBVIOUS
<1>0. /\ now \in Int /\ tz \in Offsets /\ Today \in Int
      /\ \A zone \in Offsets : LocalDate(zone) \in Int
      /\ HasStats => last_active \in Int /\ last_active <= Today
      /\ \A t \in Transitions : t.local_date \in Int /\ t.created_at \in Int
      /\ current_streak \in Nat /\ next_id \in Nat
  BY DatesAreIntegers DEF Base, TypeOK, Today, HasStats, LastActiveNotAhead, Rows, Transitions
<1>1. CASE Submit
  <2>1. {} \subseteq Int /\ IsFiniteSet({})
    BY FS_EmptySet
  <2>2. Base
    OBVIOUS
  <2>3. CASE SubmitAgainToday
    <3>1. /\ UNCHANGED <<current_streak, last_active, streak_events>> /\ now' = now /\ tz' = tz
      BY <2>3 DEF SubmitAgainToday, AttemptCounted, ledger
    <3>2. Transitions' = Transitions /\ InReach'
      BY <3>1 DEF RepairInv, InReach, Transitions, HasStats, LocalDate
    <3>3. QED
      BY <3>1, <3>2, OtherStepRepairs
  <2>4. CASE SubmitNextDay
    <3>1. last_active # Today /\ now' = now /\ tz' = tz
      BY <1>0, <2>4, TimeAssumption DEF SubmitNextDay, AttemptCounted, HasStats
    <3>2. CountToday("extended", current_streak + 1, {})
      BY <2>4 DEF SubmitNextDay
    <3>3. QED
      BY <2>1, <3>1, <3>2, CountTodayRepairs
  <2>5. CASE SubmitAfterCoveredGap
    <3>1. last_active # Today /\ now' = now /\ tz' = tz
      BY <2>5 DEF SubmitAfterCoveredGap, AttemptCounted
    <3>2. CountToday("extended", current_streak + 1, Uncovered) /\ HasStats
      BY <2>5 DEF SubmitAfterCoveredGap
    <3>3. Uncovered \subseteq Int /\ IsFiniteSet(Uncovered)
      BY <3>2, GapIsPayable DEF Base
    <3>4. QED
      BY <3>1, <3>2, <3>3, CountTodayRepairs
  <2>6. CASE SubmitAfterGap
    <3>1. last_active # Today /\ now' = now /\ tz' = tz
      BY <2>6 DEF SubmitAfterGap, AttemptCounted
    <3>2. CountToday("reset", 1, {})
      BY <2>6 DEF SubmitAfterGap
    <3>3. QED
      BY <2>1, <3>1, <3>2, CountTodayRepairs
  <2>7. QED
    BY <1>1, <2>3, <2>4, <2>5, <2>6 DEF Submit
<1>2. CASE Repair
  BY <1>2, RepairRepairs
<1>3. ASSUME NEW zone \in Offsets, ChangeTimezone(zone) PROVE RepairInv'
  <2>1. now' = now /\ current_streak' = current_streak
    BY <1>3 DEF ChangeTimezone
  <2>2. \A z \in Offsets : LocalDate(z)' = LocalDate(z)
    BY <2>1 DEF LocalDate
  <2>3. CASE HasStats /\ LocalDate(zone) < last_active
    <3>1. PICK row : row = Row(next_id, "repaired", current_streak, current_streak,
                               LocalDate(zone), "timezone", 0)
      OBVIOUS
    <3>2. /\ row.id = next_id /\ row.to_value = current_streak
          /\ row.event = "repaired" /\ row.why = "timezone"
      BY <3>1 DEF Row
    <3>3. streak_events' = streak_events \cup {row} /\ last_active' = LocalDate(zone)
      BY <1>3, <2>3, <3>1 DEF ChangeTimezone
    <3>4. Transitions' = Transitions
      BY <3>2, <3>3 DEF Transitions
    <3>5. LocalDate(zone) # NoDate
      BY <1>0, TimeAssumption
    <3>6. InReach'
      BY <2>1, <2>2, <3>3, <3>4, <3>5 DEF RepairInv, InReach, HasStats
    <3>7. QED
      BY <2>1, <3>2, <3>3, <3>4, <3>6, OtherStepRepairs
  <2>4. CASE ~(HasStats /\ LocalDate(zone) < last_active)
    <3>1. streak_events' = streak_events /\ last_active' = last_active
      BY <1>3, <2>4 DEF ChangeTimezone, ledger
    <3>2. Transitions' = Transitions
      BY <3>1 DEF Transitions
    <3>3. InReach'
      BY <2>1, <2>2, <3>1, <3>2 DEF RepairInv, InReach, HasStats
    <3>4. QED
      BY <2>1, <3>1, <3>2, <3>3, OtherStepRepairs
  <2>5. QED
    BY <2>3, <2>4
<1>4. ASSUME NEW date \in OutageDates, OutageFreeze(date) \/ GrantInitialFreezes(date)
      PROVE  RepairInv'
  <2>1. PICK row : /\ \/ row = Row(next_id, "freeze_used", current_streak, current_streak, date,
                                   "outage", 0)
                      \/ row = Row(next_id, "adjusted", current_streak, current_streak, date,
                                   "grant", 0)
                   /\ streak_events' = streak_events \cup {row}
    BY <1>4 DEF OutageFreeze, GrantInitialFreezes
  <2>2. /\ row.id = next_id /\ row.to_value = current_streak
        /\ row.event \in {"freeze_used", "adjusted"} /\ row.why # "repair"
    BY <2>1 DEF Row
  <2>3. now' = now /\ tz' = tz /\ last_active' = last_active /\ current_streak' = current_streak
    BY <1>4 DEF OutageFreeze, GrantInitialFreezes, stats
  <2>4. Transitions' = Transitions
    BY <2>1, <2>2 DEF Transitions
  <2>5. InReach'
    BY <2>3, <2>4 DEF RepairInv, InReach, HasStats, LocalDate
  <2>6. QED
    BY <2>1, <2>2, <2>3, <2>4, <2>5, OtherStepRepairs
<1>5. CASE Tick
  <2>1. /\ now' = now + 1 /\ streak_events' = streak_events /\ last_active' = last_active
        /\ current_streak' = current_streak
    BY <1>5 DEF Tick, stats, ledger
  <2>2. ASSUME NEW zone \in Offsets PROVE LocalDate(zone)' \in Int /\ LocalDate(zone) <= LocalDate(zone)'
    <3>1. now + zone \in Int /\ (now + 1) + zone \in Int /\ now + zone <= (now + 1) + zone
      BY <1>0, TimeAssumption
    <3>2. (now + zone) \div DAY_LENGTH <= ((now + 1) + zone) \div DAY_LENGTH
      BY <3>1, DivisionIsMonotone, TimeAssumption
    <3>3. ((now + 1) + zone) \div DAY_LENGTH \in Int
      BY <3>1, TimeAssumption
    <3>4. QED
      BY <2>1, <3>2, <3>3 DEF LocalDate
  <2>3. Transitions' = Transitions
    BY <2>1 DEF Transitions
  <2>4. ASSUME NEW t \in Transitions
        PROVE  /\ HasStats' /\ t.created_at <= now' /\ t.local_date <= last_active' + 1
               /\ \A zone \in Offsets : t.local_date <= LocalDate(zone)' + 1
    <3>1. /\ HasStats /\ t.created_at <= now /\ t.local_date <= last_active + 1
          /\ \A zone \in Offsets : t.local_date <= LocalDate(zone) + 1
      BY DEF RepairInv, InReach
    <3>2. HasStats' /\ t.created_at <= now' /\ t.local_date <= last_active' + 1
      BY <1>0, <2>1, <3>1 DEF HasStats
    <3>3. \A zone \in Offsets : t.local_date <= LocalDate(zone)' + 1
      BY <1>0, <2>2, <3>1
    <3>4. QED
      BY <3>2, <3>3
  <2>5. InReach'
    BY <2>3, <2>4 DEF InReach
  <2>6. QED
    BY <2>1, <2>3, <2>5, OtherStepRepairs
<1>6. CASE UNCHANGED vars
  <2>1. UNCHANGED <<now, tz, current_streak, last_active, streak_events>>
    BY <1>6 DEF vars, stats, ledger
  <2>2. Transitions' = Transitions /\ InReach'
    BY <2>1 DEF RepairInv, InReach, Transitions, HasStats, LocalDate
  <2>3. QED
    BY <2>1, <2>2, OtherStepRepairs
<1>7. QED
  BY <1>1, <1>2, <1>3, <1>4, <1>5, <1>6 DEF Next

\* No reset and no repair; a legacy account has practised one day.
LEMMA RepairsInitially == ASSUME OneDayApart PROVE Init => RepairInv
<1> SUFFICES ASSUME Init PROVE RepairInv
  OBVIOUS
<1>1. now = 0 /\ tz \in Offsets /\ \A zone \in Offsets : LocalDate(zone) \in Int
  BY DatesAreIntegers DEF Init
<1>2. CASE LEGACY
  <2>1. PICK r : r = Row(1, "extended", 0, 1, Today, "submit", 0)
    OBVIOUS
  <2>2. /\ r.id = 1 /\ r.event = "extended" /\ r.to_value = 1 /\ r.local_date = Today
        /\ r.why = "submit" /\ r.created_at = 0
    BY <1>1, <2>1 DEF Row
  <2>3. streak_events = {r} /\ last_active = Today /\ current_streak = 1
    BY <1>2, <2>1 DEF Init
  <2>4. Transitions = {r} /\ Resets = {} /\ Upto({r}, 1) = {r}
    BY <2>2, <2>3 DEF Transitions, Resets, Upto
  <2>5. IsFiniteSet({r}) /\ Cardinality({r}) = 1
    BY FS_Singleton
  <2>6. Today \in Int /\ Today # NoDate
    BY <1>1, TimeAssumption DEF Today
  <2>7. \A zone \in Offsets : Today <= LocalDate(zone) + 1
    BY <1>1, ZonesAgree DEF Today
  <2>8. InReach
    BY <1>1, <2>2, <2>3, <2>4, <2>6, <2>7 DEF InReach, HasStats
  <2>9. InOrder /\ WorkedFor /\ Built /\ AllAnchored /\ NoManufacturedStreak
    BY <2>2, <2>3, <2>4, <2>5 DEF InOrder, WorkedFor, Built, AllAnchored, NoManufacturedStreak
  <2>10. QED
    BY <2>4, <2>5, <2>8, <2>9 DEF RepairInv
<1>3. CASE ~LEGACY
  <2>1. streak_events = {} /\ current_streak = 0
    BY <1>3 DEF Init
  <2>2. Transitions = {} /\ Resets = {} /\ IsFiniteSet({}) /\ Cardinality({}) = 0
    BY <2>1, FS_EmptySet DEF Transitions, Resets
  <2>3. QED
    BY <2>1, <2>2 DEF RepairInv, InOrder, InReach, WorkedFor, Built, AllAnchored,
                      NoManufacturedStreak
<1>4. QED
  BY <1>2, <1>3

\* RepairsRestoreTheRun: as long as the user's zones are at most a day apart, a
\* reset is repaired at most once and to the value lost plus the days counted
\* since, and the streak never exceeds the days practised (repair_streak, "it
\* can never manufacture a streak").
THEOREM RepairsRestoreTheRun ==
    ASSUME OneDayApart PROVE Spec => []RepairsAreCounterfactual
<1>1. Init => Base /\ RepairInv
  BY NotAheadInitially, TypesInitially, ChainInitially, RepairsInitially DEF Base
<1>2. Base /\ RepairInv /\ [Next]_vars => (Base /\ RepairInv)'
  BY TypesAreInductive, ChainIsInductive, NotAheadIsInductive, RepairsStep DEF Base
<1>3. RepairInv => RepairsAreCounterfactual
  BY DEF RepairInv, AllAnchored, Anchored, RepairsAreCounterfactual
<1>4. QED
  BY <1>1, <1>2, <1>3, PTL DEF Spec

-----------------------------------------------------------------------------
(***************************************************************************)
(* What the ledger says of the balance.                                    *)
(***************************************************************************)
\* Numbers are well-founded, so a set of them has a least element.
LEMMA NatWellFounded == IsWellFoundedOn({ss \in Nat \X Nat : ss[1] < ss[2]}, Nat)
BY NatLessThanWellFounded DEF OpToRel

\* In the form the proofs use.
LEMMA LeastNat ==
    ASSUME NEW S \in SUBSET Nat, S # {}
    PROVE  \E m \in S : \A k \in S : m <= k
<1> DEFINE R == {ss \in Nat \X Nat : ss[1] < ss[2]}
<1>1. PICK m \in S : \A k \in S : <<k, m>> \notin R
  BY NatWellFounded, WFMin
<1>2. ASSUME NEW k \in S PROVE m <= k
  <2>1. ~ (k < m)
    BY <1>1
  <2>2. QED
    BY <2>1
<1>3. QED
  BY <1>2

\* What a row does to the balance before it.
Effect(why, balance) ==
    CASE why = "paid"   -> balance - 1
      [] why = "earned" -> balance + 1
      [] why = "grant"  -> InitialGrant
      [] OTHER -> balance

\* f is the balance after each row.
Replays(f, rows, n) ==
    /\ f \in [0 .. (n - 1) -> Int]
    /\ f[0] = OpeningBalance
    /\ \A r \in rows : f[r.id] = Effect(r.why, f[r.id - 1])

\* There is one replay only, and it is the one ReplayedBalance is the end of.
LEMMA ReplayIsUnique ==
    ASSUME TypeOK, LedgerExplainsStreak, NEW f, Replays(f, streak_events, next_id)
    PROVE  ReplayedBalance = f[next_id - 1]
<1> DEFINE n == next_id - 1
           RowAt(i) == CHOOSE r \in streak_events : r.id = i
           Body(g) == [i \in 0 .. n |->
              IF i = 0 THEN OpeningBalance ELSE
                       CASE RowAt(i).why = "paid"   -> g[i - 1] - 1
                         [] RowAt(i).why = "earned" -> g[i - 1] + 1
                         [] RowAt(i).why = "grant"  -> InitialGrant
                         [] OTHER -> g[i - 1]]
           after == CHOOSE g : g = Body(g)
<1>1. n \in Nat
  BY DEF TypeOK
<1>2. \A i \in 1 .. n : RowAt(i) \in streak_events /\ RowAt(i).id = i
  BY DEF LedgerExplainsStreak, IsChain
<1>3. ReplayedBalance = after[n]
  BY DEF ReplayedBalance
<1> HIDE DEF RowAt, n
<1>4. f = Body(f)
  <2>1. DOMAIN f = 0 .. n /\ f \in [0 .. n -> Int]
    BY DEF Replays, n
  <2>2. ASSUME NEW i \in 0 .. n PROVE f[i] = Body(f)[i]
    <3>1. CASE i = 0
      BY <3>1 DEF Replays
    <3>2. CASE i # 0
      <4>1. i \in 1 .. n
        BY <1>1, <3>2
      <4>2. f[i] = Effect(RowAt(i).why, f[i - 1])
        BY <1>2, <4>1 DEF Replays
      <4>3. QED
        BY <3>2, <4>2 DEF Effect
    <3>3. QED
      BY <3>1, <3>2
  <2>3. QED
    BY <2>1, <2>2
<1>5. after = Body(after)
  BY <1>4
<1>6. PICK g : g = after /\ g = Body(g)
  BY <1>5
<1> HIDE DEF after
<1>7. \A i \in 0 .. n : g[i] = f[i]
  <2> DEFINE Wrong == {i \in 0 .. n : g[i] # f[i]}
  <2>1. SUFFICES ASSUME Wrong # {} PROVE FALSE
    OBVIOUS
  <2>2. Wrong \in SUBSET Nat
    BY <1>1
  <2>3. PICK i \in Wrong : \A j \in Wrong : i <= j
    BY <2>1, <2>2, LeastNat
  <2>4. i \in 0 .. n /\ g[i] # f[i]
    BY <2>3
  <2>5. f[i] = Body(f)[i] /\ g[i] = Body(g)[i]
    BY <1>4, <1>6
  <2>6. i # 0
    BY <2>4, <2>5
  <2>7. i - 1 \in 0 .. n /\ i - 1 \notin Wrong
    BY <1>1, <2>3, <2>4, <2>6
  <2>8. g[i - 1] = f[i - 1]
    BY <2>7
  <2>9. QED
    BY <2>4, <2>5, <2>6, <2>8
<1>8. n \in 0 .. n
  BY <1>1
<1>9. QED
  BY <1>3, <1>6, <1>7, <1>8 DEF n

\* The rows replay to the balance b.
Ends(rows, n, b) == \E f : Replays(f, rows, n) /\ f[n - 1] = b

\* A row with the next id prolongs the replay.
LEMMA ReplayGrows ==
    ASSUME NEW rows, NEW n \in Nat \ {0}, \A r \in rows : r.id \in 1 .. (n - 1),
           NEW a, Ends(rows, n, a),
           NEW row, row.id = n, NEW b \in Int, b = Effect(row.why, a)
    PROVE  Ends(rows \cup {row}, n + 1, b)
<1>0. PICK f : Replays(f, rows, n) /\ f[n - 1] = a
  BY DEF Ends
<1> DEFINE g == [i \in 0 .. n |-> IF i = n THEN b ELSE f[i]]
<1>1. f \in [0 .. (n - 1) -> Int] /\ f[0] = OpeningBalance
      /\ \A r \in rows : f[r.id] = Effect(r.why, f[r.id - 1])
  BY <1>0 DEF Replays
<1>2. g \in [0 .. n -> Int] /\ g[n] = b /\ \A i \in 0 .. (n - 1) : g[i] = f[i]
  BY <1>1
<1> HIDE DEF g
<1>3. \A r \in rows : g[r.id] = Effect(r.why, g[r.id - 1])
  <2>1. ASSUME NEW r \in rows PROVE g[r.id] = f[r.id] /\ g[r.id - 1] = f[r.id - 1]
    <3>1. r.id \in 0 .. (n - 1) /\ r.id - 1 \in 0 .. (n - 1)
      OBVIOUS
    <3>2. QED
      BY <1>2, <3>1
  <2>2. QED
    BY <1>1, <2>1
<1>4. g[row.id] = Effect(row.why, g[row.id - 1])
  <2>1. g[n - 1] = f[n - 1]
    BY <1>2
  <2>2. QED
    BY <1>0, <1>2, <2>1
<1>5. g[0] = OpeningBalance /\ (n + 1) - 1 = n
  BY <1>1, <1>2
<1>6. Replays(g, rows \cup {row}, n + 1)
  BY <1>2, <1>3, <1>4, <1>5 DEF Replays
<1>7. QED
  BY <1>2, <1>5, <1>6 DEF Ends

\* Each day paid for takes one from the balance.
LEMMA ReplayOverGap ==
    ASSUME TypeOK, LedgerExplainsStreak, NEW m \in Int, Ends(streak_events, next_id, m),
           NEW paid, paid \subseteq Int, IsFiniteSet(paid)
    PROVE  Ends(streak_events \cup FreezeRows(paid), next_id + Cardinality(paid),
                m - Cardinality(paid))
<1>1. PICK k \in Nat : k = Cardinality(paid)
  BY FS_CardinalityType
<1>2. PICK n \in Nat \ {0} : n = next_id
  BY DEF TypeOK
<1>3. PICK f : Replays(f, streak_events, n) /\ f[n - 1] = m
  BY <1>2 DEF Ends
<1>4. f \in [0 .. (n - 1) -> Int] /\ f[0] = OpeningBalance
      /\ \A r \in streak_events : f[r.id] = Effect(r.why, f[r.id - 1])
  BY <1>3 DEF Replays
<1> DEFINE g == [i \in 0 .. (n + k - 1) |-> IF i < n THEN f[i] ELSE m - (i - n + 1)]
<1>5. /\ g \in [0 .. (n + k - 1) -> Int]
      /\ \A i \in 0 .. (n - 1) : g[i] = f[i]
      /\ \A i \in (n - 1) .. (n + k - 1) : g[i] = m - (i - n + 1)
  <2>1. ASSUME NEW i \in 0 .. (n + k - 1)
        PROVE  (IF i < n THEN f[i] ELSE m - (i - n + 1)) \in Int
    <3>1. CASE i < n
      BY <1>4, <3>1
    <3>2. CASE ~(i < n)
      BY <3>2
    <3>3. QED
      BY <3>1, <3>2
  <2>2. g \in [0 .. (n + k - 1) -> Int]
    BY <2>1
  <2>3. \A i \in 0 .. (n - 1) : g[i] = f[i]
    OBVIOUS
  <2>4. ASSUME NEW i \in (n - 1) .. (n + k - 1) PROVE g[i] = m - (i - n + 1)
    <3>1. CASE i = n - 1
      BY <1>3, <3>1
    <3>2. CASE i >= n
      BY <3>2
    <3>3. QED
      BY <3>1, <3>2
  <2>5. QED
    BY <2>2, <2>3, <2>4
<1> HIDE DEF g
<1>6. \A r \in streak_events : g[r.id] = Effect(r.why, g[r.id - 1])
  <2>1. ASSUME NEW r \in streak_events PROVE g[r.id] = f[r.id] /\ g[r.id - 1] = f[r.id - 1]
    <3>1. r.id \in Nat /\ 1 <= r.id /\ r.id < n
      BY <1>2, IdsAreOld
    <3>2. r.id \in 0 .. (n - 1) /\ r.id - 1 \in 0 .. (n - 1)
      BY <3>1
    <3>3. QED
      BY <1>5, <3>2
  <2>2. QED
    BY <1>4, <2>1
<1>7. \A r \in FreezeRows(paid) : g[r.id] = Effect(r.why, g[r.id - 1])
  <2>1. ASSUME NEW r \in FreezeRows(paid) PROVE g[r.id] = g[r.id - 1] - 1 /\ r.why = "paid"
    <3>1. r.id \in n .. (n + k - 1) /\ r.why = "paid"
      BY <1>1, <1>2, FreezeRowsAre
    <3>2. PICK i \in Int : i = r.id /\ n <= i /\ i <= n + k - 1
      BY <3>1
    <3>3. i \in (n - 1) .. (n + k - 1) /\ i - 1 \in (n - 1) .. (n + k - 1)
      BY <3>2
    <3>4. g[i] = m - (i - n + 1) /\ g[i - 1] = m - ((i - 1) - n + 1)
      BY <1>5, <3>3
    <3>5. QED
      BY <3>1, <3>2, <3>4
  <2>2. QED
    BY <2>1 DEF Effect
<1>8. g[0] = OpeningBalance /\ g[n + k - 1] = m - k
  BY <1>3, <1>4, <1>5
<1>9. Replays(g, streak_events \cup FreezeRows(paid), n + k)
  BY <1>5, <1>6, <1>7, <1>8 DEF Replays
<1>10. Ends(streak_events \cup FreezeRows(paid), n + k, m - k)
  BY <1>8, <1>9 DEF Ends
<1>11. QED
  BY <1>1, <1>2, <1>10

\* The ledger replays to the balance, which is within the cap.
BalanceInv == BalanceWithinCap /\ Ends(streak_events, next_id, streak_freezes)

\* What BalanceInv says of the next state.
LEMMA BalanceNext ==
    ASSUME BalanceWithinCap', NEW rows, NEW n, NEW b, Ends(rows, n, b),
           streak_events' = rows, next_id' = n, streak_freezes' = b
    PROVE  BalanceInv'
BY DEF BalanceInv, Ends, Replays

\* A counted day: what is paid, what is earned.
LEMMA CountTodayBalance ==
    ASSUME TypeOK, LedgerExplainsStreak, BalanceInv,
           NEW event, NEW value, NEW paid, paid \subseteq Int, IsFiniteSet(paid),
           CountToday(event, value, paid)
    PROVE  BalanceInv'
<1>1. PICK k \in Nat : k = Cardinality(paid)
  BY FS_CardinalityType
<1>2. PICK n \in Nat \ {0} : n = next_id + k
  BY <1>1 DEF TypeOK
<1>3. PICK b \in Int : b = streak_freezes - k
  BY DEF TypeOK
<1>4. PICK covered : covered = streak_events \cup FreezeRows(paid)
  OBVIOUS
<1>5. Ends(covered, n, b)
  <2>1. streak_freezes \in Int /\ Ends(streak_events, next_id, streak_freezes)
    BY DEF BalanceInv, TypeOK
  <2>2. Ends(streak_events \cup FreezeRows(paid), next_id + Cardinality(paid),
             streak_freezes - Cardinality(paid))
    BY <2>1, ReplayOverGap
  <2>3. QED
    BY <1>1, <1>2, <1>3, <1>4, <2>2
<1>6. \A r \in covered : r.id \in 1 .. (n - 1)
  <2>1. IsChain(covered, n, current_streak)
    BY <1>1, <1>2, <1>4, ChainOverGap
  <2>2. QED
    BY <2>1 DEF IsChain
<1>7. PICK day : day = Row(n, event, current_streak, value, Today, "submit", 0)
  OBVIOUS
<1>8. PICK earned : earned = Row(n + 1, "adjusted", value, value, Today, "earned", 0)
  OBVIOUS
<1>9. day.id = n /\ day.why = "submit" /\ earned.id = n + 1 /\ earned.why = "earned"
  BY <1>7, <1>8 DEF Row
<1>10. PICK counted : counted = covered \cup {day}
  OBVIOUS
<1>11. \/ /\ streak_events' = counted /\ next_id' = n + 1 /\ streak_freezes' = b
       \/ /\ streak_events' = counted \cup {earned} /\ next_id' = n + 2
          /\ streak_freezes' = b + 1 /\ b < FREEZE_MAX
  BY <1>1, <1>2, <1>3, <1>4, <1>7, <1>8, <1>10 DEF CountToday, EarnsFreeze
<1>12. Ends(counted, n + 1, b)
  <2>1. b = Effect(day.why, b)
    BY <1>9 DEF Effect
  <2>2. QED
    BY <1>5, <1>6, <1>9, <1>10, <2>1, ReplayGrows
<1>13. Ends(counted \cup {earned}, n + 2, b + 1)
  <2>1. PICK p \in Nat \ {0} : p = n + 1
    OBVIOUS
  <2>2. PICK c \in Int : c = b + 1
    OBVIOUS
  <2>3. c = Effect(earned.why, b) /\ earned.id = p
    BY <1>9, <2>1, <2>2 DEF Effect
  <2>4. \A r \in counted : r.id \in 1 .. (p - 1)
    BY <1>6, <1>9, <1>10, <2>1
  <2>5. Ends(counted \cup {earned}, p + 1, c)
    BY <1>12, <2>1, <2>3, <2>4, ReplayGrows
  <2>6. p + 1 = n + 2
    BY <2>1
  <2>7. QED
    BY <2>2, <2>5, <2>6
<1>14. BalanceWithinCap'
  BY <1>1, <1>3, <1>11, ConfigAssumption DEF BalanceInv, BalanceWithinCap, Larger, TypeOK
<1>15. QED
  BY <1>11, <1>12, <1>13, <1>14, BalanceNext

\* Any other row, or none.
LEMMA OtherStepBalance ==
    ASSUME TypeOK, LedgerExplainsStreak, BalanceInv,
           \/ UNCHANGED <<streak_events, next_id, streak_freezes>>
           \/ \E row : /\ streak_events' = streak_events \cup {row} /\ next_id' = next_id + 1
                       /\ row.id = next_id
                       /\ streak_freezes' = Effect(row.why, streak_freezes)
                       /\ row.why \in {"repair", "timezone", "outage", "grant"}
    PROVE  BalanceInv'
<1>1. CASE UNCHANGED <<streak_events, next_id, streak_freezes>>
  BY <1>1 DEF BalanceInv, BalanceWithinCap, Ends, Replays
<1>2. ASSUME NEW row, streak_events' = streak_events \cup {row}, next_id' = next_id + 1,
             row.id = next_id, streak_freezes' = Effect(row.why, streak_freezes),
             row.why \in {"repair", "timezone", "outage", "grant"}
      PROVE  BalanceInv'
  <2>1. PICK n \in Nat \ {0} : n = next_id
    BY DEF TypeOK
  <2>2. streak_freezes' \in {streak_freezes, InitialGrant}
    BY <1>2 DEF Effect
  <2>3. InitialGrant \in Int /\ InitialGrant <= FREEZE_START
    BY ConfigAssumption DEF InitialGrant, Smaller
  <2>4. BalanceWithinCap'
    BY <2>2, <2>3, ConfigAssumption DEF BalanceInv, BalanceWithinCap, Larger
  <2>5. PICK b \in Int : b = streak_freezes'
    BY <2>2, <2>3 DEF TypeOK
  <2>6. \A r \in streak_events : r.id \in 1 .. (n - 1)
    BY <2>1 DEF LedgerExplainsStreak, IsChain
  <2>7. PICK a : a = streak_freezes
    OBVIOUS
  <2>8. Ends(streak_events, n, a) /\ row.id = n /\ b = Effect(row.why, a)
    BY <1>2, <2>1, <2>5, <2>7 DEF BalanceInv
  <2>9. Ends(streak_events \cup {row}, n + 1, b)
    BY <2>6, <2>8, ReplayGrows
  <2>10. QED
    BY <1>2, <2>1, <2>4, <2>5, <2>9, BalanceNext
<1>3. QED
  BY <1>1, <1>2

\* Action by action: what each row says of the balance is what the action did.
LEMMA BalanceStep == TypeOK /\ LedgerExplainsStreak /\ BalanceInv /\ [Next]_vars => BalanceInv'
<1> SUFFICES ASSUME TypeOK, LedgerExplainsStreak, BalanceInv, [Next]_vars
             PROVE  BalanceInv'
  OBVIOUS
<1>1. CASE Submit
  <2>1. {} \subseteq Int /\ IsFiniteSet({})
    BY FS_EmptySet
  <2>2. CASE SubmitAgainToday
    BY <2>2, OtherStepBalance DEF SubmitAgainToday, ledger
  <2>3. CASE SubmitNextDay
    BY <2>1, <2>3, CountTodayBalance DEF SubmitNextDay
  <2>4. CASE SubmitAfterCoveredGap
    BY <2>4, GapIsPayable, CountTodayBalance DEF SubmitAfterCoveredGap
  <2>5. CASE SubmitAfterGap
    BY <2>1, <2>5, CountTodayBalance DEF SubmitAfterGap
  <2>6. QED
    BY <1>1, <2>2, <2>3, <2>4, <2>5 DEF Submit
<1>2. CASE Repair
  <2>1. PICK from, to, ref : streak_events' = streak_events \cup
            {Row(next_id, "repaired", from, to, Today, "repair", ref)}
    BY <1>2 DEF Repair, RepairTo
  <2>2. PICK row : row = Row(next_id, "repaired", from, to, Today, "repair", ref)
    OBVIOUS
  <2>3. row.id = next_id /\ row.why = "repair"
    BY <2>2 DEF Row
  <2>4. streak_freezes' = Effect(row.why, streak_freezes) /\ next_id' = next_id + 1
    BY <1>2, <2>3 DEF Repair, Effect
  <2>5. QED
    BY <2>1, <2>2, <2>3, <2>4, OtherStepBalance
<1>3. ASSUME NEW zone \in Offsets, ChangeTimezone(zone) PROVE BalanceInv'
  <2>1. CASE HasStats /\ LocalDate(zone) < last_active
    <3>1. PICK row : row = Row(next_id, "repaired", current_streak, current_streak,
                               LocalDate(zone), "timezone", 0)
      OBVIOUS
    <3>2. row.id = next_id /\ row.why = "timezone"
      BY <3>1 DEF Row
    <3>3. /\ streak_events' = streak_events \cup {row} /\ next_id' = next_id + 1
          /\ streak_freezes' = Effect(row.why, streak_freezes)
      BY <1>3, <2>1, <3>1, <3>2 DEF ChangeTimezone, Effect
    <3>4. QED
      BY <3>2, <3>3, OtherStepBalance
  <2>2. CASE ~(HasStats /\ LocalDate(zone) < last_active)
    BY <1>3, <2>2, OtherStepBalance DEF ChangeTimezone, ledger
  <2>3. QED
    BY <2>1, <2>2
<1>4. ASSUME NEW date \in OutageDates, OutageFreeze(date) PROVE BalanceInv'
  <2>1. PICK row : row = Row(next_id, "freeze_used", current_streak, current_streak, date,
                             "outage", 0)
    OBVIOUS
  <2>2. row.id = next_id /\ row.why = "outage"
    BY <2>1 DEF Row
  <2>3. /\ streak_events' = streak_events \cup {row} /\ next_id' = next_id + 1
        /\ streak_freezes' = Effect(row.why, streak_freezes)
    BY <1>4, <2>1, <2>2 DEF OutageFreeze, stats, Effect
  <2>4. QED
    BY <2>2, <2>3, OtherStepBalance
<1>5. ASSUME NEW date \in OutageDates, GrantInitialFreezes(date) PROVE BalanceInv'
  <2>1. PICK row : row = Row(next_id, "adjusted", current_streak, current_streak, date,
                             "grant", 0)
    OBVIOUS
  <2>2. row.id = next_id /\ row.why = "grant"
    BY <2>1 DEF Row
  <2>3. /\ streak_events' = streak_events \cup {row} /\ next_id' = next_id + 1
        /\ streak_freezes' = Effect(row.why, streak_freezes)
    BY <1>5, <2>1, <2>2 DEF GrantInitialFreezes, Effect
  <2>4. QED
    BY <2>2, <2>3, OtherStepBalance
<1>6. CASE Tick
  BY <1>6, OtherStepBalance DEF Tick, stats, ledger
<1>7. CASE UNCHANGED vars
  BY <1>7, OtherStepBalance DEF vars, stats, ledger
<1>8. QED
  BY <1>1, <1>2, <1>3, <1>4, <1>5, <1>6, <1>7 DEF Next

\* The replay of no row, or of the row a legacy account enters with.
LEMMA BalanceInitially == Init => BalanceInv
<1> SUFFICES ASSUME Init PROVE BalanceInv
  OBVIOUS
<1>1. OpeningBalance \in Nat /\ OpeningBalance <= FREEZE_START /\ streak_freezes = OpeningBalance
  BY ConfigAssumption DEF Init, OpeningBalance
<1>2. BalanceWithinCap
  BY <1>1, ConfigAssumption DEF BalanceWithinCap, Larger
<1>3. CASE LEGACY
  <2>1. PICK r : r = Row(1, "extended", 0, 1, Today, "submit", 0)
    OBVIOUS
  <2>2. r.id = 1 /\ r.why = "submit"
    BY <2>1 DEF Row
  <2>3. streak_events = {r} /\ next_id = 2
    BY <1>3, <2>1 DEF Init
  <2>4. PICK f : f = [i \in 0 .. 1 |-> OpeningBalance]
    OBVIOUS
  <2>5. f \in [0 .. 1 -> Int] /\ f[0] = OpeningBalance /\ f[1] = OpeningBalance
    BY <1>1, <2>4
  <2>6. Replays(f, streak_events, next_id)
    BY <2>2, <2>3, <2>5 DEF Replays, Effect
  <2>7. QED
    BY <1>1, <1>2, <2>3, <2>5, <2>6 DEF BalanceInv, Ends
<1>4. CASE ~LEGACY
  <2>1. streak_events = {} /\ next_id = 1
    BY <1>4 DEF Init
  <2>2. PICK f : f = [i \in 0 .. 0 |-> OpeningBalance]
    OBVIOUS
  <2>3. f \in [0 .. 0 -> Int] /\ f[0] = OpeningBalance
    BY <1>1, <2>2
  <2>4. Replays(f, streak_events, next_id)
    BY <2>1, <2>3 DEF Replays
  <2>5. QED
    BY <1>1, <1>2, <2>1, <2>3, <2>4 DEF BalanceInv, Ends
<1>5. QED
  BY <1>3, <1>4

\* BalanceIsExplained: every freeze that is earned, spent or granted has its
\* row, in order, whatever the grant, the cap and the milestones are, and the
\* balance stays within the larger of grant and cap (accrue_freeze_if_earned,
\* try_cover_gap, grant_initial_freezes).
THEOREM BalanceIsExplained == Spec => []LedgerExplainsBalance
<1>1. Init => TypeOK /\ LedgerExplainsStreak /\ BalanceInv
  BY TypesInitially, ChainInitially, BalanceInitially
<1>2. TypeOK /\ LedgerExplainsStreak /\ BalanceInv /\ [Next]_vars
        => (TypeOK /\ LedgerExplainsStreak /\ BalanceInv)'
  BY TypesAreInductive, ChainIsInductive, BalanceStep
<1>3. TypeOK /\ LedgerExplainsStreak /\ BalanceInv => LedgerExplainsBalance
  BY ReplayIsUnique DEF BalanceInv, Ends, LedgerExplainsBalance
<1>4. QED
  BY <1>1, <1>2, <1>3, PTL DEF Spec

=============================================================================
