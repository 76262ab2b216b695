------------------------- MODULE StreakTransactions -------------------------
(***************************************************************************)
(* The transactions that write one user's streak, interleaved.             *)
(* StreakLedger has each of them atomic; here each reads user_stats, later *)
(* writes the columns it changed, and commits:                             *)
(*   submit   attempts/service.py       advisory lock (user, day)          *)
(*   repair   streak/router.py          advisory lock (user, "streak_repair") *)
(*            and, around it, the reservation of the Idempotency-Key       *)
(*   zone     users/service.py, jobs/streak_recon.py          no lock      *)
(*   fill     streak/service.py outage_freeze                 no lock      *)
(* The isolation is READ COMMITTED: a statement sees what is committed, an *)
(* UPDATE waits for the row and overwrites, an INSERT is seen at commit.   *)
(* The clock counts days and a timezone is an offset in days.              *)
(* A definition marked "Fault" is a plausible mistake in the one after it. *)
(***************************************************************************)
EXTENDS Integers, FiniteSets, FiniteSetsExt

CONSTANTS
    Requests,          \* requests the servers handle at a time
    Keys,              \* Idempotency-Keys of POST /streak/repair
    None,
    FREEZE_MAX, EARN_EVERY, REPAIR_WINDOW,   \* as in StreakLedger, in days
    Zones,             \* offsets the user may choose
    FillDates,         \* dates the operator may fill
    MaxClock,          \* bound: days
    MaxBegun           \* bound: requests ever begun

VARIABLES
    clock, zone,
    row,               \* user_stats, as committed
    events,            \* streak_events, as committed
    next_id,           \* the identity sequence of streak_events
    op,                \* what each request is doing
    begun,             \* requests begun
    reserved, cached,  \* Redis: the reservation and the record of each key
    told,              \* keys whose request was answered, and how
    submitted,         \* submissions committed
    crossed            \* whether transactions under different locks have overlapped

vars == <<clock, zone, row, events, next_id, op, begun, reserved, cached, told,
          submitted, crossed>>

redis == <<reserved, cached, told>>
database == <<zone, row, events, next_id, submitted>>

Today == clock + zone

\* A row of streak_events before the database gives it its id; created_at is
\* now(), when its transaction began.
Row(event, from, to, date, ref, at) ==
    [id |-> 0, event |-> event, from_value |-> from, to_value |-> to, local_date |-> date,
     ref |-> ref, created_at |-> at]

IsTransition(r) == r.event \in {"extended", "reset"}

-----------------------------------------------------------------------------
(* Requests and the locks they hold. *)
Idle == [kind |-> "none", phase |-> "idle"]

Active(q) == op[q] # Idle

\* Fault: submissions are serialized per exercise, each of its own here.
LockOfExercise(o, q) ==
    CASE o.kind = "submit" -> <<"exercise", q>>
      [] o.kind = "repair" -> <<"streak_repair", 0>>
      [] OTHER -> <<"none", q>>

\* Fault: repairs rely on the reservation of their key alone.
LockOfDay(o, q) == IF o.kind = "submit" THEN <<"day", o.today>> ELSE <<"none", q>>

\* What a transaction excludes others from: the same key, waited for.
LockOf(o, q) ==
    CASE o.kind = "submit" -> <<"day", o.today>>
      [] o.kind = "repair" -> <<"streak_repair", 0>>
      [] OTHER -> <<"none", q>>

InTransaction(o) == o.phase \in {"found", "read", "flushed"}

LockIsFree(q) ==
    \A p \in Requests \ {q} :
        InTransaction(op[p]) => LockOf(op[p], p) # LockOf(op[q], q)

\* The day a submission is for is fixed before it asks for its lock, and so is
\* what a fill inserts; from there on the others' commits can hurt it.
Exposed(o) == InTransaction(o) \/ (o.kind = "submit" /\ o.phase = "start")

\* What the locks are meant to keep apart (D-104): the submissions of a day, and
\* the repairs.
Family(o, q) ==
    <<o.kind, CASE o.kind = "submit" -> o.today [] o.kind = "repair" -> 0 [] OTHER -> q>>

Crosses(q, o) == \E p \in Requests \ {q} : Exposed(op[p]) /\ Family(op[p], p) # Family(o, q)

Expose(q, o) ==
    /\ op' = [op EXCEPT ![q] = o]
    /\ crossed' = (crossed \/ Crosses(q, o))

\* The row of user_stats is locked from a flush that changes it to the commit.
RowIsFree(q) ==
    \A p \in Requests \ {q} : op[p].phase = "flushed" => op[p].after = op[p].seen

Begin(q) == op[q] = Idle /\ begun < MaxBegun /\ begun' = begun + 1

\* Every operation has one shape: what it read, what it wants to write.
Op(kind, phase, key, today) ==
    [kind |-> kind, phase |-> phase, key |-> key, today |-> today, at |-> clock,
     found |-> None, seen |-> row, after |-> row, rows |-> {}]

-----------------------------------------------------------------------------
(* POST /attempts, reduced to its first writing transaction: the attempt   *)
(* is new (AttemptSubmission has the rest).                                *)
StartSubmit(q) ==
    /\ Begin(q)
    /\ Expose(q, Op("submit", "start", None, Today))
    /\ UNCHANGED <<clock, database, redis>>

\* The lock, and the first read of user_stats under it.
ReadForSubmit(q) ==
    /\ op[q].kind = "submit" /\ op[q].phase = "start"
    /\ LockIsFree(q)
    /\ op' = [op EXCEPT ![q].phase = "read", ![q].seen = row]
    /\ UNCHANGED <<clock, database, begun, redis, crossed>>

MissedDates(last, today) == (last + 1) .. (today - 1)

CoveredDates == {r.local_date : r \in {e \in events : e.event = "freeze_used"}}

EarnsFreeze(value, balance) ==
    EARN_EVERY > 0 /\ value % EARN_EVERY = 0 /\ balance < FREEZE_MAX

\* _update_streak_and_attempt_count, from the row that was read and the ledger
\* as it is now: the columns and the rows it wants to write.
Transition(s, today, at) ==
    LET missed    == MissedDates(s.last_active, today)
        uncovered == missed \ CoveredDates
        saved     == /\ missed # {}
                     /\ Cardinality(uncovered) <= Min({s.freezes, FREEZE_MAX})
        extends   == s.last_active = today - 1 \/ saved
        paid      == IF saved THEN uncovered ELSE {}
        value     == IF extends THEN s.streak + 1 ELSE 1
        balance   == s.freezes - Cardinality(paid)
        earns     == extends /\ EarnsFreeze(value, balance)
        counted   == [s EXCEPT !.attempts = @ + 1]
    IN  IF s.last_active = today
        THEN [after |-> counted, rows |-> {}]
        ELSE [after |-> [counted EXCEPT !.streak = value, !.last_active = today,
                                        !.freezes = IF earns THEN balance + 1 ELSE balance],
              rows  |-> {Row("freeze_used", s.streak, s.streak, d, 0, at) : d \in paid}
                        \cup {Row(IF extends THEN "extended" ELSE "reset",
                                  s.streak, value, today, 0, at)}
                        \cup IF earns THEN {Row("adjusted", value, value, today, 0, at)} ELSE {}]

\* The identity sequence numbers the rows in the order they are added: the days
\* paid for, the transition, the freeze earned.
Precedes(e, r) ==
    \/ e.event = "freeze_used" /\ (r.event = "freeze_used" => e.local_date < r.local_date)
    \/ IsTransition(e) /\ r.event = "adjusted"

Numbered(rows) ==
    {[r EXCEPT !.id = next_id + Cardinality({e \in rows : Precedes(e, r)})] : r \in rows}

Flush(q, after, rows) ==
    /\ RowIsFree(q)
    /\ op' = [op EXCEPT ![q].phase = "flushed", ![q].after = after,
                        ![q].rows = Numbered(rows)]
    /\ next_id' = next_id + Cardinality(rows)

\* uq_streak_events_one_transition_per_day.
IndexRefuses(rows) ==
    \E r \in rows, e \in events : IsTransition(r) /\ IsTransition(e) /\ r.local_date = e.local_date

FlushSubmit(q) ==
    /\ op[q].kind = "submit" /\ op[q].phase = "read"
    /\ LET t == Transition(op[q].seen, op[q].today, op[q].at)
       IN  ~IndexRefuses(t.rows) /\ Flush(q, t.after, t.rows)
    /\ UNCHANGED <<clock, zone, row, events, submitted, begun, redis, crossed>>

\* The transaction of a submission that the index refuses is rolled back.
SubmitFails(q) ==
    /\ op[q].kind = "submit" /\ op[q].phase = "read"
    /\ RowIsFree(q)
    /\ IndexRefuses(Transition(op[q].seen, op[q].today, op[q].at).rows)
    /\ op' = [op EXCEPT ![q] = Idle]
    /\ UNCHANGED <<clock, database, begun, redis, crossed>>

-----------------------------------------------------------------------------
(* PATCH /me with a new timezone. *)
StartZone(q, z) ==
    /\ z # zone
    /\ Begin(q)
    /\ op' = [op EXCEPT ![q] = Op("zone", "start", z, Today)]
    /\ UNCHANGED <<clock, database, redis, crossed>>

ReadForZone(q) ==
    /\ op[q].kind = "zone" /\ op[q].phase = "start"
    /\ Expose(q, [Op("zone", "read", op[q].key, clock + op[q].key) EXCEPT !.seen = row,
                                                                          !.at = op[q].at])
    /\ UNCHANGED <<clock, database, begun, redis>>

FlushZone(q) ==
    /\ op[q].kind = "zone" /\ op[q].phase = "read"
    /\ LET s == op[q].seen
           today == op[q].today
       IN  IF today < s.last_active
           THEN Flush(q, [s EXCEPT !.last_active = today],
                      {Row("repaired", s.streak, s.streak, today, 0, op[q].at)})
           ELSE op' = [op EXCEPT ![q].phase = "flushed"] /\ UNCHANGED next_id
    /\ UNCHANGED <<clock, zone, row, events, submitted, begun, redis, crossed>>

-----------------------------------------------------------------------------
(* The outage fill: one statement, which sees what is committed. *)
Fill(q, d) ==
    /\ Begin(q)
    /\ d \notin CoveredDates
    /\ Expose(q, [Op("fill", "flushed", None, d) EXCEPT
                    !.rows = Numbered({Row("freeze_used", row.streak, row.streak, d, 0, clock)})])
    /\ next_id' = next_id + 1
    /\ UNCHANGED <<clock, zone, row, events, submitted, redis>>

-----------------------------------------------------------------------------
(* POST /streak/repair. *)
Answer(k, how) == told' = told \cup {<<k, how>>}

\* A cached record is the answer, without a transaction.
AskAgain(q, k) ==
    /\ Begin(q)
    /\ cached[k] # None
    /\ Answer(k, "repaired")
    /\ UNCHANGED <<clock, database, op, reserved, cached, crossed>>

Ask(q, k) ==
    /\ Begin(q)
    /\ cached[k] = None
    /\ op' = [op EXCEPT ![q] = Op("repair", "asked", k, Today)]
    /\ UNCHANGED <<clock, database, redis, crossed>>

Reserve(q) ==
    /\ op[q].kind = "repair" /\ op[q].phase = "asked"
    /\ op' = [op EXCEPT ![q].phase = IF reserved[op[q].key] THEN "waiting" ELSE "start"]
    /\ reserved' = [reserved EXCEPT ![op[q].key] = TRUE]
    /\ UNCHANGED <<clock, database, begun, cached, told, crossed>>

\* The record of the request waited for: returned before the try, so that
\* nothing is released.
WaitEnds(q) ==
    /\ op[q].kind = "repair" /\ op[q].phase = "waiting"
    /\ cached[op[q].key] # None
    /\ Answer(op[q].key, "repaired")
    /\ op' = [op EXCEPT ![q] = Idle]
    /\ UNCHANGED <<clock, database, begun, reserved, cached, crossed>>

\* Five seconds without a record: the request goes on, without a reservation.
WaitTimesOut(q) ==
    /\ op[q].kind = "repair" /\ op[q].phase = "waiting"
    /\ cached[op[q].key] = None
    /\ op' = [op EXCEPT ![q].phase = "start"]
    /\ UNCHANGED <<clock, database, begun, redis, crossed>>

\* Ordered by created_at, then by id: a transaction that began later may have
\* numbered its rows earlier.
LastReset ==
    {r \in events : /\ r.event = "reset"
                    /\ \A e \in events : e.event = "reset" =>
                           \/ e.created_at < r.created_at
                           \/ e.created_at = r.created_at /\ e.id <= r.id}

\* The newest reset, if it is recent and no repair is anchored to it.
Restorable ==
    {r \in LastReset :
        /\ clock - r.created_at <= REPAIR_WINDOW
        /\ \A e \in events : e.event = "repaired" => e.ref # r.id}

RestoresTo(r) ==
    LET run == {e \in events : IsTransition(e) /\ e.local_date >= r.local_date}
        end == CHOOSE e \in run : \A f \in run : f.local_date <= e.local_date
    IN  r.from_value + end.to_value

\* The lock, and _RESTORABLE_SQL under it.
Find(q) ==
    /\ op[q].kind = "repair" /\ op[q].phase = "start"
    /\ LockIsFree(q)
    /\ \E r \in Restorable :
           Expose(q, [op[q] EXCEPT !.phase = "found", !.found = r.id, !.today = RestoresTo(r)])
    /\ UNCHANGED <<clock, database, begun, redis>>

\* 409 not_repairable, and the finally clause.
Refuse(q) ==
    /\ Answer(op[q].key, "refused")
    /\ op' = [op EXCEPT ![q] = Idle]
    /\ reserved' = [reserved EXCEPT ![op[q].key] = FALSE]
    /\ UNCHANGED <<clock, database, begun, cached, crossed>>

FindNothing(q) ==
    /\ op[q].kind = "repair" /\ op[q].phase = "start"
    /\ LockIsFree(q)
    /\ Restorable = {}
    /\ Refuse(q)

ReadForRepair(q) ==
    /\ op[q].kind = "repair" /\ op[q].phase = "found"
    /\ op[q].today > row.streak
    /\ op' = [op EXCEPT ![q].phase = "read", ![q].seen = row]
    /\ UNCHANGED <<clock, database, begun, redis, crossed>>

NothingToGain(q) ==
    /\ op[q].kind = "repair" /\ op[q].phase = "found"
    /\ op[q].today <= row.streak
    /\ Refuse(q)

FlushRepair(q) ==
    /\ op[q].kind = "repair" /\ op[q].phase = "read"
    /\ LET s == op[q].seen
           restored == op[q].today
       IN  Flush(q, [s EXCEPT !.streak = restored],
                 {Row("repaired", s.streak, restored, Today, op[q].found, op[q].at)})
    /\ UNCHANGED <<clock, zone, row, events, submitted, begun, redis, crossed>>

\* Only a success is cached; then the finally clause, whoever's reservation it is.
Store(q) ==
    /\ op[q].phase = "committed"
    /\ cached' = [cached EXCEPT ![op[q].key] = op[q].today]
    /\ op' = [op EXCEPT ![q].phase = "stored"]
    /\ UNCHANGED <<clock, database, begun, reserved, told, crossed>>

Release(q) ==
    /\ op[q].phase = "stored"
    /\ reserved' = [reserved EXCEPT ![op[q].key] = FALSE]
    /\ Answer(op[q].key, "repaired")
    /\ op' = [op EXCEPT ![q] = Idle]
    /\ UNCHANGED <<clock, database, begun, cached, crossed>>

\* RESERVATION_TTL_SECONDS: longer than a repair that lives, so only a dead
\* one's reservation expires.
ReservationExpires(k) ==
    /\ reserved[k]
    /\ \A q \in Requests : Active(q) => op[q].kind # "repair" \/ op[q].key # k
    /\ reserved' = [reserved EXCEPT ![k] = FALSE]
    /\ UNCHANGED <<clock, database, op, begun, cached, told, crossed>>

-----------------------------------------------------------------------------
(* The commit writes the columns that changed over whatever is there.      *)
Columns == {"streak", "last_active", "freezes", "attempts"}

Written(o) == [c \in Columns |-> IF o.after[c] # o.seen[c] THEN o.after[c] ELSE row[c]]

Commit(q) ==
    /\ op[q].phase = "flushed"
    /\ row' = Written(op[q])
    /\ events' = events \cup op[q].rows
    /\ zone' = IF op[q].kind = "zone" THEN op[q].key ELSE zone
    /\ submitted' = IF op[q].kind = "submit" THEN submitted + 1 ELSE submitted
    /\ op' = IF op[q].kind = "repair" THEN [op EXCEPT ![q].phase = "committed"]
                                      ELSE [op EXCEPT ![q] = Idle]
    /\ UNCHANGED <<clock, next_id, begun, redis, crossed>>

\* The process dies: what is not committed is rolled back.
Die(q) ==
    /\ Active(q)
    /\ op' = [op EXCEPT ![q] = Idle]
    /\ UNCHANGED <<clock, database, begun, redis, crossed>>

NextDay ==
    /\ clock < MaxClock
    /\ clock' = clock + 1
    /\ UNCHANGED <<database, op, begun, redis, crossed>>

\* An account that practised on day 0, lost its streak of one on day 3 and has
\* one freeze, too few for the gap.
Init ==
    /\ clock = 3 /\ zone = 0
    /\ row = [streak |-> 1, last_active |-> 3, freezes |-> 1, attempts |-> 2]
    /\ events = {[Row("extended", 0, 1, 0, 0, 0) EXCEPT !.id = 1],
                 [Row("reset", 1, 1, 3, 0, 3) EXCEPT !.id = 2]}
    /\ next_id = 3
    /\ op = [q \in Requests |-> Idle] /\ begun = 0
    /\ reserved = [k \in Keys |-> FALSE] /\ cached = [k \in Keys |-> None]
    /\ told = {} /\ submitted = 0 /\ crossed = FALSE

Step(q) ==
    \/ StartSubmit(q) \/ ReadForSubmit(q) \/ FlushSubmit(q) \/ SubmitFails(q)
    \/ \E z \in Zones : StartZone(q, z)
    \/ ReadForZone(q) \/ FlushZone(q)
    \/ \E d \in FillDates : Fill(q, d)
    \/ \E k \in Keys : Ask(q, k) \/ AskAgain(q, k)
    \/ Reserve(q) \/ WaitEnds(q) \/ WaitTimesOut(q)
    \/ Find(q) \/ FindNothing(q) \/ ReadForRepair(q) \/ NothingToGain(q) \/ FlushRepair(q)
    \/ Store(q) \/ Release(q)
    \/ Commit(q) \/ Die(q)

Next ==
    \/ \E q \in Requests : Step(q)
    \/ \E k \in Keys : ReservationExpires(k)
    \/ NextDay

Spec == Init /\ [][Next]_vars

-----------------------------------------------------------------------------
(* The shape of the state.  The balance has no CHECK constraint. *)
TypeOK ==
    /\ row.streak \in Nat /\ row.freezes \in 0 .. FREEZE_MAX
    /\ row.last_active \in Int /\ row.attempts \in Nat
    /\ \A r \in events : r.id \in 1 .. (next_id - 1)
    /\ \A q \in Requests : Active(q) => op[q].kind \in {"submit", "repair", "zone", "fill"}
    /\ cached \in [Keys -> Nat \cup {None}]

(* A reset is repaired once (D-116), however many requests with however    *)
(* many keys ask for it, whoever waited for whom and whoever died; and two *)
(* keys are never both told of a success that was one.                     *)
Repairs == {e \in events : e.event = "repaired" /\ e.ref # 0}

RepairedOnce ==
    /\ \A e, f \in Repairs : e.ref = f.ref => e = f
    /\ Cardinality({k \in Keys : cached[k] # None}) <= Cardinality(Repairs)

(* The ledger and the row tell one story: in id order each row starts from *)
(* the value the one before it left, up to the current streak; every       *)
(* submission is counted; no day is covered twice; the last active day is  *)
(* the last day counted or one the reconciliation chose.                   *)
Newest(rows) == {r \in rows : \A e \in rows : e.id <= r.id}

Follows(r, s) == r.id < s.id /\ \A e \in events : e.id <= r.id \/ s.id <= e.id

LedgerIsAChain ==
    /\ \A r, s \in events : r.id = s.id => r = s
    /\ \A r, s \in events : Follows(r, s) => r.to_value = s.from_value
    /\ \A r \in Newest(events) : r.to_value = row.streak

Accounted ==
    /\ LedgerIsAChain
    /\ row.attempts = submitted + 2
    /\ \A r, s \in events :
           r.event = "freeze_used" /\ s.event = "freeze_used" /\ r.local_date = s.local_date => r = s
    /\ row.last_active <= Today

(* What the locks are good for: as long as no two transactions under       *)
(* DIFFERENT locks (or under none) have overlapped, any number of          *)
(* overlapping submissions of a day and of overlapping repairs leave row   *)
(* and ledger accounted for.                                               *)
SameLockIsSafe == ~crossed => Accounted

LocksProtect == RepairedOnce /\ SameLockIsSafe

(* docs/10 (D-116): "POST /v1/streak/repair replayed is byte-identical".   *)
(* A key whose request was told of the repair is not told of a refusal.    *)
RetryIsReplayed == \A k \in Keys : ~(<<k, "repaired">> \in told /\ <<k, "refused">> \in told)
=============================================================================
