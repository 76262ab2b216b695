# A formal model of codeReader

codeReader serves each user a short session of code-reading exercises a day,
grades the answers, keeps a streak with freezes and repairs, and sends
reminders and weekly recaps. The backend is FastAPI over Postgres (READ
COMMITTED) and Redis; an offline pipeline generates and gates the exercises; a
React client talks to the API. This directory holds TLA+ modules for the parts
of the program that keep state between requests, jobs, operators and batches,
TLC configurations that check them, and theorems about them that TLAPS proves.
Paths below are relative to `src/backend/app/` unless they begin with `src/`.

Contents: [inventory](#1-inventory), [modules](#2-modules),
[runs](#3-runs-and-bounds), [findings](#4-where-code-and-documents-disagree),
[proofs](#5-what-is-proved), [limits](#6-what-is-not-modelled),
[plan](#7-plan).

To repeat the checks, in this directory:

    tlc -config StreakHome.cfg MCStreakLedger      (and so for each run)
    tlapm StreakLedger_proofs.tla                  (and so for each *_proofs)

## 1. Inventory

| Component | State it keeps | Operations | Hard behaviour | Correct when |
|---|---|---|---|---|
| Streak ledger (`streak/service.py`, `attempts/service.py`) | `user_stats`, append-only `streak_events` | first submit of a day, gap cover, freeze accrual, repair, outage fill, initial grant | sequences over many days; five writers, two of them under different locks | the ledger explains streak and balance; nothing is paid twice; a repair restores the counterfactual |
| Timezone reconciliation (`jobs/streak_recon.py`, `users/service.py`) | `users.timezone`, `last_active_local_date` | `PATCH /me` | local dates that go backwards | a move never breaks a streak; the last active day is never in the future |
| Attempt submission (`attempts/`) | `attempts`, aggregates, the session's `completed_at` | `POST /attempts` | concurrent submits, retries, slow grader, crash after commit | one attempt per exercise and day; aggregates match; replays are identical |
| Idempotency (`core/idempotency.py`) | Redis record (24 h) and reservation (30 s) per key | lookup, SET NX, poll, store, release | check-then-reserve, TTL expiry, loss of the holder | a retry replays; nobody waits for ever |
| Daily session (`sessions/`) | `daily_sessions` row, Redis copy (36 h) | read through, build, purge, complete | first requests of the day together; purge against readers and submitters | one session a day; pulled content disappears; completed sessions stay |
| Exercises (`exercises/service.py`) | status and version of an exercise | update, pull | pull against sessions in flight | live exercises are immutable; a pull purges |
| Notification sweeps (`jobs/reminders.py`, `jobs/weekly_email.py`, `email/dispatch.py`, `email/deliveries.py`) | `email_deliveries`, `email_suppressions`, the provider's key memory | scan, claim, render, send, record | overlapping sweeps, ambiguous timeouts, crashes, cap and batch | at most one message a period; retries repeat the bytes; who is due is reached |
| Email addresses (`email/service.py`) | `users.email`, tokens | set, resend, verify, delete | verify against delete, two live tokens | only a verified, current address is used |
| Refresh tokens (`auth/`) | `refresh_tokens` families | rotate, revoke | two rotations at once, logout against rotation | a token rotates once; logout ends the family |
| Concept mastery (`attempts/service.py`, `core/accuracy.py`) | `user_concept_state`, `accuracy_by_type` | right, wrong, skip | quantized arithmetic, intervals | mastery stays in [0, 1]; review dates follow the verdict |
| Grading retry (`jobs/grading_retry.py`, `core/grader_health.py`) | pending attempts, failure counter | resolve, degrade | reads before slow calls, one commit for a batch | each pending attempt is counted once |
| Rate limiting (`core/ratelimit.py`) | token bucket in Redis | take | refill arithmetic, expiry | never more than the burst plus the refill |
| Scheduler and trigger (`jobs/runner.py`, `jobs/trigger.py`) | interval loops, Redis lock | tick, run | a run outliving its lock | jobs recur; one failure stops nothing |
| Partitions (`jobs/partitions.py`) | the monthly tables of `attempts`, the default one | a daily run: find the missing months, drain, create or attach | months missed; runs of several processes; submissions meanwhile; a run that dies | no attempt is lost or misplaced; no month stays without its table; rows get out of the default one |
| Disputes, reviews (`disputes/`, `reviews/`) | `disputes`, `reviews`, `review_history` | select, then insert or update | second caller between the select and the insert | one open dispute; the review is the newest of its history |
| Percentiles, admin, entitlements | one table each | single statements | none | see each service |
| Pipeline (`src/pipeline`) | lineages, gates, publication | generate, gate, repair, publish | retry budgets, partial failure of a batch | only what passed every gate is published |
| Web client (`src/frontend/src`) | access token, one refresh in flight, a key per exercise | request, refresh, retry | many requests meeting one 401 | one rotation; one key per submission |

How they meet: `POST /attempts` reads the session (`get_today_slots`), writes
the attempt, mastery, statistics, streak and the session's `completed_at` in
one transaction, and stores the response in Redis. A pull deletes sessions that
submissions may be completing. `PATCH /me` and the admin routes write the same
ledger as submissions. The reminder job decides from
`last_active_local_date`, which submissions and moves write.

The hazards of this code, line by line, with the properties that cover them,
are the `hazards` of `PROJECT.json`.

## 2. Modules

| Module | Of what | Checked in |
|---|---|---|
| `StreakLedger` | one user's `user_stats` and `streak_events`, atomic transactions | `MCStreakLedger` |
| `StreakTransactions` | the same transactions as reads, flushes and commits that interleave, with their locks; the repair route | `MCServices` |
| `AttemptSubmission` | `POST /attempts` on one day: Redis, lock, transaction, crash | `MCAttemptSubmission` |
| `SubmitOnce` | abstract: an exercise of the day is attempted once, and every success told is what its attempt was told | `MCAttemptSubmission` (`Once`) |
| `AttemptPartitions` | the monthly partitions under runs of the job, beside submissions | `MCAttemptPartitions` |
| `Feedback` | one user's disputes of an exercise version and the review with its history | `MCServices` |
| `SessionServing` | the day's session: cache, row, build lock, purge, completion | itself |
| `DailyPractice` | the sampler, mastery and measured difficulty, day after day | `MCServices` |
| `GradingRetry` | the retry job and the correctness statistics it shares with submissions | `MCServices` |
| `EmailDelivery` | the two notification sweeps and the provider | itself |
| `EmailOnce` | abstract: a period's message is received at most once | `EmailDelivery` (`Once`) |
| `EmailVerification` | addresses, links, withdrawal | `MCServices` |
| `RefreshTokens` | token families and the tabs of a browser | `MCServices` |
| `JobTrigger` | interval loops and the triggered runs with their lock | `MCServices` |
| `TokenBucket` | one key's rate limit | `MCServices` |
| `CandidateGates` | the gates of the pipeline, as functions of a candidate and of the judge's answers | `PipelineBatch` |
| `PipelineBatch` | a batch: specs, lineages, repairs, publication, commits | `MCPipelineBatch` |
| `ExerciseLifecycle` | versions of an exercise under the operators' tools | `MCExerciseLifecycle` |

`*_proofs` modules hold the theorems. MC modules give values to constants a
`.cfg` cannot write (`MCZones`, `MCDifficulty` and `MCCovers` of `MCServices`
among them). `MCServices` puts eight of the modules side by side: a
behaviour takes steps of one part while the others stay as they begin, so that
states add and do not multiply; each part's property is checked as if it ran
alone. The parts do share rows in the program (an address and its sweeps, a
verdict and its statistics); where the sharing matters both sides are in one
module.

Each module has definitions marked **Fault**, or with the mistake in a comment
on their first line: one plausible mistake in the definition that follows. No
action uses them. Every property of every passing run is known to fail when one
of them takes its definition's place (`mutants` in `PROJECT.json`).

### StreakLedger

The variables are the columns of `user_stats`, the set of rows of
`streak_events` with its id sequence, the clock and the user's zone. `now`
counts ticks, `DAY_LENGTH` to a day, and a zone is an offset in ticks, so that
a move may change the date or not. Actions and code:

- `SubmitAgainToday`, `SubmitNextDay`, `SubmitAfterCoveredGap`,
  `SubmitAfterGap`: the branches of `_update_streak_and_attempt_count`; the
  last three share `CountToday`, the code after the branches, with
  `accrue_freeze_if_earned` and the rows of `try_cover_gap`.
- `Repair`: `_load_restorable`, the refusal of D-124 and the write.
  `RestorableResets` and `RunEnds` follow the two `ORDER BY ... LIMIT 1` of
  the SQL, by timestamp and by local date: the two orders differ after a
  westward move, and the model keeps that.
- `ChangeTimezone`: `reconcile_streak_for_timezone_change`.
- `OutageFreeze`, `GrantInitialFreezes`: the two set-based statements, for one
  user. The dates are the operator's choice.
- `IndexAdmits`: the partial unique index of migration 0007. A submission it
  refuses fails as a whole, which is a step that changes nothing.

A note is reduced to what is read back from it: the anchor of a repair (`ref`)
and why the row was written (`why`).

### StreakTransactions

`op[q]` is what a request is doing: what it found, the `user_stats` row it saw,
the row it wants, the rows it will insert. `ReadForSubmit`, `ReadForZone`,
`Find`, `ReadForRepair` read what is committed; `Flush` is the `UPDATE`, which
waits for whoever has flushed a change of the same row (`RowIsFree`); `Commit`
writes the columns that differ from what was *seen*, as SQLAlchemy does, and
leaves the others as they now are. The rows of a flush get their ids in the order
they are added (`Numbered`); a row's `created_at` is the day its transaction
began, and orders and dates the resets a repair looks for (`LastReset`). `LockOf` gives each operation its advisory
lock. The repair route is `Ask`, `Reserve`, `WaitEnds` or `WaitTimesOut`,
`Find`, ..., `Store`, `Release`, with the `finally` that deletes a reservation
whoever made it. `Die` is a killed process. `crossed` is a history variable: a
transaction committed to reading while another one, under a different lock,
could still write.

### AttemptSubmission

Each request goes through `idle`, `reserve`, `wait`, `submit`, `lock`, `check`,
`grade`, `store`, `release`, and ends `answered` or `crashed`: a step is one
call of Redis, or a transaction's reads, or its commit. `Check` takes the
snapshot that `Commit` later computes aggregates from, so that without the lock
a lost update is possible (`LockExercise` is the state of the code before
D-66/H1). `Store` comes after the commit. `Release` is the unconditional
`DELETE` of `finally`. Shape errors and missing exercises go the way of
`FindSlot`'s refusal. `SLOW` says whether a request may outlive the wait budget
(`GRADER_TIMEOUT_S + 3` seconds) and the reservation's TTL; with `SLOW = FALSE`
both run out only on a request that is dead. `Crash` frees the advisory lock
(Postgres rolls back) and leaves Redis as it is.

`SubmitsOnce` is the refinement of `SubmitOnce`: the response of an exercise's
attempt is what its maker was given or will be; a `Commit` is `Submit`, a
request that comes to its end with a success is `Tell`, every other step a
stutter. The abstract specification knows no key, no cache, no lock and no crash.

### AttemptPartitions

A run is one transaction (`jobs/runner.py:121-125`): `Start` reads which months
have a partition and fixes the walk (`MonthsToCreate`), and then goes through
the months in order. `Count` is the check for rows of the month in
`attempts_default`; without any comes `CREATE TABLE ... PARTITION OF`
(`LockParent`, `MakePartition`, or `AlreadyThere`), with some `Like`, `Move` and
`ATTACH PARTITION` (`LockParent`, `MakePartition` again). `run[j].made` and
`run[j].moved` are what the transaction has done and nobody else sees until
`CommitRun`; a refusal, a deadlock's victim and `Crash` lose all of it. A
submission is `Submit` (its `created_at`), `Route` (where Postgres sends the
row), `Insert` and `CommitAttempt`, apart, so that a partition can come in
between. The locks are those Postgres takes for these statements, as far as they
decide the order: on the default partition, of readers, of the `DELETE` and of
DDL; on `attempts`, that of DDL; and on the name of a table. `BreakDeadlock` is
Postgres's own. `Rest` is the day until the next tick.

### Feedback

A dispute is `CheckOpen`, then `OpenDispute`, and `Settle` is the operator's. A
review is `ReadReview`, `WriteReview` (the row's lock, or the unique index of
`user_id`, makes a second writer wait; who found no row and comes second fails),
then `CommitReview` or `AbortReview`; the row of the history goes with the
transaction. `before[r]` is a history variable: how many disputes had been
opened when `r` looked.

### SessionServing

`row`, `cache`, `building` are the `daily_sessions` row, its Redis copy and
the advisory lock of D-122. A submission that leaves something to do is
`Attempt`. The last one is `Finish`, which reads the row (`db.get` in
`_build_and_store_attempt`: nothing keeps an earlier instance of it alive, so it
asks the database) and finds it open, and `Close`, its `UPDATE` and commit, which
fails when a purge has taken the row in between; `adding` is the attempt that
waits for that commit. `DayIsFree` is the lock of D-104. `quiet` is a history variable: no request
was in flight when a pull began, none read the cache during one, and no two
pulls overlapped. `Samples` over-approximates the sampler: any
non-empty set of live exercises up to the session's size.

### EmailDelivery and EmailOnce

A sweep scans, then for each candidate claims, renders or reads the stored
payload, sends, records; each label of `pc` is a point between two commits or
the provider's answer. `Claimable` is the `WHERE` of `claim_period`, `Claim`
the statement and its commit. `Send` lets the provider accept and the sweep
hear of it (`sent`) or time out (`failed`); `Refuse` is a definite failure.
`Crash` and `Unhandled` leave the row `claimed`, which is terminal in the code.
The provider is external: `Accepts` collapses a key it remembers onto the
earlier message, refuses it with another payload, and forgets it after
`KEY_TTL`. `kind` is chosen once; the recap differs in `Due` and in `Skip`.

`SendsOnce` is the refinement: `inbox` implements `EmailOnce!received`, the
rows `sent` or `skipped` implement `EmailOnce!settled`, and every other step is
a stutter.

### DailyPractice

The build of a session is step by step what `build_session_slots` does: one
exercise per due concept, most overdue first (`PickDue`), the band of the level
(`PickFill`), the boss (`PickBoss`), and any exercise up to the floor
(`PickPad`); `Answer` is `update_concept_state` for every concept of the
exercise; `ComputeStats` is the percentile job's `difficulty_empirical`. Mastery and difficulty
are scaled integers (hundredths and thousandths), as the code quantizes them.

### GradingRetry

A run reads the pending attempts without a lock (`Start`), asks the grader about
one after the other, credits what it judged to `user_stats` (`Credit`) and
commits at the end (`Commit`), or dies (`Abort`). `job[j].rows` is the copy it
read. A submission reads, writes and commits the same counters meanwhile.
`credits` counts, per attempt, the times it was added to the statistics; `runs`
the committed runs that looked at it.

### EmailVerification

A request, a resend, a verification and a withdrawal are each a transaction of
up to six steps: the read of the account, or of the link and then of the account
(`LoadUser`), `Scan` (the outstanding links a
statement sees, `op[o].snap`), `Stamp` (which waits for links another
transaction has stamped), `Flush` (which waits for the account and meets the
unique index), `Commit`; `Fail` rolls back. `cooling` is the cooldown per
address. `links[i].after` is how often its account had withdrawn an address when
the link was issued.

### RefreshTokens

Server: `Read` (the check of the presented token; a spent one is refused with an
alarm, and its family stays), `Rotate` (the commit), `Revoke` (a logout revokes
the committed tokens of the family), `SetBeta` (access given or taken away).
Browser: one cookie `jar` shared by tabs, each with at most one refresh in
flight (`refreshInFlight` of `lib/api.ts`). Answers may be lost or arrive in any
order.

### JobTrigger and TokenBucket

`Claim`, `Skip` and `ClaimFails` are the three outcomes of the `SET NX` (a Redis
error lets the job run: the code fails open), `Release` the delete without an
owner, `LockExpires` the TTL; `Tick` and `RunOnce` the process's own loops,
which ask for no lock. `TokenBucket` splits a request into `Ask` (Redis `TIME`)
and `Run` (the script), so that requests overtake one another; `admitted` is the
set of those let in, each with its number and the instant it asked at, and
`regress` adds up how far the bucket's clock was set back.

### CandidateGates and PipelineBatch

A candidate is a record of facts a gate can establish: what its code does in
the sandbox, which lines its fix changes, what its author claimed. `Verdict` is
the chain static, sandbox, semantic, dedup, with the order of the checks and
what may be repaired; `Score`, `PTFChecks` and `ConfirmedBy` follow
`scoring.py`, `predict_the_fix.py` and `explain.py`. The models' answers are
inputs. `PipelineBatch` is one process at a time: `SampleSpec` (or `NextItem`
for `ingest.py`), `Generate`, `Evaluate`, `Repair`, `Publish`, `DerivePTF`,
`FinishSpec` with its commit, and `Crash` at any point; `tx` is what is flushed
and not committed. `Approve` and `Kill` are the reviewers, between any two of
these. `asked` records how each generator call of the spec came about, which is
what the budgets are about.

### ExerciseLifecycle

Every tool (`review_cli` approve, kill, pull, fix; `reshuffle_trace_choices`
with and without `--bump-live`; `ptf_ingest`; `backfill_stb_fixed_code`) is a
`Start`, which loads rows, and a `Commit`, which decides on what was loaded:
SQLAlchemy does not refresh a row its session holds, so that the second `SELECT`
of `update_exercise_fields` sees the first one's status. A column set to the
value that was read is not written (`WithStatus`): a kill of a version that was
read as retired, and approved meanwhile, leaves it live. `shown` is a history
variable: the content users were served, per version.

A fix is three steps: `Command` with `show`, where the operator looks at a
version and composes what to put behind `--field`; `Fix`, another process that
reads the version again; and `Commit`, where each of `payload`, `grading`,
`explanation` and `source` is the override or what `Fix` read (`Overridden`).
Nothing in the code compares the fields, so an override may disagree with what it
is combined with: because a shuffle came after the look, because the operator
gave one field only, or because the operator erred. `suspect` is a history
variable: the versions put together like that (`PutTogetherRight`), and their
bumps. Of an override the model supposes, in `OverridesAssumption`, that the
choices of a trace are the same texts in another order and that `source` does not
name a parent it did not name. The content of other types is one value.

## 3. Runs and bounds

| Run | Result | Question |
|---|---|---|
| `streak_home` | holds, 2.2 million states | all orders of six submits, idle days, repairs, two outage dates and the grant, for an account older than the freezes |
| `streak_travel` | holds, 0.2 million | does the last active day stay out of the future over one or two midnights? |
| `streak_tz` | violated | does a submit on the day after a counted one ever reset? |
| `attempts` | holds, 0.3 million | three requests, two keys, slow graders, one crash |
| `partitions` | holds, 0.04 million | two runs at once, one dies, a submission, two months the runs may miss: is every row in its place, and does a stray one get there? |
| `sessions` | holds, 0.4 million | three requests against the pulls of both exercises |
| `email` | holds, 0.5 million | two sweeps, two users, a retry, a failure, a change of mind |
| `email_retry` | violated | is a message delivered once, travel included? |
| `pipeline` | holds, 0.2 million | batches of up to two specs, crashes, reviewers between any two steps |
| `lifecycle` | holds, 1.5 million | two tools at a time over two exercises of three versions, with fixes that override any field |
| `services` | holds, 1.0 million | eight smaller parts, each on its own |
| `email_delete` | violated | does a withdrawn address stay withdrawn? |

**What the passing runs show.**

- *Streak.* `LedgerExplainsStreak` and `LedgerExplainsBalance`: replaying the
  rows in id order gives `user_stats`, and the balance never passes the cap.
  `GapsPaidExactlyOnce`: a streak crosses a gap only if every day in it has
  exactly one freeze row, written before. `RepairsAreCounterfactual`: repairs
  and freezes never give more than the days practised and the cap allow.
  `LastActiveNotAhead`: a move never leaves the last active day in the future.
  `LocksProtect`: as long as no transactions under different locks overlap,
  overlapping submits of a day and overlapping repairs leave row and ledger
  accounted for; and in every case a reset is repaired once.
- *Submission.* `AggregatesMatchAttempts`, `ReplaysAreIdentical`: what the lock
  and the record guarantee whatever becomes of reservations.
  `EveryRequestAnswered`. `SubmitsOnce`: the whole path implements the abstract
  `SubmitOnce`, so that there is one attempt per exercise.
- *Partitions.* `PartitionsAreSound` is three. `EveryAttemptHasItsPlace`: a committed attempt is in one table,
  that of its month or, only while the month has none, the default one.
  `NoMonthIsSkipped`: no gap, however long the job was down (D-69).
  `RefusedOnlyIfOvertaken`: a run fails only because another run or a
  submission to the default partition came in between, never for what it found.
  `StraysAreDrained`: the default partition empties.
- *Feedback.* `FeedbackIsSound` is two. `SecondDisputeOverlaps`: a second open dispute needs an overlap.
  `ReviewIsTheNewestOpinion`: the history has a row for each accepted review
  and no other, and the last is the review.
- *Session and practice.* `OneSessionPerDay`, `InsertNeverCollides`: D-122.
  `CompletedIsEarned`: only a fully attempted session is closed, and the
  submission that closes it fails only when a pull overlaps it.
  `QuietPullIsThorough`: a pull that nothing overlaps leaves no trace of the
  exercise. `EveryRequestEnds`. `PracticeIsSound`: no exercise twice, the floor is
  reached when it can be, what is out of the level's band only when all in it is
  used; due concepts first; no needless repeat; mastery counters match answers.
- *Grading.* `GradingSettlesOnce`: with one process running the job, an attempt
  is counted once when it is graded, and nothing stays pending for ever.
- *Email.* `PeriodHasOneSender`, `RetriesRepeatThePayload`, `SettledIsHonest`,
  `SendsOnce`: the guarantees of D-137 for a period whose retries stay inside
  the provider's window. `EveryoneDueIsReached`: the cap only defers.
  `AddressBelongsToItsProver`: an address is on one account, whose user opened a
  link sent to it.
- *Sign-in, jobs, limits.* `RefreshIsSound`: a token has two heirs only by
  overlap, a tab is alarmed only with a cause. `JobsAreGuarded`: triggered runs
  of a job overlap, and locks are left behind, only after a fault that explains
  it. `BucketIsSound`: the rate is bounded by the refill plus what a clock set
  back repeats; `Retry-After` suffices.
- *Pipeline.* `PublishedIsProven`: whatever was repaired how often, what is
  published passed every gate in its last form. `BatchIsBounded`: attempts and
  repair rounds stay in their budgets and no check is repaired twice in a
  lineage. `OnlyInFlightLost`: a crash costs the spec in flight. `NoTwins`: no
  two live or waiting exercises have the same code. `BatchFinishes`.
- *Lifecycle.* `WellKeyed`: through any shuffles, bumps and fixes by stale tools,
  the answer key and the notes stay with their texts, except in a version whose
  fields a fix put together amiss, and in its bumps.
  `ReviewQueueHoldsTheNewest`: nobody is asked to approve a superseded version.
  `ServedSaysTheSame`: what users were told of a choice of a version they were
  served (its text, whether it is the answer, the note on it) is never taken back
  under that version, though its choices may be put in another order.

**What no passing run catches.** The locks of the streak's transactions differ by
operation: `LocksProtect` says what each one protects and is silent once
transactions under different locks overlap, which is where updates are lost
(finding 12). `OneSessionPerDay` ends with the first pull and
`QuietPullIsThorough` with the first overlap: a cache written from a row read
before the pull is finding 5. `EveryoneDueIsReached` is checked with a batch large
enough for everyone: the starvation by the `LIMIT` is finding 8. In `services`,
three operations are too few for two accounts to promote one address: that
conjunct of `AddressBelongsToItsProver` rests on the theorem `AddressesAreProven`.

**Bounds.** Each is a constant, named in its module.

- Streak: six ticks of a one-tick day allow two gaps, a reset, a repair and a
  second reset; `FREEZE_MAX = 2`, `EARN_EVERY = 2`, `FREEZE_START = 1` make the
  cap, an empty balance and two milestones reachable within six submits. In
  travel, two zones a day and a half apart cross one midnight or two; the real
  extreme, 25 hours, crosses two. Outage dates are left out of travel to bound it.
- `RepairsAreCounterfactual` is checked at home only. A westward move over two
  dates makes the newest transition by local date differ from the newest by
  time, and `RunEnds` then undercounts.
- `StreakTransactions` begins with an account that has something to repair, one
  freeze and too long a gap, so that three transactions are enough for every
  branch. Its zones are a day apart; two keys of a repair give a replay and a
  rival.
- Attempts: two requests under one key and one under another is the least that
  has a winner, a waiter and an independent rival; one crash is enough to lose
  any one of them. `RepresentativeClients` picks one assignment of keys and
  bodies per orbit of the symmetric values; TLC's `SYMMETRY` is not used,
  because liveness is checked.
- Partitions: one month at first and two to come, so that one or two may be
  missed; `MAX_MONTHS_PER_RUN = 2` (the code's is 72) lets the cap bite. Two
  runs are a collision; one crash may hit either. There is one attempt, because
  liveness is checked; `PartitionsTwoAttempts.cfg`, to be run by hand, has two
  (0.24 million states, with `SYMMETRY`) for the invariant.
- Feedback: three requests are an open dispute, a second that overlaps it and a
  third that does not; or two first reviews and an update.
- Sessions: three requests give a builder, a waiter for the lock and a late
  reader of the cache; two exercises give a session that is partly done.
- Email: two users make order, cap and batch matter; two sweeps overlap; two
  attempts give one retry. `Zones = {0}` in `email`, where `Travel` changes
  nothing; travel is exercised in `email_retry`. A sweep never outlasts a clock
  unit (hours against a minute or two), so `Tick` waits for idle sweeps.
- Services: two actors of each kind that compete, and one more operation than
  actors, so that a third begins when two overlap. Three refresh tokens are a
  parent and two heirs. `MAX_RETRY_ATTEMPTS` is the code's 3. Five runs of a
  bucket of two empty it, refill it and refuse. Six exercises, one of two
  concepts and a pool that changes, make every branch of the sampler reachable.
  An absence of seven days ends with the interval after a right answer; one of three
  days is past the intervals after a skip and a wrong answer, inside the others. The
  window of what was seen lately (14 days) does not close within the bound. `SYMMETRY` is used for tabs, requests, keys, users and callers, those
  of different parts swapped together: no liveness is checked there.
- Pipeline: the candidates of `MCPipelineBatch` are one that passes, and for
  each kind of branch one that fails there: repairable, not repairable, two
  failures of which one is not, a duplicate. `MAX_ATTEMPTS_PER_SPEC = 3` and
  `MAX_REPAIR_ROUNDS = 2` let either budget run out first. Two specs give a
  second one that sees the first's pool, history and crash.
- Lifecycle: three versions allow a bump of a fix, or the reverse; three turns of
  an operator, two at a time, allow two tools to overlap and a third to meet what
  they left. The overrides are any of choices, key and notes of two layouts, a key
  that is no choice, the fixed code and the parent: the fields agree, or differ in
  one. The seeded permutation is a 3-cycle, which is not its own
  inverse: mistaking one for the other shows.

`CHECK_DEADLOCK FALSE` is set where the instance really stops: the clock, the
attempts or the specs are used up, or every request has ended.

**Fairness.** `AttemptSubmission` and `SessionServing`: weak fairness of each
request's own steps once it is taken in. The event loop resumes a coroutine
whose call has returned, and every call is bounded: the grader and the poll by
timeouts, the lock by its holder's commit. No fairness is given to new
requests, crashes or expiry. `AttemptPartitions`: weak fairness of each run, of
each submission once begun, and of Postgres's deadlock detector: the scheduler
ticks daily and at startup, statements end, and a lock's holder ends. That no
run is still under way when the next day's tick comes is a guard of `Rest`.
Crashes and months are not fair. `EmailDelivery`: weak fairness of each sweep: the
scheduler ticks for ever (`_job_loop` survives a failing run) and a sweep that
is not killed goes on. `Tick` and what users do are not fair. `PipelineBatch`:
weak fairness of the process's steps, which nothing outside it can disable;
every call of a model returns or raises (its client has a timeout and bounded
retries). Nobody has to start a batch, kill it, or review.

## 4. Where code and documents disagree

Three of the runs show one of these; the others have a `.cfg` of their own, to be
run by hand, named here in parentheses.

1. **A move can break a streak** (`streak_tz`). `src/docs/05-api-contract.md:91`:
   "Changing `timezone` never retroactively breaks a streak". Submit on day D,
   move west (`last_active` is pulled back to D-1 or before), move back, submit
   on D+1: a gap is seen where D was counted (`jobs/streak_recon.py:60`).
2. **The unique index is reached without concurrency**
   (`StreakIndexIsOnlyBackstop.cfg`, `MCStreakLedger`).
   `attempts/service.py:461` calls it the backstop underneath the lock. Submit
   on D, move west, submit when D comes again: the insert is refused and the
   submission fails.
3. **A racing retry can be refused** (`AttemptsRetryNeverConflicts.cfg`,
   `AttemptSubmission`). `attempts/service.py:334-336` says the loser "replays
   it byte-identically instead of racing it through to a DB-level conflict". The
   cache is not read again after the reservation is won.
4. **The same for a repair** (`StreakRaceRetryIsReplayed.cfg`,
   `StreakTransactions`). `src/docs/10-roadmap-retention.md:251` promises a
   byte-identical replay; the retry may be told 409.
5. **A purged session can come back to the cache**
   (`SessionsPurgedIsNotCached.cfg`, `SessionServing`).
   `sessions/service.py:224-225` excludes it by the order of the deletions; a
   reader that has its row already writes the cache afterwards.
6. **A completed session can be purged** (`SessionsCompletedSessionKept.cfg`,
   `SessionServing`). `sessions/service.py:250` deletes by key what line 244
   selected as not completed.
7. **The retry window slides** (`email_retry`). `config.py:130-131` and
   D-137(4) bound retries to 24 h because the provider forgets the key; the
   window is measured from the last claim (`email/deliveries.py:173,176`).
   Only a period that is stretched by westward travel is long enough.
8. **A full batch starves** (`EmailEveryoneDueIsReached.cfg`, `EmailDelivery`).
   `config.py:137-139` promises that the cap defers; the `LIMIT` of
   `jobs/reminders.py:65` (and `jobs/weekly_email.py:53`) is applied before
   anyone is filtered.
9. **A withdrawn address can come back** (`email_delete`). The docstring at
   `email/service.py:363-365` says there is no such window; a verification that
   read its link before the withdrawal commits does not look at it again.
10. **The retry job loses updates** (`GradingTotalsMatchGrades.cfg`,
    `GradingRetry`). D-67 (`src/docs/07-decisions.md:800-801`) has the totals protected by the lock of
    submissions, which the job does not take (`jobs/grading_retry.py:113`).
11. **A resolved attempt can be resolved again**
    (`GradingResolvedStaysResolved.cfg`, `GradingRetry`), when two processes run
    the job, against its docstring (lines 4-7 and 18-20).
12. **Transactions under different locks lose updates of the streak**
    (`StreakRaceAccounted.cfg`, `StreakTransactions`).
    `attempts/service.py:449-452` sees only same-day submits as the danger;
    submits of two days, a repair, a fill and a move write the same row.
13. **A live predecessor is not harmless** (`LifecyclePredecessorIsHarmless.cfg`,
    `MCExerciseLifecycle`). `src/pipeline/publish.py:450-452`; when the new
    version is pulled the old one, which it was to replace, is served again.
14. **Seen content can change** (`LifecycleSeenContentIsFrozen.cfg`,
    `MCExerciseLifecycle`). `exercises/service.py:21-22` and
    `src/docs/04-database.md:62`; the reshuffle edits versions that were live
    and have been pulled or retired.
15. **Two disputes can be open** (`FeedbackOneOpenDispute.cfg`, `Feedback`).
    `src/docs/05-api-contract.md:439` and `disputes/service.py:3`: "One open
    dispute per user per exercise version". The check and the insert are apart,
    and `idx_disputes_open` is not unique.

Met while modelling, visible in the definitions and asserted by no run:

- `DerivedIsUnique` of `PipelineBatch`: the comment at
  `src/pipeline/predict_the_fix.py:230-232` argues that a derived exercise is
  unique because its parent is; the pool forgets a parent that was retired while
  what was derived from it is live. Three specs are needed to see it.
- `AvoidsTheNewest` of `PipelineBatch`: the history of mechanisms is kept most
  recent first (`src/pipeline/publish.py:535-541`) and cut at the other end
  (`src/pipeline/spec_sampler.py:129`).
- `src/backend/scripts/reshuffle_trace_choices.py` says a second run lands the
  same layout (lines 16-18, 102-104): it applies the permutation again
  (`Shuffled`). Its `--bump-live`, run twice, meets the primary key and aborts
  (`Collides`).
- `src/pipeline/explain.py:52-60` records "confirmed zero defects" also for an
  audit that flagged one (`ConfirmedBy`).
- `EveryKeyIsRight` of `ExerciseLifecycle` (`LifecycleEveryKeyIsRight.cfg`,
  `MCExerciseLifecycle`, by hand): "the answer key can never drift apart from the
  shown options" (`src/pipeline/publish.py:138-139`) is said of the shuffle, and
  holds of it; `fix_and_bump` (lines 471-474) takes each field from the override
  or from the row, and compares nothing. A look, a shuffle and a fix of the key
  alone publish a trace for review with the answer at another text.
- A logout that races a refresh in flight leaves the browser signed in: the heir
  that is not yet committed is not revoked (`RefreshTokens`).
- The `finally` of `streak/router.py:105` deletes a reservation its request may
  not have made (`StreakTransactions!Refuse`, `Release`).

## 5. What is proved

For every value of the constants that satisfies the modules' assumptions:

| Theorem | States |
|---|---|
| *StreakLedger* | |
| `StreakTyping` | `Spec => []TypeOK`: the balance stays a natural number |
| `StreakLedgerIsAChain` | `Spec => []LedgerExplainsStreak` |
| `BalanceIsExplained` | `Spec => []LedgerExplainsBalance` |
| `LastActiveNeverAhead` | `Spec => []LastActiveNotAhead` |
| `GapsArePaidOnce` | `Spec => []GapsPaidExactlyOnce` |
| `RepairsRestoreTheRun` | with zones at most a day apart, `Spec => []RepairsAreCounterfactual` |
| `SettledUserKeepsStreak` | with one zone, `Spec => [](ResetOnlyAfterIdleDay /\ IndexIsOnlyBackstop)` |
| *AttemptSubmission* | |
| `SubmissionTyping` | `Spec => []TypeOK` |
| `SubmissionIsExclusive` | `Spec => [](OneAttemptPerExercise /\ AggregatesMatchAttempts)` |
| `AggregatesAreExact` | `Spec => []AggregatesMatchAttempts` |
| `SubmissionReplays` | `Spec => []ReplaysAreIdentical` |
| `SubmissionImplementsOnce` | `Spec => SubmitsOnce`: the refinement of `SubmitOnce` |
| *AttemptPartitions* | |
| `PartitionsAreTyped` | `P!Spec => []P!TypeOK` |
| `AttemptsHaveTheirPlace` | `P!Spec => []P!EveryAttemptHasItsPlace` |
| `MonthsAreNotSkipped` | `P!Spec => []P!NoMonthIsSkipped` |
| `RunsAreRefusedOnlyIfOvertaken` | `P!Spec => []P!RefusedOnlyIfOvertaken` |
| `PartitionsStaySound` | `P!Spec => []PartitionsAreSound`: the last three |
| *SessionServing* | |
| `ServingTyping` | `Spec => []TypeOK` |
| `BuildsAreSerial` | `Spec => []InsertNeverCollides` |
| `DayHasOneSession` | with an exercise to sample, `Spec => []OneSessionPerDay` |
| `ClosedWhenDone` | `Spec => []CompletedIsEarned` |
| `PullIsThorough` | `Spec => []QuietPullIsThorough` |
| *EmailDelivery* | |
| `DeliveryTypes` | `Spec => []TypeOK` |
| `OneSender` | `Spec => []PeriodHasOneSender` |
| `SamePayload` | `Spec => []RetriesRepeatThePayload` |
| `HonestLedger` | `Spec => []SettledIsHonest` |
| `SendsOnceWhileKeysLive` | with keys that outlive their period, `Spec => SendsOnce`: the refinement of `EmailOnce` |
| `DeliveredOnceWhileKeysLive` | likewise, `Spec => []DeliveredAtMostOnce` |
| *PipelineBatch* | |
| `SpendingIsBounded` | `Spec => []BatchIsBounded` |
| `OnlyProvenIsPublished` | `Spec => []PublishedIsProven` |
| `CodeIsListedOnce` | `Spec => []NoTwins` |
| `CrashCostsOneSpec` | `Spec => []OnlyInFlightLost` |
| *ExerciseLifecycle* | |
| `KeysStayRight` | `Spec => []WellKeyed` |
| `NewestIsReviewed` | `Spec => []ReviewQueueHoldsTheNewest` |
| `ServedStaysTold` | `Spec => []ServedSaysTheSame` |
| *MCServices, part by part* | |
| `PartsAsTheyAre` | `Spec` implies the specification of each part |
| `ServicesTyping` | with finitely many attempts, one process for the retry job and at least one try, `Spec => []TypeOK` |
| `SignInIsSound` | `R!Spec => []RefreshIsSound` (`RefreshTokens`) |
| `AddressesAreProven` | `V!Spec => []AddressBelongsToItsProver` (`EmailVerification`) |
| `OneProcessSettlesOnce` | with one process and at least one try, `G!Spec => []GradingSettlesOnce` (`GradingRetry`) |
| `LocksSerialize` | `S!Spec => []LocksProtect` (`StreakTransactions`) |
| `TriggerIsGuarded` | `J!Spec => []JobsAreGuarded` (`JobTrigger`) |
| `RateIsKept` | with scripts late by no more than the window, `B!Spec => []BucketIsSound` (`TokenBucket`) |
| `PracticeHolds` | `P!Spec => []PracticeIsSound` (`DailyPractice`) |
| `DisputesOverlap` | `D!Spec => []D!SecondDisputeOverlaps` (`Feedback`) |
| `ReviewsAreTheNewest` | `D!Spec => []D!ReviewIsTheNewestOpinion` (`Feedback`) |
| `FeedbackStaysSound` | `Spec => []FeedbackIsSound`: both, of the whole |
| `PracticeIsTyped`, `StreakIsTyped`, `GradingIsTyped`, ... | the part's own `TypeOK` |

`PartsAsTheyAre` carries the theorem of a part over to `MCServices`, whose steps
are each a step of one part. The theorems of the parts are in
`MCServices_proofs`, those of `DailyPractice` in `DailyPractice_proofs`; those of
`AttemptPartitions` (`P` of `MCAttemptPartitions`) with those of the submission,
in `AttemptSubmission_proofs`; those of the other modules in the `*_proofs` module
of the same name.

The arguments:

- *Streak.* `TypeOK` is inductive; the balance is natural because a gap is paid
  for only when its uncovered days are at most the balance (`GapIsPayable`).
  The chain is inductive with `TypeOK`. The step that pays for a gap adds
  several rows at once: `RanksAreDense` shows that ranking a finite set of dates
  numbers them without gaps, and `ChainOverGap` that the block of rows
  prolongs the chain. `LastActiveNotAhead` needs that integer division is
  monotone (`DivisionIsMonotone`): time and zone reconciliation then keep the
  date order. For one zone `SettledInv` adds that no transition is dated after
  `last_active`, so that a gap of the code is a gap of days: without this
  conjunct neither property is inductive, and findings 1 and 2 are exactly its
  failure under a move.
- *Submission.* `TypeOK` needs `StoredIsAnswered` (a request that stores has a
  response). `SubmissionInv` adds `Exclusion`: a request between check and
  commit holds the advisory lock, and what it read is still the committed
  state. `Commit` therefore adds to the current state. Replays rest on
  `OneResponsePerAttempt`: a success, held by a request or by a record, names a
  committed attempt of the exercise in its body and is the only response that
  names it. Two successes for one body name attempts of one exercise, hence one
  attempt, hence are one response. Nothing about reservations is
  used, which is the claim of `attempts/service.py:362-366`.
- *Submission refined.* The mapping reads the answer of an exercise off its
  maker: the request that wrote the attempt. It therefore needs `OnceInv`: the
  maker of an attempt keeps the response the attempt earned
  (`MakersAreAnswered`), or has died with it, and whoever has a success has the
  maker's (from `OneResponsePerAttempt`). A commit under the lock is then one
  abstract `Submit` (`CommitSubmits`), an answer with a success a `Tell`
  (`OneRequestMoves`), and everything else leaves the mapped state
  (`NoCommitTells`).
- *Partitions.* `PartitionsInv` says of a run under way what its transaction
  would commit. `FoundStill`: the partitions it found are an interval that is
  still there. `Walks`: a month it is through with has a partition, committed or
  of its own. `Seals`: once it has made a partition it excludes everyone from
  the default one, so that no row of a month it is through with can come there,
  and none is being inserted. `Moves`, `Drains`: what it moved is in the default
  partition still, as others see it, and goes to the table of its month. So a
  commit (`CommitRunStep`) turns an interval into an interval and takes each row
  to one place. No two runs have made a table of one month, and an exclusive lock
  leaves nobody else one: without these two conjuncts, two commits could overlap.
  `Seals` is what the property lacks: by itself it allows a row to arrive
  between drain and attach.
- *Feedback.* What a request looked at before it disputes is settled for good
  (`SettledBefore`), and nobody looks twice (`LookedFirst`).
- *Gaps, repairs, balance.* `GapsInv` adds to the chain that no day is covered
  twice and that the newest transition is the last one, so that the days a
  counted day pays for are the gap before it. `RepairInv` bounds what a streak
  can be by the days that were worked for it (`WorkedFor`), and keeps the order
  of the transitions the same by id, by date and by instant (`InOrder`): that is
  what makes the newest reset by date, which the SQL picks, the one the user
  lost. It needs `OneDayApart`. Real offsets reach 26 hours, and with zones more
  than a day apart the property is false: a westward move over two dates, a
  submission and a repair undercount the run. `BalanceInv` states the replay of
  the ledger by an explicit function on ids; that there is only one such function
  (`ReplayIsUnique`) is shown by its least counterexample.
- *Session.* `LockHeld` (who builds or inserts holds the lock) makes
  `InsertNeverCollides` inductive. `DayInv` adds that before any pull all
  exercises are live, so that the empty build cannot happen. `QuietInv` is
  about behaviours that nothing has disturbed yet: pulls come one at a time, what
  a pull has found is what there is, and copies agree with the row
  (`CopiesAgree`); a request that arrives during a pull ends it (`QuietIsLost`).
  `EarnedInv` adds that who is closing the session has seen every other slot
  attempted (`ClosingIsLast`): the row it closes is, by `CopiesAgree`, the one
  whose slots it counted.
- *Email.* `IInv` is `TypeOK` with `Ledger`: the sweep that has claimed is the one
  the row names, its payload is the stored one from the moment it is rendered,
  and what the provider has accepted is what was stored. For the refinement,
  `UsedInItsPeriod` says that a key was first used on a date of its period, in
  some zone; with `KeyOutlivesPeriod` (a day and the widest difference of offsets
  are within `KEY_TTL`) the provider still remembers it when it is used again.
  With one zone this is the program's configuration, 24 hours both; with two it
  is what finding 7 lacks.
- *Addresses.* The property is about what a commit wrote; the request that
  commits has read earlier. The invariant therefore keeps, for every
  verification under way, that the link it holds is one of its own account and
  for the address it is about to write (`OfItsLink`), and that two promotions of
  one address cannot both be past the unique index (`Room`, `Alone`). A link is
  consumed by the same commit that writes the address and is never changed
  again, so the evidence stays.
- *Grading retry.* With one process, every row a run holds is still the
  committed one (`FreshRows`): submissions touch the statistics and not pending
  attempts. `LookedAt` ties what the run has done so far to what the commit will
  make of it, and `RetriesAreRuns` makes the counter of retries the number of
  committed runs, so that the limit bounds the wait. `CountedExactlyOnce` alone
  is not inductive: nothing in it says that a run's row is not out of date, and
  with two processes it is (finding 11).
- *Job trigger.* The property speaks of jobs without a fault. Inductive with it
  are `UnlockedAfterOutage` (a run without a lock had a Redis error) and
  `RunnersHoldTheLock` (without an outage or an overrun, who runs has the lock
  set): a second `SET NX` then fails.
- *Sign-in.* A refresh checks its token without a lock. In `SignInInv`, who has
  passed the check read before any heir existed, so that two heirs are an overlap
  and nothing worse; and an heir is in the jar before its tab asks again, or is
  lost, so that no tab alarms itself (`Knowledge`, `JarIsNewest`,
  `NoRaceWithItself`).
- *Locks.* In `LedgerInv`, as long as nothing has crossed, all who are exposed
  are of one family (`OneFamily`), and of one family one at most is in a
  transaction (`Apart`): so whoever has read still sees the committed row, and
  what it is about to write already continues the ledger (`SteadyOp`). A commit
  finds nobody it could disturb (`CommitsAlone`). The rows of one flush are
  numbered in the order they are added, which `NumberedIsChain` turns into a
  chain from the streak that was read to the one that is written
  (`SubmitRows`). `RepairedOnce` needs none of this: between finding a reset and
  committing, a repair is alone under its lock (`ItsRepair`), and every key that
  is told of a success has a repair of its own (`EachHasItsRepair`, which
  counts).
- *Types of the services.* Each part's `TypeOK` is strengthened where it is not
  inductive. The one with something to say is the streak's (`StreakIsTyped`):
  transactions under different locks may overlap and lose a freeze, but the
  balance stays a natural number. `Values` keeps, of whatever a transaction is
  about to write, that it is in range by itself; a commit writes the columns that
  differ from what was seen, so that a column is always some transaction's value
  and never the sum of two. The rest are the shape of what is in flight.
- *Rate.* The bucket's clock can be set back by whoever asked first and runs
  last. Adding what it was set back (`regress`), it only goes forward; and on that
  clock the bucket has paid for all it let in (`Paid`), for every stretch of time.
  `MAX_DELAY <= WINDOW` is needed: TLC shows that a script that runs after the bucket
  has expired starts a full one at the instant it asked at, before the old one's end.
- *Practice.* `SessionInv` keeps, phase by phase of the build, what the finished
  session promises: nothing out of band or needlessly repeated before all that is
  in band is taken, due concepts most overdue first. `Known` counts answers.
- *Pipeline.* `Inv0` is the shape of the state: what is flushed in which phase and
  how many specs may still be drawn. To it come `Spend` (what was asked for the
  lineage in hand), `Earned` with `AllProven` (what survivors and rows went
  through), `Distinct` (what the dedup pool knows) and `Ledger` (what the report
  counts, against the rows of the run). The table is read together with the rows
  flushed, which makes a commit invisible: `TableSteps` lists the only ways in
  which `rows \o tx` changes.
- *Lifecycle.* A tool writes what it read some time ago, so `LifecycleInv` is about
  what tools hold (`TasksSound`) as much as about the table (`TableSound`): what was
  read still tells of every choice what the row does, and the row has not come back
  into review. A shuffle permutes positions and so tells the same
  (`ShuffledSaysTheSame`), whether a trace is rightly keyed is in what it tells
  (`RightIsTold`), and an edit of a row that was there is always of this kind
  (`EditsAreLawful`); so no edit needs the reader to have seen the latest layout.
  `WellKeyed` alone is not inductive: it says nothing of what tools hold.

Assumptions are named where the constants are declared, and TLC evaluates them
in the runs: `ConfigAssumption` and `TimeAssumption` of `StreakLedger`,
`RequestAssumption` and `SentinelAssumption` of `AttemptSubmission`,
`ServingAssumption`, `DeliveryAssumption` and `SentinelAssumption` of
`EmailDelivery`, `PipelineAssumption`, `LifecycleAssumption`,
`OverridesAssumption` and `SentinelAssumption` of `ExerciseLifecycle`; `PartitionsAssumption` of
`MCAttemptPartitions` (the schema's partitions are an interval, the cap is
positive); and `PracticeAssumption`, `LimiterAssumption` and `StreakAssumption`
(with `FREEZE_MAX` positive, `config.py:93`) of `MCServices`. Sentinel assumptions
say that the value for "none" is not one of the values it stands apart from. What
a theorem assumes beyond these is in its statement:

- `SettledUserKeepsStreak`: one zone. `RepairsRestoreTheRun`: `OneDayApart`.
- `DayHasOneSession`: there is an exercise.
- `SendsOnceWhileKeysLive`, `DeliveredOnceWhileKeysLive`: `KeyOutlivesPeriod`.
- `OneProcessSettlesOnce`: one process runs the job, and
  `MAX_RETRY_ATTEMPTS` is positive (the code's is 3).
- `TriggerIsGuarded`: `None` is not a job.
- `ServicesTyping`: the same three, and that the attempts are finitely many.
- `RateIsKept`: `MAX_DELAY <= WINDOW`. The windows are a minute or more; a
  request asks Redis for the time and runs the script in the next call.

**Model-checked only.** Everything under fairness (`EveryRequestAnswered`,
`EveryRequestEnds`, `EveryoneDueIsReached`, `BatchFinishes`, `StraysAreDrained`):
TLAPS here reasons about neither `ENABLED` nor fairness. Every invariant and both refinements that a passing run checks are theorems.
The type invariants of `AttemptSubmission`, `SessionServing` and `EmailDelivery`,
and `OneAttemptPerExercise`, are theorems too (`SubmissionTyping`,
`ServingTyping`, `DeliveryTypes`, `SubmissionIsExclusive`), which is why no run
repeats them.

The induction theorems of the library take an operator as a parameter, which none
of the provers instantiates. Where a proof does need induction over numbers
(`LeastNat`, `ReplayIsUnique`, the newest row), it takes the least counterexample,
which the well-foundedness of the natural numbers gives.

## 6. What is not modelled

- In `StreakTransactions`, `longest_streak` (a maximum written along with the
  streak) and the initial grant, which is a single statement run once; both are
  in `StreakLedger`. Its days are whole: `StreakLedger` has finer zones.
- In `AttemptSubmission`, the day does not change during a behaviour, nor do the
  session's slots (`SessionServing` lets them). What a submission writes about
  mastery and statistics is in `DailyPractice` and `GradingRetry`. The
  percentile in the answer is not modelled.
- The record's expiry after 24 h, the session cache's after 36 h: neither falls
  inside a modelled day.
- The healing of an empty session row from before D-59, the branch after an
  `IntegrityError` in the build (proved unreachable), the teaser and the review
  payload.
- `DisabledEmailSender`: a deploy that does not send. Bounces and complaints are
  the action `Suppress`. The `to` of a stored payload, which a retry keeps though
  the address has changed: `EmailDelivery` has one address per user.
- Floating point: the bucket's tokens and `solve_rate` are exact or rounded
  integers.
- The grader's health (a counter in Redis that switches summarize exercises off,
  which are off by configuration), the percentile histogram, entitlements and
  usage: single statements.
- Of Postgres, what `AttemptPartitions` and `Feedback` need of its locks and no
  more: which statements exclude one another, not the queue in which they wait. A
  partition that an operator detaches or makes by hand is left out.
- Of the pipeline: prompts, the parsing of replies, retries inside the client of
  a model, the isolation of the sandbox, and the concepts a candidate lists
  besides the one it was asked for. Of the tools: what is displayed, backups,
  seeding; overrides of a fix that bring in texts of their own, or a parent.
- OAuth, JWTs and the signatures of unsubscribe links: external protocols and
  stateless conversions. The client's pages.

`PROJECT.json` lists every component with its status.

## 7. Plan

Everything of the first plan is modelled, and every safety property that a
passing run checks is proved.

To model, if the code grows there: two batches of the pipeline at once, which
nothing in the code excludes; the sweeps over addresses that change
(`EmailDelivery` composed with `EmailVerification`); users on several browsers.
