----------------------------- MODULE MCServices ------------------------------
(***************************************************************************)
(* Eight parts of the backend, side by side: sign-in, the verified         *)
(* address, the grading retry, the streak's transactions, the job trigger, *)
(* the rate limiter, the daily practice and a user's feedback.  A          *)
(* behaviour is one of one part, the others staying as they begin, so the  *)
(* states are the sum of the eight and not their product.                  *)
(***************************************************************************)
EXTENDS Integers, FiniteSets, TLC

CONSTANTS
    None,
    Tabs, MaxTokens, MaxRequests,
    Users, Addresses, Requests, MaxBegun,
    Attempts, Jobs, MAX_RETRY_ATTEMPTS, MaxSubmits, MaxAborts,
    Keys, FREEZE_MAX, EARN_EVERY, REPAIR_WINDOW, Zones, FillDates, MaxClock, MaxTransactions,
    Triggers, Triggerable, Loops, AtStartup, MaxCalls, MaxStarts,
    Callers, LIMIT, WINDOW, MAX_DELAY, MaxTime, MaxRuns,
    Difficulty, Covers, Pools, MAX_NON_BOSS_SLOTS, MIN_SLOTS, MIN_EMPIRICAL_N,
    Absences, MaxDay, MaxAnswers, MaxLevels,
    Senders, Ratings

(* sessions/sampler.py: MIN_SLOTS is 3 and MAX_NON_BOSS_SLOTS 4. None is no *)
(* exercise and no row of user_concept_state.                               *)
ASSUME PracticeAssumption ==
    /\ MIN_SLOTS \in Nat /\ MAX_NON_BOSS_SLOTS \in Nat /\ MIN_SLOTS <= MAX_NON_BOSS_SLOTS
    /\ \A x \in DOMAIN Difficulty : Difficulty[x] \in Int
    /\ \A pool \in Pools : pool \subseteq DOMAIN Difficulty /\ IsFiniteSet(pool)
    /\ Absences \subseteq Int
    /\ None \notin DOMAIN Difficulty
    /\ None \notin [mastery : 0 .. 1000, attempts : Nat, correct : Nat, declined : Nat,
                    due : Int, seen : Int]

(* core/ratelimit.py: a limit and a window are positive numbers. None is no *)
(* time, no bucket and no advice.                                           *)
ASSUME LimiterAssumption ==
    /\ LIMIT \in Nat \ {0} /\ WINDOW \in Nat \ {0} /\ MAX_DELAY \in Nat
    /\ None \notin Int
    /\ None \notin [tokens : Int, ts : Int, until : Int] /\ None \notin [at : Int, after : Int]

(* users/service.py, streak/service.py: dates and timezone offsets are      *)
(* counted in days; config.py: STREAK_FREEZE_MAX is 2, and the account of   *)
(* Init has one freeze.                                                     *)
ASSUME StreakAssumption ==
    Zones \subseteq Int /\ FillDates \subseteq Int /\ FREEZE_MAX \in Nat \ {0}

VARIABLES
    tokens, beta, jar, status, flight, reqs,
    account, links, cooling, op, begun,
    attempt, stats, job, submit, submitted, credits, aborts,
    clock, zone, row, events, next_id, transaction, begunTx, reserved, cached, told,
    committed, crossed,
    lock, call, calls, loop, starts, outages, overruns, deaths,
    time, bucket, asked, runs, admitted, regress, advice,
    day, level, live, ratings, concept, answered, phase, todo, slots, boss, levels,
    disputes, review, opinions, writer, letters, looked

signIn == <<tokens, beta, jar, status, flight, reqs>>
address == <<account, links, cooling, op, begun>>
grading == <<attempt, stats, job, submit, submitted, credits, aborts>>
streak == <<clock, zone, row, events, next_id, transaction, begunTx, reserved, cached,
            told, committed, crossed>>
trigger == <<lock, call, calls, loop, starts, outages, overruns, deaths>>
limiter == <<time, bucket, asked, runs, admitted, regress, advice>>
practice == <<day, level, live, ratings, concept, answered, phase, todo, slots, boss, levels>>
feedback == <<disputes, review, opinions, writer, letters, looked>>

R == INSTANCE RefreshTokens
V == INSTANCE EmailVerification
G == INSTANCE GradingRetry
S == INSTANCE StreakTransactions WITH
         MaxBegun <- MaxTransactions,
         op <- transaction, begun <- begunTx, submitted <- committed
J == INSTANCE JobTrigger WITH Jobs <- Triggerable
B == INSTANCE TokenBucket

P == INSTANCE DailyPractice WITH stats <- ratings, attempts <- answered

D == INSTANCE Feedback WITH
         Requests <- Senders,
         history <- opinions, lock <- writer, req <- letters, before <- looked

(* Six exercises of three concepts, one of two at once, from very easy to *)
(* hard: for each level some in band, some out of it, one for a boss.     *)
MCDifficulty == <<2, 4, 5, 7, 8, 1>>
MCCovers == <<{"c1"}, {"c1", "c2"}, {"c2"}, {"c3"}, {"c1"}, {"c3"}>>
MCZones == {0, -1}

Init ==
    /\ R!Init /\ V!Init /\ G!Init /\ S!Init /\ J!Init /\ B!Init /\ D!Init
    /\ P!Init /\ live = {1, 2, 3, 4, 5}

Next ==
    \/ /\ V!Init /\ G!Init /\ S!Init /\ J!Init /\ B!Init /\ P!Init /\ D!Init
       /\ R!Next /\ UNCHANGED <<address, grading, streak, trigger, limiter, practice, feedback>>
    \/ /\ R!Init /\ G!Init /\ S!Init /\ J!Init /\ B!Init /\ P!Init /\ D!Init
       /\ V!Next /\ UNCHANGED <<signIn, grading, streak, trigger, limiter, practice, feedback>>
    \/ /\ R!Init /\ V!Init /\ S!Init /\ J!Init /\ B!Init /\ P!Init /\ D!Init
       /\ G!Next /\ UNCHANGED <<signIn, address, streak, trigger, limiter, practice, feedback>>
    \/ /\ R!Init /\ V!Init /\ G!Init /\ J!Init /\ B!Init /\ P!Init /\ D!Init
       /\ S!Next /\ UNCHANGED <<signIn, address, grading, trigger, limiter, practice, feedback>>
    \/ /\ R!Init /\ V!Init /\ G!Init /\ S!Init /\ B!Init /\ P!Init /\ D!Init
       /\ J!Next /\ UNCHANGED <<signIn, address, grading, streak, limiter, practice, feedback>>
    \/ /\ R!Init /\ V!Init /\ G!Init /\ S!Init /\ J!Init /\ P!Init /\ D!Init
       /\ B!Next /\ UNCHANGED <<signIn, address, grading, streak, trigger, practice, feedback>>
    \/ /\ R!Init /\ V!Init /\ G!Init /\ S!Init /\ J!Init /\ B!Init /\ D!Init
       /\ P!Next /\ UNCHANGED <<signIn, address, grading, streak, trigger, limiter, feedback>>
    \/ /\ R!Init /\ V!Init /\ G!Init /\ S!Init /\ J!Init /\ B!Init /\ P!Init
       /\ D!Next /\ UNCHANGED <<signIn, address, grading, streak, trigger, limiter, practice>>

vars == <<signIn, address, grading, streak, trigger, limiter, practice, feedback>>

Spec == Init /\ [][Next]_vars

(* Two tabs, two requests, two keys ... are alike. Only one part moves in a *)
(* behaviour, so that sets of different parts are permuted together: each   *)
(* pair is swapped, or none.                                                *)
Alike(pairs) ==
    {f \in Permutations(UNION pairs) :
        /\ \A p \in pairs : {f[x] : x \in p} = p
        /\ \A x, y \in UNION pairs : f[x] = x <=> f[y] = y}

Symmetry == Alike({Tabs, Requests, Triggers, Callers}) \cup Alike({Keys, Users})

(* The shape of each part's state. *)
TypeOK ==
    R!TypeOK /\ V!TypeOK /\ G!TypeOK /\ S!TypeOK /\ J!TypeOK /\ B!TypeOK
    /\ P!TypeOK

(* The properties of the parts, under names a .cfg can write. *)
RefreshIsSound == R!RefreshIsSound
AddressBelongsToItsProver == V!AddressBelongsToItsProver
GradingSettlesOnce == G!GradingSettlesOnce
LocksProtect == S!LocksProtect
JobsAreGuarded == J!JobsAreGuarded
BucketIsSound == B!BucketIsSound
PracticeIsSound == P!PracticeIsSound
FeedbackIsSound == D!FeedbackIsSound
=============================================================================
