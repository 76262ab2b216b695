---------------------------- MODULE DailyPractice ----------------------------
(***************************************************************************)
(* One user's practice from day to day: the sampler picks a session out of *)
(* the live exercises and of what the user is due to review; the answers   *)
(* say what is due next, and how hard an exercise turned out to be.        *)
(*   sessions/sampler.py       build_session_slots                         *)
(*   attempts/service.py       update_concept_state                        *)
(*   jobs/percentiles.py       difficulty_empirical                        *)
(* SessionServing has the requests and the locks around a build, which is  *)
(* undisturbed here; summarize exercises are off (SUMMARIZE_ENABLED).      *)
(* Difficulties are in hundredths, mastery in thousandths, time in days:   *)
(* among what is due on one day the order is left open, as it is between   *)
(* rows that a query without ORDER BY returns and elements of a set.       *)
(* A definition marked "Fault" is a plausible mistake in the one after it. *)
(***************************************************************************)
EXTENDS Integers, Sequences, FiniteSets, FiniteSetsExt

CONSTANTS
    Difficulty,          \* difficulty_authored of each exercise
    Covers,              \* the concepts of each exercise
    Pools,               \* sets of exercises that may be live on a day
    MAX_NON_BOSS_SLOTS, MIN_SLOTS,
    MIN_EMPIRICAL_N,     \* graded attempts that outweigh the author
    None,
    Absences,            \* days a user may let pass between two sessions
    MaxDay, MaxAnswers, MaxLevels    \* bounds

VARIABLES
    day, level,
    live,          \* exercises_current
    stats,         \* exercise_stats and difficulty_empirical
    concept,       \* user_concept_state
    attempts,      \* the user's
    phase,         \* where the build of the day's session is
    todo,          \* due concepts the build has not come to
    slots, boss,   \* what it has picked, in order, and the boss
    levels         \* changes of level

vars == <<day, level, live, stats, concept, attempts, phase, todo, slots, boss, levels>>
build == <<phase, todo, slots, boss>>
learned == <<concept, attempts>>

Exercises == DOMAIN Difficulty
Concepts == UNION {Covers[x] : x \in Exercises}

-----------------------------------------------------------------------------
(* What the sampler reads. *)
LEVEL_DIFFICULTY == [junior |-> 300, mid |-> 500, senior |-> 700]
LEVEL_BANDS == [junior |-> <<100, 500>>, mid |-> <<300, 800>>, senior |-> <<500, 1000>>]
BOSS_BAND_MARGIN == 200
BOSS_DIFFICULTY_FLOOR == 700
RECENTLY_SEEN_WINDOW_DAYS == 14

Target == LEVEL_DIFFICULTY[level]
Low == LEVEL_BANDS[level][1]
High == LEVEL_BANDS[level][2]

\* fetch_candidates: the measured difficulty once enough attempts back it.
Effective(x) ==
    IF stats[x].empirical # None /\ stats[x].n >= MIN_EMPIRICAL_N
    THEN stats[x].empirical ELSE Difficulty[x] * 100

InBand(x) == Low <= Effective(x) /\ Effective(x) <= High

DueConcepts == {c \in Concepts : concept[c] # None /\ concept[c].due <= day}

RecentlySeen == {a.exercise : a \in {b \in attempts : b.day >= day - RECENTLY_SEEN_WINDOW_DAYS}}

Elements(s) == {s[i] : i \in DOMAIN s}
Used == Elements(slots) \cup ({boss} \ {None})

Distance(x, target) == Max({Effective(x) - target, target - Effective(x)})

Closest(pool, target) ==
    {x \in pool : \A y \in pool : Distance(x, target) <= Distance(y, target)}

\* Fault: an exercise seen lately is as good as another.
PicksStale(pool, target) == Closest(pool \ Used, target)

\* pick: unused, not seen lately if there is such a one, closest to the target.
Picks(pool, target) ==
    LET available == pool \ Used
        fresh     == available \ RecentlySeen
    IN  Closest(IF fresh # {} THEN fresh ELSE available, target)

Goto(label) == phase' = label

-----------------------------------------------------------------------------
(* build_session_slots. *)
StartBuild ==
    /\ phase = "none" /\ live # {}
    /\ Goto("due")
    /\ todo' = DueConcepts
    /\ UNCHANGED <<day, level, live, stats, learned, slots, boss, levels>>

\* Fault: the due concepts come in any order.
MostOverdueOrNot == todo

MostOverdue == {c \in todo : \A d \in todo : concept[c].due <= concept[d].due}

Append_(x) == slots' = Append(slots, x)

\* A due concept without an exercise in band is passed over.
PickDue ==
    /\ phase = "due" /\ todo # {} /\ Len(slots) < MAX_NON_BOSS_SLOTS
    /\ \E c \in MostOverdue :
          LET picks == Picks({x \in live : c \in Covers[x] /\ InBand(x)}, Target) IN
          /\ todo' = todo \ {c}
          /\ IF picks = {} THEN UNCHANGED slots ELSE \E x \in picks : Append_(x)
    /\ UNCHANGED <<day, level, live, stats, learned, phase, boss, levels>>

DueDone ==
    /\ phase = "due"
    /\ todo = {} \/ Len(slots) = MAX_NON_BOSS_SLOTS
    /\ todo' = {}
    /\ Goto("fill")
    /\ UNCHANGED <<day, level, live, stats, learned, slots, boss, levels>>

\* Fault: the band is for due concepts only.
BandedAny == live \ Used

Banded == {x \in live \ Used : InBand(x)}

Mastery(c) == IF concept[c] = None THEN 0 ELSE concept[c].mastery

Weakest(concepts) == {c \in concepts : \A d \in concepts : Mastery(c) <= Mastery(d)}

\* Curriculum fill: the weakest concept of the exercises left in band.
PickFill ==
    /\ phase = "fill" /\ Len(slots) < MAX_NON_BOSS_SLOTS
    /\ \E c \in Weakest(UNION {Covers[x] : x \in Banded}) :
          \E x \in Picks({y \in Banded : c \in Covers[y]}, Target) : Append_(x)
    /\ UNCHANGED <<day, level, live, stats, learned, phase, todo, boss, levels>>

FillDone ==
    /\ phase = "fill"
    /\ Banded = {} \/ Len(slots) = MAX_NON_BOSS_SLOTS
    /\ Goto("boss")
    /\ UNCHANGED <<day, level, live, stats, learned, todo, slots, boss, levels>>

BossMax == Min({1000, High + BOSS_BAND_MARGIN})
BossTarget == Min({BossMax, Max({BOSS_DIFFICULTY_FLOOR, Target + 200})})
Eligible == {x \in live \ Used : Low <= Effective(x) /\ Effective(x) <= BossMax}

\* The hardest, and hard enough if there is one; outside the window only to
\* bring the session to the floor.
Bosses ==
    LET hardEnough == {x \in Eligible : Effective(x) >= BossTarget} IN
    IF hardEnough # {} THEN Picks(hardEnough, BossMax)
    ELSE IF Eligible # {} THEN Picks(Eligible, BossMax)
    ELSE IF Len(slots) < MIN_SLOTS THEN Picks(live, BossMax)
    ELSE {}

PickBoss ==
    /\ phase = "boss"
    /\ IF Bosses = {} THEN UNCHANGED boss ELSE boss' \in Bosses
    /\ Goto("pad")
    /\ UNCHANGED <<day, level, live, stats, learned, todo, slots, levels>>

Length == Len(slots) + (IF boss = None THEN 0 ELSE 1)

\* Fault: the boss is not counted towards the floor.
WantsPadUncounted == Len(slots) < MIN_SLOTS /\ live \ Used # {}

WantsPad == Length < MIN_SLOTS /\ live \ Used # {}

PickPad ==
    /\ phase = "pad" /\ WantsPad
    /\ \E x \in Picks(live, Target) : Append_(x)
    /\ UNCHANGED <<day, level, live, stats, learned, phase, todo, boss, levels>>

PadDone ==
    /\ phase = "pad" /\ ~WantsPad
    /\ Goto("built")
    /\ UNCHANGED <<day, level, live, stats, learned, todo, slots, boss, levels>>

Serve ==
    /\ phase = "built"
    /\ Goto("served")
    /\ UNCHANGED <<day, level, live, stats, learned, todo, slots, boss, levels>>

-----------------------------------------------------------------------------
(* An answer to a slot, and update_concept_state. *)
CONCEPT_INTERVAL_SKIPPED_DAYS == 1
CONCEPT_INTERVAL_WRONG_DAYS == 2
CONCEPT_INTERVAL_RIGHT_DAYS == 7
CONCEPT_INTERVAL_RIGHT_AGAIN_DAYS == 21

\* quantize, half to even
Quantize(a, b) ==
    LET q == a \div b
        r == a % b
    IN  IF 2 * r < b \/ (2 * r = b /\ q % 2 = 0) THEN q ELSE q + 1

NewState == [mastery |-> 0, attempts |-> 0, correct |-> 0, declined |-> 0, due |-> None, seen |-> None]

\* Fault: a skip is an attempt.
PractisedCountingSkips(s, outcome) ==
    [s EXCEPT !.attempts = @ + 1, !.correct = IF outcome = "correct" THEN @ + 1 ELSE @,
              !.due = day + 1, !.seen = day]

Practised(s, outcome) ==
    LET seen == [s EXCEPT !.seen = day] IN
    CASE outcome = "skipped" ->
            [seen EXCEPT !.declined = @ + 1,
                         !.mastery = Quantize(@ * 85, 100),
                         !.due = day + CONCEPT_INTERVAL_SKIPPED_DAYS]
      [] outcome = "incorrect" ->
            [seen EXCEPT !.attempts = @ + 1,
                         !.mastery = Quantize(@ * 7, 10),
                         !.due = day + CONCEPT_INTERVAL_WRONG_DAYS]
      [] outcome = "correct" ->
            [seen EXCEPT !.attempts = @ + 1, !.correct = @ + 1,
                         !.mastery = Quantize(@ * 7 + 3000, 10),
                         !.due = day + IF s.correct > 0 THEN CONCEPT_INTERVAL_RIGHT_AGAIN_DAYS
                                                        ELSE CONCEPT_INTERVAL_RIGHT_DAYS]

\* One answer to an exercise a day (AttemptSubmission).
Answer(x, outcome) ==
    /\ phase = "served" /\ x \in Used
    /\ \A a \in attempts : a.exercise = x => a.day # day
    /\ Cardinality(attempts) < MaxAnswers
    /\ attempts' = attempts \cup {[exercise |-> x, day |-> day, outcome |-> outcome]}
    /\ concept' = [c \in Concepts |->
                     IF c \notin Covers[x] THEN concept[c]
                     ELSE Practised(IF concept[c] = None THEN NewState ELSE concept[c], outcome)]
    /\ UNCHANGED <<day, level, live, stats, build, levels>>

-----------------------------------------------------------------------------
(* The percentiles job: skips are not graded. *)
Graded(x) == {a \in attempts : a.exercise = x /\ a.outcome # "skipped"}
Solved(x) == {a \in Graded(x) : a.outcome = "correct"}

\* 1 + 9 * (1 - solve_rate), which is between 1 and 10
Empirical(n, correct) == 100 + (2 * 900 * (n - correct) + n) \div (2 * n)

ComputeStats ==
    /\ phase \in {"none", "served"}
    /\ stats' = [x \in Exercises |->
                   LET n == Cardinality(Graded(x)) IN
                   [n |-> n, empirical |-> IF n > 0 /\ n >= MIN_EMPIRICAL_N
                                           THEN Empirical(n, Cardinality(Solved(x)))
                                           ELSE stats[x].empirical]]
    /\ UNCHANGED <<day, level, live, learned, build, levels>>

\* PATCH /me
ChangeLevel(l) ==
    /\ phase \in {"none", "served"} /\ l # level /\ levels < MaxLevels
    /\ level' = l
    /\ levels' = levels + 1
    /\ UNCHANGED <<day, live, stats, learned, build>>

\* Days pass; exercises are published, pulled and retired.
NextDay(d, pool) ==
    /\ phase \in {"none", "served"} /\ day + d <= MaxDay
    /\ day' = day + d
    /\ live' = pool
    /\ Goto("none")
    /\ todo' = {} /\ slots' = << >> /\ boss' = None
    /\ UNCHANGED <<level, stats, learned, levels>>

Init ==
    /\ day = 0 /\ level = "junior" /\ live \in Pools
    /\ stats = [x \in Exercises |-> [n |-> 0, empirical |-> None]]
    /\ concept = [c \in Concepts |-> None]
    /\ attempts = {}
    /\ phase = "none" /\ todo = {} /\ slots = << >> /\ boss = None
    /\ levels = 0

Next ==
    \/ StartBuild \/ PickDue \/ DueDone \/ PickFill \/ FillDone \/ PickBoss \/ PickPad
    \/ PadDone \/ Serve
    \/ \E x \in Exercises, o \in {"correct", "incorrect", "skipped"} : Answer(x, o)
    \/ ComputeStats
    \/ \E l \in DOMAIN LEVEL_BANDS : ChangeLevel(l)
    \/ \E d \in Absences, pool \in Pools : NextDay(d, pool)

Spec == Init /\ [][Next]_vars

-----------------------------------------------------------------------------
(* The shape of the state; user_concept_state checks 0 <= mastery <= 1. *)
TypeOK ==
    /\ level \in DOMAIN LEVEL_BANDS /\ live \subseteq Exercises
    /\ \A c \in Concepts : concept[c] # None => concept[c].mastery \in 0 .. 1000
    /\ Elements(slots) \cup ({boss} \ {None}) \subseteq live

(* D-61: no exercise is given twice, and the session reaches the floor if  *)
(* there are exercises for it; what is out of band, boss or not, is there  *)
(* only to bring it to the floor, when all that is in band is in already.  *)
LevelIsKept ==
    phase = "built" =>
        /\ Cardinality(Used) = Length
        /\ Len(slots) <= MAX_NON_BOSS_SLOTS
        /\ Length >= Min({MIN_SLOTS, Cardinality(live)})
        /\ (\E x \in Elements(slots) : ~InBand(x)) \/ (boss # None /\ Effective(boss) \notin Low .. BossMax)
             => Banded = {} /\ Length <= MIN_SLOTS

(* A due concept that could be practised is, unless the slots went to      *)
(* concepts due as long; and an exercise seen lately comes back only where *)
(* all that is not is in the session too.                                  *)
DueComesFirst ==
    phase = "built" =>
        \A c \in DueConcepts :
            (\E x \in live : c \in Covers[x] /\ InBand(x)) =>
                \/ \E x \in Elements(slots) : c \in Covers[x]
                \/ /\ Len(slots) = MAX_NON_BOSS_SLOTS
                   /\ \A x \in Elements(slots) : \E d \in Covers[x] \cap DueConcepts :
                          concept[d].due <= concept[c].due

NoNeedlessRepeat ==
    phase = "built" =>
        \A x \in Elements(slots) \cap RecentlySeen :
            InBand(x) => \E c \in Covers[x] :
                \A y \in live \ RecentlySeen : c \in Covers[y] /\ InBand(y) => y \in Used

(* What is known of a concept is what was answered: verdicts are attempts, *)
(* skips are declined (D-93), and it is due again only after today.        *)
OnConcept(c, outcomes) ==
    Cardinality({a \in attempts : c \in Covers[a.exercise] /\ a.outcome \in outcomes})

ConceptsMatchAttempts ==
    \A c \in Concepts :
        IF concept[c] = None THEN OnConcept(c, {"correct", "incorrect", "skipped"}) = 0
        ELSE /\ concept[c].attempts = OnConcept(c, {"correct", "incorrect"})
             /\ concept[c].correct = OnConcept(c, {"correct"})
             /\ concept[c].declined = OnConcept(c, {"skipped"})
             /\ concept[c].due > concept[c].seen

PracticeIsSound == LevelIsKept /\ DueComesFirst /\ NoNeedlessRepeat /\ ConceptsMatchAttempts
=============================================================================
