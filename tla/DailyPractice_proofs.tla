----------------------- MODULE DailyPractice_proofs -------------------------
(***************************************************************************)
(* The daily practice (DailyPractice, as MCServices instantiates it) for   *)
(* every value of its constants that PracticeAssumption admits:            *)
(*   PracticeHolds           P!Spec => []PracticeIsSound                   *)
(*   PracticeIsTyped         P!Spec => []P!TypeOK                          *)
(* What a built session promises is kept step by step of the build         *)
(* (SessionInv): nothing out of band, and nothing needlessly a repeat, is  *)
(* taken before all that is in band; the due concepts come most overdue    *)
(* first, so that what has been picked is as overdue as what has not       *)
(* (AsOverdue).  What is known of a concept is counted answer by answer    *)
(* (Known).                                                                *)
(***************************************************************************)
EXTENDS MCServices, SequenceTheorems, FiniteSetTheorems, WellFoundedInduction, TLAPS

-----------------------------------------------------------------------------
\* Numbers are well-founded, so a set of them has a least element.
LEMMA NatWellFounded == IsWellFoundedOn({ss \in Nat \X Nat : ss[1] < ss[2]}, Nat)
BY NatLessThanWellFounded DEF OpToRel

LEMMA LeastNat ==
    ASSUME NEW numbers \in SUBSET Nat, numbers # {}
    PROVE  \E m \in numbers : \A k \in numbers : m <= k
<1> DEFINE below == {ss \in Nat \X Nat : ss[1] < ss[2]}
<1>1. PICK m \in numbers : \A k \in numbers : <<k, m>> \notin below
  BY NatWellFounded, WFMin
<1>2. ASSUME NEW k \in numbers PROVE m <= k
  <2>1. ~ (k < m)
    BY <1>1
  <2>2. QED
    BY <2>1
<1>3. QED
  BY <1>2

Mastery == 0 .. 1000

ConceptRow == [mastery : Mastery, attempts : Nat, correct : Nat, declined : Nat,
               due : Int, seen : Int]

Rating == [n : Nat, empirical : Int \cup {None}]

AnswerRow == [exercise : P!Exercises, day : Int, outcome : {"correct", "incorrect", "skipped"}]

PracticeTyping ==
    /\ level \in {"junior", "mid", "senior"} /\ day \in Int
    /\ live \subseteq P!Exercises /\ IsFiniteSet(live)
    /\ ratings \in [P!Exercises -> Rating]
    /\ concept \in [P!Concepts -> ConceptRow \cup {None}]
    /\ answered \subseteq AnswerRow /\ IsFiniteSet(answered)
    /\ slots \in Seq(live) /\ boss \in live \cup {None}

LEMMA MaxOfTwo ==
    ASSUME NEW a \in Int, NEW b \in Int
    PROVE  P!Max({a, b}) \in {a, b} /\ P!Max({a, b}) >= a /\ P!Max({a, b}) >= b
<1>1. \E x \in {a, b} : \A y \in {a, b} : x >= y
  <2>1. CASE a >= b
    BY <2>1
  <2>2. CASE b >= a
    BY <2>2
  <2>3. QED
    BY <2>1, <2>2
<1>2. PICK m : m = P!Max({a, b})
  OBVIOUS
<1>3. m \in {a, b} /\ \A y \in {a, b} : m >= y
  BY <1>1, <1>2 DEF P!Max
<1>4. QED
  BY <1>2, <1>3

LEMMA MinOfTwo ==
    ASSUME NEW a \in Int, NEW b \in Int
    PROVE  P!Min({a, b}) \in {a, b} /\ P!Min({a, b}) <= a /\ P!Min({a, b}) <= b
<1>1. \E x \in {a, b} : \A y \in {a, b} : x =< y
  <2>1. CASE a <= b
    BY <2>1
  <2>2. CASE b <= a
    BY <2>2
  <2>3. QED
    BY <2>1, <2>2
<1>2. PICK m : m = P!Min({a, b})
  OBVIOUS
<1>3. m \in {a, b} /\ \A y \in {a, b} : m =< y
  BY <1>1, <1>2 DEF P!Min
<1>4. QED
  BY <1>2, <1>3

\* The numbers the sampler compares.
LEMMA Numbers ==
    ASSUME PracticeTyping
    PROVE  /\ P!Low \in Int /\ P!High \in Int /\ P!Target \in Int /\ P!BossMax \in Int
           /\ \A x \in P!Exercises : P!Effective(x) \in Int
<1>1. P!Low \in Int /\ P!High \in Int /\ P!Target \in Int
  BY DEF PracticeTyping, P!Low, P!High, P!Target, P!LEVEL_BANDS, P!LEVEL_DIFFICULTY
<1>2. P!BossMax \in Int
  <2>1. PICK b \in Int : b = P!High + P!BOSS_BAND_MARGIN
    BY <1>1 DEF P!BOSS_BAND_MARGIN
  <2>2. P!Min({1000, b}) \in {1000, b}
    BY MinOfTwo
  <2>3. QED
    BY <2>1, <2>2 DEF P!BossMax
<1>3. ASSUME NEW x \in P!Exercises PROVE P!Effective(x) \in Int
  <2>1. ratings[x] \in Rating
    BY DEF PracticeTyping
  <2>2. ratings[x].empirical \in Int \/ ratings[x].empirical = None
    BY <2>1 DEF Rating
  <2>3. Difficulty[x] * 100 \in Int
    BY PracticeAssumption DEF P!Exercises
  <2>4. QED
    BY <2>2, <2>3 DEF P!Effective
<1>4. QED
  BY <1>1, <1>2, <1>3

\* There is a closest one, unless there is none at all.
LEMMA ClosestAre ==
    ASSUME PracticeTyping, NEW pool, pool \subseteq P!Exercises, NEW target \in Int
    PROVE  P!Closest(pool, target) \subseteq pool
           /\ (pool # {} => P!Closest(pool, target) # {})
<1>1. ASSUME NEW x \in pool PROVE P!Distance(x, target) \in Nat
  <2>1. PICK e \in Int : e = P!Effective(x)
    BY Numbers
  <2>2. PICK a \in Int : a = e - target
    OBVIOUS
  <2>3. PICK b \in Int : b = target - e
    OBVIOUS
  <2>4. P!Max({a, b}) \in {a, b} /\ P!Max({a, b}) >= a /\ P!Max({a, b}) >= b
    BY MaxOfTwo
  <2>5. P!Distance(x, target) = P!Max({a, b})
    BY <2>1, <2>2, <2>3 DEF P!Distance
  <2>6. QED
    BY <2>2, <2>3, <2>4, <2>5
<1>2. ASSUME pool # {} PROVE P!Closest(pool, target) # {}
  <2> DEFINE numbers == {P!Distance(x, target) : x \in pool}
  <2>1. numbers \in SUBSET Nat /\ numbers # {}
    BY <1>1, <1>2
  <2>2. PICK m \in numbers : \A k \in numbers : m <= k
    BY <2>1, LeastNat
  <2>3. PICK x \in pool : m = P!Distance(x, target)
    BY <2>2
  <2>4. x \in P!Closest(pool, target)
    BY <2>2, <2>3 DEF P!Closest
  <2>5. QED
    BY <2>4
<1>3. P!Closest(pool, target) \subseteq pool
  BY DEF P!Closest
<1>4. QED
  BY <1>2, <1>3

\* What pick returns: an exercise not in the session, not seen lately if there
\* is such a one; nothing only if the session has them all.
LEMMA PicksAre ==
    ASSUME PracticeTyping, NEW pool, pool \subseteq P!Exercises, NEW target \in Int
    PROVE  /\ P!Picks(pool, target) \subseteq pool \ P!Used
           /\ \A x \in P!Picks(pool, target) :
                  x \in P!RecentlySeen => pool \ P!Used \subseteq P!RecentlySeen
           /\ P!Picks(pool, target) = {} => pool \subseteq P!Used
<1> DEFINE available == pool \ P!Used
           fresh == available \ P!RecentlySeen
<1>1. CASE fresh # {}
  <2>1. P!Picks(pool, target) = P!Closest(fresh, target)
    BY <1>1 DEF P!Picks
  <2>2. P!Closest(fresh, target) \subseteq fresh /\ P!Closest(fresh, target) # {}
    BY <1>1, ClosestAre
  <2>3. QED
    BY <2>1, <2>2
<1>2. CASE fresh = {}
  <2>1. P!Picks(pool, target) = P!Closest(available, target)
    BY <1>2 DEF P!Picks
  <2>2. /\ P!Closest(available, target) \subseteq available
        /\ available # {} => P!Closest(available, target) # {}
    BY ClosestAre
  <2>3. QED
    BY <1>2, <2>1, <2>2
<1>3. QED
  BY <1>1, <1>2

LEMMA SameCardinality == \A T : P!Cardinality(T) = Cardinality(T)
BY DEF P!Cardinality, Cardinality

-----------------------------------------------------------------------------
(* What holds at each point of a build, and between builds.                *)
Building == phase \in {"due", "fill", "boss", "pad", "built"}

\* No exercise twice.
NoneTwice == IsFiniteSet(P!Used) /\ Cardinality(P!Used) = P!Length

\* Until the boss is picked there is none, and what is in the session is in band.
InBandSoFar ==
    phase \in {"none", "due", "fill", "boss"} =>
        boss = None /\ \A x \in P!Elements(slots) : P!InBand(x)

FullOrBare == P!Banded = {} \/ Len(slots) = MAX_NON_BOSS_SLOTS

OutOfBand ==
    \/ \E x \in P!Elements(slots) : ~P!InBand(x)
    \/ boss # None /\ P!Effective(boss) \notin P!Low .. P!BossMax

\* Out of band only to bring the session to the floor.
OutOfBandToTheFloor == OutOfBand => P!Banded = {} /\ P!Length <= MIN_SLOTS

\* The session practises c, or is full of what is as overdue.
Practises(c) == \E x \in P!Elements(slots) : c \in Covers[x]

AsOverdue(c) ==
    \A x \in P!Elements(slots) : \E d \in Covers[x] \cap P!DueConcepts :
        concept[d].due <= concept[c].due

Practicable(c) == \E x \in live : c \in Covers[x] /\ P!InBand(x)

DueInOrder ==
    phase = "due" =>
        /\ todo \subseteq P!DueConcepts
        /\ \A c \in todo : AsOverdue(c)
        /\ \A c \in P!DueConcepts \ todo : Practicable(c) => Practises(c)

DueServed ==
    phase \in {"fill", "boss", "pad", "built"} =>
        \A c \in P!DueConcepts : Practicable(c) =>
            Practises(c) \/ (Len(slots) = MAX_NON_BOSS_SLOTS /\ AsOverdue(c))

\* A repeat only where all else is in the session.
Repeats ==
    \A x \in P!Elements(slots) \cap P!RecentlySeen :
        P!InBand(x) => \E c \in Covers[x] :
            \A y \in live \ P!RecentlySeen : c \in Covers[y] /\ P!InBand(y) => y \in P!Used

SessionInv ==
    /\ phase \in {"none", "due", "fill", "boss", "pad", "built", "served"}
    /\ phase = "none" => slots = << >>
    /\ NoneTwice /\ Len(slots) <= MAX_NON_BOSS_SLOTS
    /\ InBandSoFar
    /\ phase \in {"boss", "pad", "built"} => FullOrBare
    /\ phase \in {"pad", "built"} => OutOfBandToTheFloor
    /\ phase = "built" => ~P!WantsPad
    /\ DueInOrder /\ DueServed
    /\ Building => Repeats

\* What is known of a concept is what was answered, and due later.
Known(c) ==
    IF concept[c] = None THEN P!OnConcept(c, {"correct", "incorrect", "skipped"}) = 0
    ELSE /\ concept[c].attempts = P!OnConcept(c, {"correct", "incorrect"})
         /\ concept[c].correct = P!OnConcept(c, {"correct"})
         /\ concept[c].declined = P!OnConcept(c, {"skipped"})
         /\ concept[c].due > concept[c].seen

PracticeInv == PracticeTyping /\ SessionInv /\ \A c \in P!Concepts : Known(c)

\* The invariant at the end of a build is what the session promises.
LEMMA BuiltIsSound == PracticeInv => PracticeIsSound
<1> SUFFICES ASSUME PracticeInv PROVE PracticeIsSound
  OBVIOUS
<1>1. P!ConceptsMatchAttempts
  BY DEF PracticeInv, Known, P!ConceptsMatchAttempts
<1>2. ASSUME phase = "built" PROVE P!LevelIsKept /\ P!DueComesFirst /\ P!NoNeedlessRepeat
  <2>1. P!Length >= P!Min({MIN_SLOTS, Cardinality(live)})
    <3>1. P!Length \in Nat
      BY FS_CardinalityType DEF PracticeInv, SessionInv, NoneTwice
    <3>2. PICK k \in Nat : k = Cardinality(live)
      BY FS_CardinalityType DEF PracticeInv, PracticeTyping
    <3>3. PICK floor \in Nat : floor = MIN_SLOTS
      BY PracticeAssumption
    <3>4. PICK m : m = P!Min({floor, k})
      OBVIOUS
    <3>5. m \in {floor, k} /\ m <= floor /\ m <= k
      BY <3>4, MinOfTwo
    <3>6. CASE live \subseteq P!Used
      <4>1. k <= P!Length
        BY <3>2, <3>6, FS_Subset DEF PracticeInv, SessionInv, NoneTwice
      <4>2. QED
        BY <3>1, <3>2, <3>3, <3>4, <3>5, <4>1
    <3>7. CASE P!Length >= floor
      BY <3>1, <3>2, <3>3, <3>4, <3>5, <3>7
    <3>8. P!Length >= floor \/ live \subseteq P!Used
      BY <1>2, <3>1, <3>3 DEF PracticeInv, SessionInv, P!WantsPad
    <3>9. QED
      BY <3>6, <3>7, <3>8
  <2>2. P!LevelIsKept
    <3>1. /\ Cardinality(P!Used) = P!Length /\ Len(slots) <= MAX_NON_BOSS_SLOTS
          /\ OutOfBand => P!Banded = {} /\ P!Length <= MIN_SLOTS
      BY <1>2 DEF PracticeInv, SessionInv, NoneTwice, OutOfBandToTheFloor
    <3>2. (\E x \in P!Elements(slots) : ~P!InBand(x))
              \/ (boss # None /\ P!Effective(boss) \notin P!Low .. P!BossMax)
          => P!Banded = {} /\ P!Length <= MIN_SLOTS
      BY <3>1 DEF OutOfBand
    <3>3. QED
      BY <1>2, <2>1, <3>1, <3>2, SameCardinality DEF P!LevelIsKept
  <2>3. P!DueComesFirst
    BY <1>2 DEF PracticeInv, SessionInv, DueServed, Practicable, Practises, AsOverdue,
       P!DueComesFirst
  <2>4. P!NoNeedlessRepeat
    BY <1>2 DEF PracticeInv, SessionInv, Repeats, Building, P!NoNeedlessRepeat
  <2>5. QED
    BY <2>2, <2>3, <2>4
<1>3. QED
  BY <1>1, <1>2 DEF PracticeIsSound, P!PracticeIsSound, P!LevelIsKept, P!DueComesFirst,
     P!NoNeedlessRepeat

-----------------------------------------------------------------------------
(* The build, step by step.                                                *)
\* What a build reads and does not change.
Read == <<day, level, live, ratings, concept, answered>>

LEMMA BuildSees ==
    ASSUME UNCHANGED Read
    PROVE  /\ \A x : P!Effective(x)' = P!Effective(x)
           /\ \A x : P!InBand(x)' <=> P!InBand(x)
           /\ P!Low' = P!Low /\ P!BossMax' = P!BossMax
           /\ P!DueConcepts' = P!DueConcepts /\ P!RecentlySeen' = P!RecentlySeen
           /\ \A c : Practicable(c)' <=> Practicable(c)
<1>1. \A x : P!Effective(x)' = P!Effective(x)
  BY DEF Read, P!Effective
<1>2. P!Low' = P!Low /\ P!High' = P!High
  BY DEF Read, P!Low, P!High, P!LEVEL_BANDS
<1>3. P!BossMax' = P!BossMax
  BY <1>2 DEF P!BossMax, P!BOSS_BAND_MARGIN
<1>4. \A x : P!InBand(x)' <=> P!InBand(x)
  BY <1>1, <1>2 DEF P!InBand
<1>5. P!DueConcepts' = P!DueConcepts
  BY DEF Read, P!DueConcepts
<1>6. P!RecentlySeen' = P!RecentlySeen
  BY DEF Read, P!RecentlySeen
<1>7. \A c : Practicable(c)' <=> Practicable(c)
  BY <1>4 DEF Read, Practicable
<1>8. QED
  BY <1>1, <1>2, <1>3, <1>4, <1>5, <1>6, <1>7

\* What is in the session is live, and there are at most one more than slots.
LEMMA SessionIs ==
    ASSUME PracticeTyping
    PROVE  /\ P!Elements(slots) \subseteq live /\ P!Used \subseteq live
           /\ Len(slots) \in Nat /\ P!Length \in Nat
           /\ Len(slots) <= P!Length /\ (boss = None => P!Length = Len(slots))
<1>1. P!Elements(slots) \subseteq live /\ Len(slots) \in Nat
  BY DEF PracticeTyping, P!Elements
<1>2. P!Used \subseteq live
  BY <1>1 DEF PracticeTyping, P!Used
<1>3. P!Length = IF boss = None THEN Len(slots) ELSE Len(slots) + 1
  BY <1>1 DEF P!Length
<1>4. QED
  BY <1>1, <1>2, <1>3

\* One more slot.
LEMMA OneMoreSlot ==
    ASSUME PracticeTyping, NoneTwice, NEW x \in live \ P!Used,
           live' = live, boss' = boss, slots' = Append(slots, x)
    PROVE  /\ slots' \in Seq(live')
           /\ P!Elements(slots)' = P!Elements(slots) \cup {x}
           /\ P!Used' = P!Used \cup {x}
           /\ Len(slots)' = Len(slots) + 1 /\ P!Length' = P!Length + 1
           /\ NoneTwice'
<1>1. slots \in Seq(live) /\ x \in live
  BY DEF PracticeTyping
<1>2. slots' \in Seq(live') /\ Len(slots') = Len(slots) + 1
  BY <1>1
<1>3. P!Elements(slots') = P!Elements(slots) \cup {x}
  <2>1. DOMAIN slots' = (DOMAIN slots) \cup {Len(slots) + 1}
    BY <1>1
  <2>2. \A i \in DOMAIN slots : slots'[i] = slots[i]
    BY <1>1
  <2>3. slots'[Len(slots) + 1] = x
    BY <1>1
  <2>4. QED
    BY <2>1, <2>2, <2>3 DEF P!Elements
<1>4. P!Elements(slots)' = P!Elements(slots')
  BY DEF P!Elements
<1>5. P!Used' = P!Used \cup {x}
  BY <1>3, <1>4 DEF P!Used
<1>6. P!Length' = P!Length + 1
  <2>1. Len(slots) \in Nat
    BY <1>1
  <2>2. QED
    BY <1>2, <2>1 DEF P!Length
<1>7. NoneTwice'
  <2>1. IsFiniteSet(P!Used \cup {x}) /\ Cardinality(P!Used \cup {x}) = Cardinality(P!Used) + 1
    BY FS_AddElement DEF NoneTwice
  <2>2. QED
    BY <1>5, <1>6, <2>1 DEF NoneTwice
<1>8. QED
  BY <1>2, <1>3, <1>4, <1>5, <1>6, <1>7

\* What is known of the concepts is not the build's to change.
LEMMA KnownStays ==
    ASSUME \A c \in P!Concepts : Known(c), UNCHANGED <<concept, answered>>
    PROVE  (\A c \in P!Concepts : Known(c))'
<1>1. ASSUME NEW c, NEW outcomes
      PROVE  P!OnConcept(c, outcomes)' = P!OnConcept(c, outcomes)
  BY DEF P!OnConcept, P!Cardinality, P!IsFiniteSet
<1>2. ASSUME NEW c \in P!Concepts PROVE Known(c)'
  <2>1. Known(c)
    OBVIOUS
  <2>2. QED
    BY <1>1, <2>1 DEF Known
<1>3. QED
  BY <1>2

\* A step of the build keeps the invariant if it keeps the session's part.
LEMMA BuildStep ==
    ASSUME PracticeInv, UNCHANGED Read, SessionInv',
           slots' \in Seq(live), boss' \in live \cup {None}
    PROVE  PracticeInv'
<1>1. PracticeTyping'
  BY DEF PracticeInv, PracticeTyping, Read
<1>2. (\A c \in P!Concepts : Known(c))'
  BY KnownStays DEF PracticeInv, Read
<1>3. QED
  BY <1>1, <1>2 DEF PracticeInv

LEMMA StartBuildKeeps == ASSUME PracticeInv, P!StartBuild PROVE PracticeInv'
<1> USE DEF P!StartBuild, P!Goto, P!learned
<1>1. UNCHANGED Read /\ UNCHANGED <<slots, boss>> /\ phase = "none" /\ phase' = "due"
  BY DEF Read
<1>2. P!Elements(slots) = {} /\ P!Elements(slots)' = {}
  <2>1. slots = << >> /\ slots' = << >>
    BY <1>1 DEF PracticeInv, SessionInv
  <2>2. QED
    BY <2>1 DEF P!Elements
<1>3. NoneTwice'
  BY <1>1 DEF PracticeInv, SessionInv, NoneTwice, P!Used, P!Length, P!Elements
<1>4. InBandSoFar' /\ Repeats'
  BY <1>1, <1>2 DEF PracticeInv, SessionInv, InBandSoFar, Repeats
<1>5. DueInOrder'
  <2>1. todo' = P!DueConcepts'
    BY <1>1, BuildSees
  <2>2. \A c : AsOverdue(c)'
    BY <1>2 DEF AsOverdue
  <2>3. QED
    BY <2>1, <2>2 DEF DueInOrder
<1>6. DueServed'
  BY <1>1 DEF DueServed
<1>7. SessionInv'
  BY <1>1, <1>3, <1>4, <1>5, <1>6 DEF PracticeInv, SessionInv, Building
<1>8. QED
  BY <1>1, <1>7, BuildStep DEF PracticeInv, PracticeTyping

LEMMA PickDueKeeps == ASSUME PracticeInv, P!PickDue PROVE PracticeInv'
<1> USE DEF PracticeInv, SessionInv
<1>1. UNCHANGED Read /\ boss' = boss /\ phase = "due" /\ phase' = "due"
  BY DEF P!PickDue, Read, P!learned
<1>2. PICK c \in P!MostOverdue :
          LET picks == P!Picks({x \in live : c \in Covers[x] /\ P!InBand(x)}, P!Target) IN
          /\ todo' = todo \ {c}
          /\ IF picks = {} THEN UNCHANGED slots ELSE \E x \in picks : P!Append_(x)
  BY DEF P!PickDue
<1>3. c \in todo /\ \A d \in todo : concept[c].due <= concept[d].due
  BY <1>2 DEF P!MostOverdue
<1>4. todo \subseteq P!DueConcepts /\ todo' \subseteq todo
  BY <1>1, <1>2 DEF DueInOrder
<1> DEFINE pool == {x \in live : c \in Covers[x] /\ P!InBand(x)}
           picks == P!Picks(pool, P!Target)
<1>5. pool \subseteq P!Exercises /\ P!Target \in Int
  BY Numbers DEF PracticeTyping
<1>6. boss = None /\ \A x \in P!Elements(slots) : P!InBand(x)
  BY <1>1 DEF InBandSoFar
<1>7. Len(slots) < MAX_NON_BOSS_SLOTS /\ Len(slots) \in Nat
  BY SessionIs DEF P!PickDue
<1>8. CASE picks = {}
  <2>1. slots' = slots
    BY <1>2, <1>8
  <2>2. P!Elements(slots)' = P!Elements(slots) /\ P!Used' = P!Used /\ P!Length' = P!Length
    BY <1>1, <2>1 DEF P!Elements, P!Used, P!Length
  <2>3. NoneTwice'
    BY <2>2 DEF NoneTwice
  <2>4. Practicable(c) => Practises(c)
    <3>1. pool \subseteq P!Used
      BY <1>5, <1>8, PicksAre
    <3>2. P!Used = P!Elements(slots)
      BY <1>6 DEF P!Used
    <3>3. QED
      BY <3>1, <3>2 DEF Practicable, Practises
  <2>5. DueInOrder'
    <3>1. ASSUME NEW d \in todo' PROVE AsOverdue(d)'
      <4>1. AsOverdue(d)
        BY <1>1, <1>4, <3>1 DEF DueInOrder
      <4>2. QED
        BY <1>1, <2>2, <4>1, BuildSees DEF AsOverdue, Read
    <3>2. ASSUME NEW d \in P!DueConcepts' \ todo', Practicable(d)' PROVE Practises(d)'
      <4>1. Practicable(d) /\ d \in P!DueConcepts
        BY <1>1, <3>2, BuildSees
      <4>2. Practises(d)
        BY <1>1, <1>2, <2>4, <3>2, <4>1 DEF DueInOrder
      <4>3. QED
        BY <2>2, <4>2 DEF Practises
    <3>3. QED
      BY <1>1, <1>4, <3>1, <3>2, BuildSees DEF DueInOrder
  <2>6. InBandSoFar' /\ Repeats'
    <3>1. Repeats
      BY <1>1 DEF Building
    <3>2. QED
      BY <1>1, <1>6, <2>2, <3>1, BuildSees DEF InBandSoFar, Repeats, Read
  <2>7. DueServed'
    BY <1>1 DEF DueServed
  <2>8. SessionInv'
    BY <1>1, <2>1, <2>3, <2>5, <2>6, <2>7
  <2>9. QED
    BY <1>1, <2>1, <2>8, BuildStep DEF PracticeTyping
<1>9. CASE picks # {}
  <2>1. PICK x \in picks : slots' = Append(slots, x)
    BY <1>2, <1>9 DEF P!Append_
  <2>2. x \in pool \ P!Used /\ (x \in P!RecentlySeen => pool \ P!Used \subseteq P!RecentlySeen)
    BY <1>5, PicksAre
  <2>3. /\ slots' \in Seq(live') /\ P!Elements(slots)' = P!Elements(slots) \cup {x}
        /\ P!Used' = P!Used \cup {x} /\ Len(slots)' = Len(slots) + 1 /\ NoneTwice'
    BY <1>1, <2>1, <2>2, OneMoreSlot DEF Read
  <2>4. c \in Covers[x] /\ P!InBand(x) /\ c \in P!DueConcepts
    BY <1>3, <1>4, <2>2
  <2>5. DueInOrder'
    <3>1. ASSUME NEW d \in todo' PROVE AsOverdue(d)'
      <4>1. AsOverdue(d) /\ concept[c].due <= concept[d].due
        BY <1>1, <1>3, <1>4, <3>1 DEF DueInOrder
      <4>2. QED
        BY <1>1, <2>3, <2>4, <4>1, BuildSees DEF AsOverdue, Read
    <3>2. ASSUME NEW d \in P!DueConcepts' \ todo', Practicable(d)' PROVE Practises(d)'
      <4>1. Practicable(d) /\ d \in P!DueConcepts
        BY <1>1, <3>2, BuildSees
      <4>2. d = c \/ Practises(d)
        BY <1>1, <1>2, <3>2, <4>1 DEF DueInOrder
      <4>3. QED
        BY <2>3, <2>4, <4>2 DEF Practises
    <3>3. QED
      BY <1>1, <1>4, <3>1, <3>2, BuildSees DEF DueInOrder
  <2>6. InBandSoFar'
    BY <1>1, <1>6, <2>3, <2>4, BuildSees DEF InBandSoFar
  <2>7. Repeats'
    <3>1. Repeats
      BY <1>1 DEF Building
    <3>2. ASSUME x \in P!RecentlySeen,
                 NEW y \in live \ P!RecentlySeen, c \in Covers[y], P!InBand(y)
          PROVE  y \in P!Used
      BY <2>2, <3>2
    <3>3. QED
      BY <1>1, <2>3, <2>4, <3>1, <3>2, BuildSees DEF Repeats, Read
  <2>8. DueServed'
    BY <1>1 DEF DueServed
  <2>9. Len(slots)' <= MAX_NON_BOSS_SLOTS
    BY <1>7, <2>3, PracticeAssumption
  <2>10. SessionInv'
    BY <1>1, <2>3, <2>5, <2>6, <2>7, <2>8, <2>9
  <2>11. QED
    BY <1>1, <2>3, <2>10, BuildStep DEF PracticeTyping, Read
<1>10. QED
  BY <1>8, <1>9

\* The steps that go on to the next part of the build, the session as it is.
LEMMA SameSession ==
    ASSUME PracticeInv, UNCHANGED Read, UNCHANGED <<slots, boss>>
    PROVE  /\ NoneTwice' /\ (Len(slots) <= MAX_NON_BOSS_SLOTS)'
           /\ P!Elements(slots)' = P!Elements(slots) /\ P!Used' = P!Used
           /\ P!Banded' = P!Banded /\ P!Length' = P!Length
           /\ FullOrBare' <=> FullOrBare
           /\ OutOfBand' <=> OutOfBand
           /\ Repeats' <=> Repeats
           /\ \A c : Practises(c)' <=> Practises(c)
           /\ \A c : AsOverdue(c)' <=> AsOverdue(c)
<1>1. /\ P!Elements(slots)' = P!Elements(slots) /\ P!Used' = P!Used
      /\ P!Length' = P!Length /\ slots' = slots /\ boss' = boss /\ live' = live
      /\ concept' = concept
  BY DEF P!Elements, P!Used, P!Length, Read
<1>2. P!Banded' = P!Banded
  BY <1>1, BuildSees DEF P!Banded
<1>3. NoneTwice' /\ (Len(slots) <= MAX_NON_BOSS_SLOTS)' /\ (FullOrBare' <=> FullOrBare)
  BY <1>1, <1>2 DEF NoneTwice, FullOrBare, PracticeInv, SessionInv
<1>4. OutOfBand' <=> OutOfBand
  BY <1>1, BuildSees DEF OutOfBand
<1>5. Repeats' <=> Repeats
  BY <1>1, BuildSees DEF Repeats
<1>6. \A c : (Practises(c)' <=> Practises(c)) /\ (AsOverdue(c)' <=> AsOverdue(c))
  BY <1>1, BuildSees DEF Practises, AsOverdue
<1>7. QED
  BY <1>1, <1>2, <1>3, <1>4, <1>5, <1>6

LEMMA DueDoneKeeps == ASSUME PracticeInv, P!DueDone PROVE PracticeInv'
<1> USE DEF PracticeInv, SessionInv
<1>1. UNCHANGED Read /\ UNCHANGED <<slots, boss>> /\ phase = "due" /\ phase' = "fill"
  BY DEF P!DueDone, P!Goto, Read, P!learned
<1>2. todo = {} \/ Len(slots) = MAX_NON_BOSS_SLOTS
  BY DEF P!DueDone
<1>3. DueServed'
  <2>1. ASSUME NEW c \in P!DueConcepts', Practicable(c)', ~ Practises(c)'
        PROVE  (Len(slots) = MAX_NON_BOSS_SLOTS /\ AsOverdue(c))'
    <3>1. c \in P!DueConcepts /\ Practicable(c) /\ ~ Practises(c)
      BY <1>1, <2>1, BuildSees, SameSession
    <3>2. c \in todo
      BY <1>1, <3>1 DEF DueInOrder
    <3>3. Len(slots) = MAX_NON_BOSS_SLOTS /\ AsOverdue(c)
      BY <1>1, <1>2, <3>2 DEF DueInOrder
    <3>4. QED
      BY <1>1, <3>3, SameSession
  <2>2. QED
    BY <2>1 DEF DueServed
<1>4. InBandSoFar'
  BY <1>1, BuildSees, SameSession DEF InBandSoFar
<1>5. DueInOrder'
  BY <1>1 DEF DueInOrder
<1>6. SessionInv'
  BY <1>1, <1>3, <1>4, <1>5, SameSession DEF Building
<1>7. QED
  BY <1>1, <1>6, BuildStep DEF PracticeTyping

\* What was served by the due concepts stays so when a slot is added to a
\* session that is not full.
LEMMA MoreIsServed ==
    ASSUME PracticeTyping, UNCHANGED Read, DueServed, phase \in {"fill", "boss", "pad"},
           phase' \in {"fill", "boss", "pad", "built"},
           P!Elements(slots) \subseteq P!Elements(slots)',
           Len(slots) # MAX_NON_BOSS_SLOTS \/ slots' = slots
    PROVE  DueServed'
<1>1. ASSUME NEW c \in P!DueConcepts', Practicable(c)'
      PROVE  Practises(c)' \/ (Len(slots) = MAX_NON_BOSS_SLOTS /\ AsOverdue(c))'
  <2>1. c \in P!DueConcepts /\ Practicable(c)
    BY <1>1, BuildSees
  <2>2. Practises(c) \/ (Len(slots) = MAX_NON_BOSS_SLOTS /\ AsOverdue(c))
    BY <2>1 DEF DueServed
  <2>3. CASE Practises(c)
    BY <2>3 DEF Practises
  <2>4. CASE slots' = slots /\ Len(slots) = MAX_NON_BOSS_SLOTS /\ AsOverdue(c)
    BY <2>4, BuildSees DEF AsOverdue, P!Elements, Read
  <2>5. QED
    BY <2>2, <2>3, <2>4
<1>2. QED
  BY <1>1 DEF DueServed

LEMMA PickFillKeeps == ASSUME PracticeInv, P!PickFill PROVE PracticeInv'
<1> USE DEF PracticeInv, SessionInv
<1>1. UNCHANGED Read /\ boss' = boss /\ phase = "fill" /\ phase' = "fill"
  BY DEF P!PickFill, Read, P!learned
<1>2. PICK c, x : x \in P!Picks({y \in P!Banded : c \in Covers[y]}, P!Target) /\ P!Append_(x)
  BY DEF P!PickFill
<1> DEFINE pool == {y \in P!Banded : c \in Covers[y]}
<1>3. pool \subseteq P!Exercises /\ P!Target \in Int
  BY Numbers DEF PracticeTyping, P!Banded
<1>4. x \in pool \ P!Used /\ (x \in P!RecentlySeen => pool \ P!Used \subseteq P!RecentlySeen)
  BY <1>2, <1>3, PicksAre
<1>5. x \in live \ P!Used /\ P!InBand(x) /\ c \in Covers[x]
  BY <1>4 DEF P!Banded
<1>6. slots' = Append(slots, x)
  BY <1>2 DEF P!Append_
<1>7. /\ slots' \in Seq(live') /\ P!Elements(slots)' = P!Elements(slots) \cup {x}
      /\ P!Used' = P!Used \cup {x} /\ Len(slots)' = Len(slots) + 1 /\ NoneTwice'
  BY <1>1, <1>5, <1>6, OneMoreSlot DEF Read
<1>8. Len(slots) < MAX_NON_BOSS_SLOTS /\ Len(slots) \in Nat
  BY SessionIs DEF P!PickFill
<1>9. Len(slots)' <= MAX_NON_BOSS_SLOTS /\ Len(slots) # MAX_NON_BOSS_SLOTS
  BY <1>7, <1>8, PracticeAssumption
<1>10. InBandSoFar'
  BY <1>1, <1>5, <1>7, BuildSees DEF InBandSoFar
<1>11. DueServed'
  BY <1>1, <1>7, <1>9, MoreIsServed
<1>12. Repeats'
  <2>1. Repeats
    BY <1>1 DEF Building
  <2>2. ASSUME x \in P!RecentlySeen,
               NEW y \in live \ P!RecentlySeen, c \in Covers[y], P!InBand(y)
        PROVE  y \in P!Used
    BY <1>4, <2>2 DEF P!Banded
  <2>3. QED
    BY <1>1, <1>5, <1>7, <2>1, <2>2, BuildSees DEF Repeats, Read
<1>13. DueInOrder'
  BY <1>1 DEF DueInOrder
<1>14. SessionInv'
  BY <1>1, <1>7, <1>9, <1>10, <1>11, <1>12, <1>13
<1>15. QED
  BY <1>1, <1>7, <1>14, BuildStep DEF PracticeTyping, Read

LEMMA FillDoneKeeps == ASSUME PracticeInv, P!FillDone PROVE PracticeInv'
<1> USE DEF PracticeInv, SessionInv
<1>1. UNCHANGED Read /\ UNCHANGED <<slots, boss>> /\ phase = "fill" /\ phase' = "boss"
  BY DEF P!FillDone, P!Goto, Read, P!learned
<1>2. FullOrBare'
  BY <1>1, SameSession DEF P!FillDone, FullOrBare
<1>3. DueServed'
  BY <1>1, MoreIsServed, SameSession
<1>4. InBandSoFar'
  BY <1>1, BuildSees, SameSession DEF InBandSoFar
<1>5. DueInOrder'
  BY <1>1 DEF DueInOrder
<1>6. SessionInv'
  BY <1>1, <1>2, <1>3, <1>4, <1>5, SameSession DEF Building
<1>7. QED
  BY <1>1, <1>6, BuildStep DEF PracticeTyping

LEMMA PadDoneKeeps == ASSUME PracticeInv, P!PadDone PROVE PracticeInv'
<1> USE DEF PracticeInv, SessionInv
<1>1. UNCHANGED Read /\ UNCHANGED <<slots, boss>> /\ phase = "pad" /\ phase' = "built"
  BY DEF P!PadDone, P!Goto, Read, P!learned
<1>2. FullOrBare' /\ OutOfBandToTheFloor'
  BY <1>1, SameSession DEF OutOfBandToTheFloor
<1>3. ~P!WantsPad'
  <2>1. ~P!WantsPad
    BY DEF P!PadDone
  <2>2. QED
    BY <1>1, <2>1, SameSession DEF P!WantsPad, Read
<1>4. DueServed'
  BY <1>1, MoreIsServed, SameSession
<1>5. InBandSoFar' /\ DueInOrder'
  BY <1>1 DEF InBandSoFar, DueInOrder
<1>6. SessionInv'
  BY <1>1, <1>2, <1>3, <1>4, <1>5, SameSession DEF Building
<1>7. QED
  BY <1>1, <1>6, BuildStep DEF PracticeTyping

LEMMA ServeKeeps == ASSUME PracticeInv, P!Serve PROVE PracticeInv'
<1> USE DEF PracticeInv, SessionInv
<1>1. UNCHANGED Read /\ UNCHANGED <<slots, boss>> /\ phase = "built" /\ phase' = "served"
  BY DEF P!Serve, P!Goto, Read, P!learned
<1>2. InBandSoFar' /\ DueInOrder' /\ DueServed'
  BY <1>1 DEF InBandSoFar, DueInOrder, DueServed
<1>3. SessionInv'
  BY <1>1, <1>2, SameSession DEF Building
<1>4. QED
  BY <1>1, <1>3, BuildStep DEF PracticeTyping

\* What is in band and left over only gets less.
LEMMA BandedShrinks ==
    ASSUME UNCHANGED Read, P!Used \subseteq P!Used'
    PROVE  P!Banded' \subseteq P!Banded
BY BuildSees DEF P!Banded, Read

LEMMA PickBossKeeps == ASSUME PracticeInv, P!PickBoss PROVE PracticeInv'
<1> USE DEF PracticeInv, SessionInv
<1>1. UNCHANGED Read /\ slots' = slots /\ phase = "boss" /\ phase' = "pad"
  BY DEF P!PickBoss, P!Goto, Read, P!learned
<1>2. boss = None /\ \A x \in P!Elements(slots) : P!InBand(x)
  BY <1>1 DEF InBandSoFar
<1>3. Len(slots) \in Nat /\ P!Used \subseteq live /\ P!Length = Len(slots)
  BY <1>2, SessionIs
<1>4. P!Elements(slots)' = P!Elements(slots)
  BY <1>1 DEF P!Elements
<1>5. FullOrBare
  BY <1>1
<1>6. DueServed'
  BY <1>1, <1>4, MoreIsServed
<1>7. InBandSoFar' /\ DueInOrder'
  BY <1>1 DEF InBandSoFar, DueInOrder
<1>8. Repeats
  BY <1>1 DEF Building
<1>9. CASE P!Bosses = {}
  <2>1. boss' = boss
    BY <1>9 DEF P!PickBoss
  <2>2. ~OutOfBand
    BY <1>2 DEF OutOfBand
  <2>3. OutOfBandToTheFloor'
    BY <1>1, <2>1, <2>2, SameSession DEF OutOfBandToTheFloor
  <2>4. SessionInv'
    BY <1>1, <1>5, <1>6, <1>7, <1>8, <2>1, <2>3, SameSession DEF Building
  <2>5. QED
    BY <1>1, <2>1, <2>4, BuildStep DEF PracticeTyping
<1>10. CASE P!Bosses # {}
  <2>1. boss' \in P!Bosses
    BY <1>10 DEF P!PickBoss
  <2> DEFINE hardEnough == {x \in P!Eligible : P!Effective(x) >= P!BossTarget}
  <2>2. /\ live \subseteq P!Exercises /\ P!Eligible \subseteq P!Exercises
        /\ hardEnough \subseteq P!Exercises /\ P!BossMax \in Int
    BY Numbers DEF PracticeTyping, P!Eligible
  <2>3. /\ boss' \in live \ P!Used
        /\ boss' \in P!Eligible \/ Len(slots) < MIN_SLOTS
    <3>1. CASE hardEnough # {}
      <4>1. P!Bosses = P!Picks(hardEnough, P!BossMax)
        BY <3>1 DEF P!Bosses
      <4>2. P!Bosses \subseteq hardEnough \ P!Used
        BY <2>2, <4>1, PicksAre
      <4>3. QED
        BY <2>1, <4>2 DEF P!Eligible
    <3>2. CASE hardEnough = {} /\ P!Eligible # {}
      <4>1. P!Bosses = P!Picks(P!Eligible, P!BossMax)
        BY <3>2 DEF P!Bosses
      <4>2. P!Bosses \subseteq P!Eligible \ P!Used
        BY <2>2, <4>1, PicksAre
      <4>3. QED
        BY <2>1, <4>2 DEF P!Eligible
    <3>3. CASE hardEnough = {} /\ P!Eligible = {}
      <4>1. Len(slots) < MIN_SLOTS /\ P!Bosses = P!Picks(live, P!BossMax)
        BY <1>10, <3>3 DEF P!Bosses
      <4>2. P!Bosses \subseteq live \ P!Used
        BY <2>2, <4>1, PicksAre
      <4>3. QED
        BY <2>1, <4>1, <4>2
    <3>4. QED
      BY <3>1, <3>2, <3>3
  <2>4. boss' # None
    BY <2>2, <2>3, PracticeAssumption DEF P!Exercises
  <2>5. P!Used' = P!Used \cup {boss'}
    BY <1>2, <1>4, <2>4 DEF P!Used
  <2>6. P!Length' = P!Length + 1
    BY <1>1, <1>2, <1>3, <2>4 DEF P!Length
  <2>7. NoneTwice'
    <3>1. /\ IsFiniteSet(P!Used \cup {boss'})
          /\ Cardinality(P!Used \cup {boss'}) = Cardinality(P!Used) + 1
      BY <2>3, FS_AddElement DEF NoneTwice
    <3>2. QED
      BY <2>5, <2>6, <3>1 DEF NoneTwice
  <2>8. P!Banded' \subseteq P!Banded
    BY <1>1, <2>5, BandedShrinks
  <2>9. FullOrBare'
    BY <1>1, <1>5, <2>8 DEF FullOrBare
  <2>10. OutOfBandToTheFloor'
    <3>1. CASE boss' \in P!Eligible
      <4>1. P!Effective(boss') \in P!Low .. P!BossMax
        <5>1. P!Effective(boss') \in Int /\ P!Low \in Int /\ P!BossMax \in Int
          BY <2>2, <3>1, Numbers
        <5>2. QED
          BY <3>1, <5>1 DEF P!Eligible
      <4>2. P!Effective(boss)' = P!Effective(boss')
        BY <1>1 DEF P!Effective, Read
      <4>3. ~OutOfBand'
        BY <1>1, <1>2, <1>4, <4>1, <4>2, BuildSees DEF OutOfBand
      <4>4. QED
        BY <4>3 DEF OutOfBandToTheFloor
    <3>2. CASE Len(slots) < MIN_SLOTS
      <4>1. Len(slots) # MAX_NON_BOSS_SLOTS
        BY <1>3, <3>2, PracticeAssumption
      <4>2. P!Banded' = {}
        BY <1>5, <2>8, <4>1 DEF FullOrBare
      <4>3. P!Length' <= MIN_SLOTS
        BY <1>3, <2>6, <3>2, PracticeAssumption
      <4>4. QED
        BY <4>2, <4>3 DEF OutOfBandToTheFloor
    <3>3. QED
      BY <2>3, <3>1, <3>2
  <2>11. Repeats'
    BY <1>1, <1>4, <1>8, <2>5, BuildSees DEF Repeats, Read
  <2>12. SessionInv'
    BY <1>1, <1>6, <1>7, <2>7, <2>9, <2>10, <2>11
  <2>13. QED
    BY <1>1, <2>3, <2>12, BuildStep DEF PracticeTyping
<1>11. QED
  BY <1>9, <1>10

LEMMA PickPadKeeps == ASSUME PracticeInv, P!PickPad PROVE PracticeInv'
<1> USE DEF PracticeInv, SessionInv
<1>1. UNCHANGED Read /\ boss' = boss /\ phase = "pad" /\ phase' = "pad"
  BY DEF P!PickPad, Read, P!learned
<1>2. PICK x \in P!Picks(live, P!Target) : P!Append_(x)
  BY DEF P!PickPad
<1>3. live \subseteq P!Exercises /\ P!Target \in Int
  BY Numbers DEF PracticeTyping
<1>4. x \in live \ P!Used
  BY <1>3, PicksAre
<1>5. slots' = Append(slots, x)
  BY <1>2 DEF P!Append_
<1>6. /\ slots' \in Seq(live') /\ P!Elements(slots)' = P!Elements(slots) \cup {x}
      /\ P!Used' = P!Used \cup {x} /\ Len(slots)' = Len(slots) + 1
      /\ P!Length' = P!Length + 1 /\ NoneTwice'
  BY <1>1, <1>4, <1>5, OneMoreSlot DEF Read
<1>7. /\ P!Length < MIN_SLOTS /\ P!Length \in Nat /\ Len(slots) \in Nat
      /\ Len(slots) <= P!Length
  BY SessionIs DEF P!PickPad, P!WantsPad
<1>8. /\ Len(slots) # MAX_NON_BOSS_SLOTS /\ Len(slots)' <= MAX_NON_BOSS_SLOTS
      /\ P!Length' <= MIN_SLOTS
  BY <1>6, <1>7, PracticeAssumption
<1>9. P!Banded = {}
  BY <1>1, <1>8 DEF FullOrBare
<1>10. P!Banded' = {}
  BY <1>1, <1>6, <1>9, BandedShrinks
<1>11. ~P!InBand(x)
  BY <1>4, <1>9 DEF P!Banded
<1>12. FullOrBare' /\ OutOfBandToTheFloor'
  BY <1>8, <1>10 DEF FullOrBare, OutOfBandToTheFloor
<1>13. DueServed'
  BY <1>1, <1>6, <1>8, MoreIsServed
<1>14. Repeats'
  <2>1. Repeats
    BY <1>1 DEF Building
  <2>2. QED
    BY <1>1, <1>6, <1>11, <2>1, BuildSees DEF Repeats, Read
<1>15. InBandSoFar' /\ DueInOrder'
  BY <1>1 DEF InBandSoFar, DueInOrder
<1>16. SessionInv'
  BY <1>1, <1>6, <1>8, <1>12, <1>13, <1>14, <1>15
<1>17. QED
  BY <1>1, <1>6, <1>16, BuildStep DEF PracticeTyping, Read

-----------------------------------------------------------------------------
(* Between sessions: answers, and the days that pass.                      *)
\* Between sessions nothing is promised of the build.
LEMMA IdleStep ==
    ASSUME PracticeInv, phase \in {"none", "served"}, UNCHANGED <<phase, todo, slots, boss>>
    PROVE  SessionInv'
<1> USE DEF PracticeInv, SessionInv
<1>1. NoneTwice' /\ Len(slots)' <= MAX_NON_BOSS_SLOTS
  BY DEF NoneTwice, P!Used, P!Length, P!Elements
<1>2. InBandSoFar'
  <2>1. CASE phase = "none"
    <3>1. boss' = None /\ slots' = << >>
      BY <2>1 DEF InBandSoFar
    <3>2. P!Elements(slots)' = {}
      BY <3>1 DEF P!Elements
    <3>3. QED
      BY <3>1, <3>2 DEF InBandSoFar
  <2>2. CASE phase = "served"
    BY <2>2 DEF InBandSoFar
  <2>3. QED
    BY <2>1, <2>2
<1>3. DueInOrder' /\ DueServed'
  BY DEF DueInOrder, DueServed
<1>4. QED
  BY <1>1, <1>2, <1>3 DEF Building

LEMMA ChangeLevelKeeps == ASSUME PracticeInv, NEW l \in DOMAIN P!LEVEL_BANDS, P!ChangeLevel(l) PROVE PracticeInv'
<1>1. /\ phase \in {"none", "served"} /\ UNCHANGED <<phase, todo, slots, boss>>
      /\ UNCHANGED <<day, live, ratings, concept, answered>> /\ level' = l
  BY DEF P!ChangeLevel, P!learned, P!build
<1>2. PracticeTyping'
  BY <1>1 DEF PracticeInv, PracticeTyping, P!LEVEL_BANDS
<1>3. SessionInv'
  BY <1>1, IdleStep
<1>4. (\A c \in P!Concepts : Known(c))'
  BY <1>1, KnownStays DEF PracticeInv
<1>5. QED
  BY <1>2, <1>3, <1>4 DEF PracticeInv

LEMMA ComputeStatsKeeps == ASSUME PracticeInv, P!ComputeStats PROVE PracticeInv'
<1>1. /\ phase \in {"none", "served"} /\ UNCHANGED <<phase, todo, slots, boss>>
      /\ UNCHANGED <<day, level, live, concept, answered>>
  BY DEF P!ComputeStats, P!learned, P!build
<1>2. PracticeTyping'
  <2>1. ASSUME NEW x \in P!Exercises
        PROVE  P!Cardinality(P!Graded(x)) \in Nat /\ P!Cardinality(P!Solved(x)) \in Nat
    <3>1. P!Graded(x) \subseteq answered /\ P!Solved(x) \subseteq answered
      BY DEF P!Graded, P!Solved
    <3>2. IsFiniteSet(P!Graded(x)) /\ IsFiniteSet(P!Solved(x))
      BY <3>1, FS_Subset DEF PracticeInv, PracticeTyping
    <3>3. QED
      BY <3>2, FS_CardinalityType, SameCardinality
  <2>2. ASSUME NEW n \in Nat, NEW k \in Nat, n > 0 PROVE P!Empirical(n, k) \in Int
    <3>1. PICK d \in Int : d = 2 * n /\ d > 0
      BY <2>2
    <3>2. PICK m \in Int : m = 2 * 900 * (n - k) + n
      OBVIOUS
    <3>3. P!Empirical(n, k) = 100 + m \div d
      BY <3>1, <3>2 DEF P!Empirical
    <3>4. m \div d \in Int
      BY <3>1, <3>2
    <3>5. QED
      BY <3>3, <3>4
  <2>3. ASSUME NEW x \in P!Exercises
        PROVE  LET n == P!Cardinality(P!Graded(x)) IN
               [n |-> n, empirical |-> IF n > 0 /\ n >= MIN_EMPIRICAL_N
                                       THEN P!Empirical(n, P!Cardinality(P!Solved(x)))
                                       ELSE ratings[x].empirical] \in Rating
    <3>1. ratings[x].empirical \in Int \cup {None}
      BY DEF PracticeInv, PracticeTyping, Rating
    <3>2. PICK n \in Nat : n = P!Cardinality(P!Graded(x))
      BY <2>1
    <3>3. PICK k \in Nat : k = P!Cardinality(P!Solved(x))
      BY <2>1
    <3>4. n > 0 => P!Empirical(n, k) \in Int
      BY <2>2
    <3>5. QED
      BY <3>1, <3>2, <3>3, <3>4 DEF Rating
  <2>4. ratings' \in [P!Exercises -> Rating]
    BY <2>3 DEF P!ComputeStats
  <2>5. QED
    BY <1>1, <2>4 DEF PracticeInv, PracticeTyping
<1>3. SessionInv'
  BY <1>1, IdleStep
<1>4. (\A c \in P!Concepts : Known(c))'
  BY <1>1, KnownStays DEF PracticeInv
<1>5. QED
  BY <1>2, <1>3, <1>4 DEF PracticeInv

LEMMA NextDayKeeps ==
    ASSUME PracticeInv, NEW d \in Absences, NEW pool \in Pools, P!NextDay(d, pool)
    PROVE  PracticeInv'
<1>1. /\ phase' = "none" /\ todo' = {} /\ slots' = << >> /\ boss' = None
      /\ UNCHANGED <<level, ratings, concept, answered>> /\ day' = day + d /\ live' = pool
  BY DEF P!NextDay, P!Goto, P!learned
<1>2. PracticeTyping'
  <2>1. day' \in Int
    BY <1>1, PracticeAssumption DEF PracticeInv, PracticeTyping
  <2>2. live' \subseteq P!Exercises /\ IsFiniteSet(live')
    BY <1>1, PracticeAssumption DEF P!Exercises
  <2>3. slots' \in Seq(live')
    BY <1>1
  <2>4. QED
    BY <1>1, <2>1, <2>2, <2>3 DEF PracticeInv, PracticeTyping
<1>3. P!Elements(slots)' = {} /\ P!Used' = {} /\ P!Length' = 0 /\ Len(slots') = 0
  BY <1>1 DEF P!Elements, P!Used, P!Length
<1>4. NoneTwice'
  BY <1>3, FS_EmptySet DEF NoneTwice
<1>5. SessionInv'
  BY <1>1, <1>3, <1>4, PracticeAssumption DEF SessionInv, InBandSoFar, DueInOrder, DueServed,
     Building
<1>6. (\A c \in P!Concepts : Known(c))'
  BY <1>1, KnownStays DEF PracticeInv
<1>7. QED
  BY <1>2, <1>5, <1>6 DEF PracticeInv

\* A row of user_concept_state, perhaps just made.
RowOrNew == [mastery : Mastery, attempts : Nat, correct : Nat, declined : Nat,
             due : Int \cup {None}, seen : Int \cup {None}]

Outcomes == {"correct", "incorrect", "skipped"}

One(b) == IF b THEN 1 ELSE 0

\* quantize rounds a mastery to a mastery.
LEMMA Quantized ==
    ASSUME NEW m \in Mastery
    PROVE  /\ P!Quantize(m * 85, 100) \in Mastery
           /\ P!Quantize(m * 7, 10) \in Mastery
           /\ P!Quantize(m * 7 + 3000, 10) \in Mastery
<1> USE DEF Mastery
<1>1. PICK a \in Int : a = m * 85 /\ 0 <= a /\ a <= 85000
  OBVIOUS
<1>2. PICK b \in Int : b = m * 7 /\ 0 <= b /\ b <= 7000
  OBVIOUS
<1>3. PICK c \in Int : c = m * 7 + 3000 /\ 0 <= c /\ c <= 10000
  OBVIOUS
<1>4. P!Quantize(a, 100) \in 0 .. 1000
  BY <1>1 DEF P!Quantize
<1>5. P!Quantize(b, 10) \in 0 .. 1000
  BY <1>2 DEF P!Quantize
<1>6. P!Quantize(c, 10) \in 0 .. 1000
  BY <1>3 DEF P!Quantize
<1>7. QED
  BY <1>1, <1>2, <1>3, <1>4, <1>5, <1>6

LEMMA UpdatesOfARow ==
    ASSUME NEW s \in RowOrNew, NEW a, NEW b, NEW c, NEW d, NEW e, NEW r,
           r = [[s EXCEPT !.seen = e] EXCEPT !.attempts = a, !.correct = b,
                                             !.mastery = c, !.due = d]
    PROVE  r = [i \in DOMAIN s |-> r[i]]
BY DEF RowOrNew

\* update_concept_state counts the answer and puts the next one off.
LEMMA PractisedIs ==
    ASSUME day \in Int, NEW s \in RowOrNew, NEW outcome \in Outcomes
    PROVE  \E r \in ConceptRow :
               /\ r = P!Practised(s, outcome)
               /\ r.attempts = s.attempts + One(outcome \in {"correct", "incorrect"})
               /\ r.correct = s.correct + One(outcome \in {"correct"})
               /\ r.declined = s.declined + One(outcome \in {"skipped"})
               /\ r.due > r.seen
<1>1. PICK m \in Mastery, a \in Nat, c \in Nat, e \in Nat, u \in Int \cup {None} :
          /\ m = s.mastery /\ a = s.attempts /\ c = s.correct /\ e = s.declined
          /\ u = s.due
  BY DEF RowOrNew
<1>2. /\ P!Quantize(m * 85, 100) \in Mastery
      /\ P!Quantize(m * 7, 10) \in Mastery
      /\ P!Quantize(m * 7 + 3000, 10) \in Mastery
  BY Quantized
<1>3. PICK skipped \in Mastery, wrong \in Mastery, right \in Mastery :
          /\ skipped = P!Quantize(m * 85, 100) /\ wrong = P!Quantize(m * 7, 10)
          /\ right = P!Quantize(m * 7 + 3000, 10)
  BY <1>2
<1> DEFINE old == [mastery |-> m, attempts |-> a, correct |-> c, declined |-> e, due |-> u,
                   seen |-> day]
<1>4. [s EXCEPT !.seen = day] = old
  BY <1>1 DEF RowOrNew
<1>5. CASE outcome = "skipped"
  <2>1. PICK n \in Nat : n = e + 1
    OBVIOUS
  <2>2. PICK due \in Int : due = day + 1 /\ due > day
    OBVIOUS
  <2>3. PICK r : r = [old EXCEPT !.declined = n, !.mastery = skipped, !.due = due]
    OBVIOUS
  <2>4. r = P!Practised(s, outcome)
    <3>1. P!Practised(s, outcome)
              = [[s EXCEPT !.seen = day] EXCEPT !.declined = s.declined + 1,
                                                !.mastery = P!Quantize(s.mastery * 85, 100),
                                                !.due = day + 1]
      BY <1>5 DEF P!Practised, RowOrNew, P!CONCEPT_INTERVAL_SKIPPED_DAYS
    <3>2. s.declined + 1 = n /\ day + 1 = due /\ P!Quantize(s.mastery * 85, 100) = skipped
      BY <1>1, <1>3, <2>1, <2>2
    <3> HIDE DEF old
    <3>3. QED
      BY <1>4, <2>3, <3>1, <3>2, Zenon
  <2>5. r \in ConceptRow
    BY <2>3, ZenonT(60) DEF ConceptRow
  <2>6. r.attempts = a /\ r.correct = c /\ r.declined = n /\ r.due = due /\ r.seen = day
    BY <2>3
  <2>7. /\ One(outcome \in {"correct", "incorrect"}) = 0 /\ One(outcome \in {"correct"}) = 0
        /\ One(outcome \in {"skipped"}) = 1
    BY <1>5 DEF One
  <2>8. QED
    BY <1>1, <2>1, <2>2, <2>4, <2>5, <2>6, <2>7
<1>6. CASE outcome = "incorrect"
  <2>1. PICK n \in Nat : n = a + 1
    OBVIOUS
  <2>2. PICK due \in Int : due = day + 2 /\ due > day
    OBVIOUS
  <2>3. PICK r : r = [old EXCEPT !.attempts = n, !.mastery = wrong, !.due = due]
    OBVIOUS
  <2>4. r = P!Practised(s, outcome)
    <3>1. P!Practised(s, outcome)
              = [[s EXCEPT !.seen = day] EXCEPT !.attempts = s.attempts + 1,
                                                !.mastery = P!Quantize(s.mastery * 7, 10),
                                                !.due = day + 2]
      BY <1>6 DEF P!Practised, RowOrNew, P!CONCEPT_INTERVAL_WRONG_DAYS
    <3>2. s.attempts + 1 = n /\ day + 2 = due /\ P!Quantize(s.mastery * 7, 10) = wrong
      BY <1>1, <1>3, <2>1, <2>2
    <3> HIDE DEF old
    <3>3. QED
      BY <1>4, <2>3, <3>1, <3>2, Zenon
  <2>5. r \in ConceptRow
    BY <2>3, ZenonT(60) DEF ConceptRow
  <2>6. r.attempts = n /\ r.correct = c /\ r.declined = e /\ r.due = due /\ r.seen = day
    BY <2>3
  <2>7. /\ One(outcome \in {"correct", "incorrect"}) = 1 /\ One(outcome \in {"correct"}) = 0
        /\ One(outcome \in {"skipped"}) = 0
    BY <1>6 DEF One
  <2>8. QED
    BY <1>1, <2>1, <2>2, <2>4, <2>5, <2>6, <2>7
<1>7. CASE outcome = "correct"
  <2> DEFINE n == s.attempts + 1
             k == s.correct + 1
             mastery == P!Quantize(s.mastery * 7 + 3000, 10)
             due == day + IF s.correct > 0 THEN 21 ELSE 7
  <2>1. PICK r : r = P!Practised(s, outcome)
    OBVIOUS
  <2>2. r = [[s EXCEPT !.seen = day] EXCEPT !.attempts = n, !.correct = k,
                                            !.mastery = mastery, !.due = due]
    BY <1>7, <2>1 DEF P!Practised, RowOrNew, P!CONCEPT_INTERVAL_RIGHT_DAYS,
       P!CONCEPT_INTERVAL_RIGHT_AGAIN_DAYS
  <2>3. /\ n \in Nat /\ k \in Nat /\ mastery \in Mastery /\ due \in Int /\ due > day
        /\ n = a + 1 /\ k = c + 1
    BY <1>1, <1>3
  <2> HIDE DEF n, k, mastery, due, old
  <2>4. /\ r.attempts = n /\ r.correct = k /\ r.mastery = mastery /\ r.due = due
        /\ r.declined = e /\ r.seen = day
    BY <1>1, <2>2 DEF RowOrNew
  <2>5. r = [i \in DOMAIN s |-> r[i]]
    BY <2>2, UpdatesOfARow
  <2>6. r \in ConceptRow
    <3>1. r = [mastery |-> r.mastery, attempts |-> r.attempts, correct |-> r.correct,
               declined |-> r.declined, due |-> r.due, seen |-> r.seen]
      BY <2>5 DEF RowOrNew
    <3>2. r = [mastery |-> mastery, attempts |-> n, correct |-> k, declined |-> e,
               due |-> due, seen |-> day]
      BY <2>4, <3>1
    <3>3. QED
      BY <2>3, <3>2 DEF ConceptRow
  <2>7. /\ One(outcome \in {"correct", "incorrect"}) = 1 /\ One(outcome \in {"correct"}) = 1
        /\ One(outcome \in {"skipped"}) = 0
    BY <1>7 DEF One
  <2>8. QED
    BY <1>1, <2>1, <2>3, <2>4, <2>6, <2>7
<1>8. QED
  BY <1>5, <1>6, <1>7 DEF Outcomes

\* An answer counts where its concept and its outcome do.
LEMMA OneMoreAnswer ==
    ASSUME IsFiniteSet(answered), NEW a, a \notin answered, answered' = answered \cup {a},
           NEW c, NEW outcomes
    PROVE  /\ P!OnConcept(c, outcomes) \in Nat
           /\ P!OnConcept(c, outcomes)'
                  = P!OnConcept(c, outcomes) + One(c \in Covers[a.exercise] /\ a.outcome \in outcomes)
<1> DEFINE Matches(b) == c \in Covers[b.exercise] /\ b.outcome \in outcomes
           counted == {b \in answered : Matches(b)}
<1>1. IsFiniteSet(counted) /\ a \notin counted
  BY FS_Subset
<1>2. Cardinality(counted) \in Nat /\ P!OnConcept(c, outcomes) = Cardinality(counted)
  BY <1>1, FS_CardinalityType, SameCardinality DEF P!OnConcept
<1>3. P!OnConcept(c, outcomes)' = Cardinality({b \in answered \cup {a} : Matches(b)})
  <2>1. P!OnConcept(c, outcomes)' = P!Cardinality({b \in answered' : Matches(b)})
    BY DEF P!OnConcept, P!Cardinality, P!IsFiniteSet
  <2>2. QED
    BY <2>1, SameCardinality
<1>4. CASE Matches(a)
  <2>1. {b \in answered \cup {a} : Matches(b)} = counted \cup {a}
    BY <1>4
  <2>2. Cardinality(counted \cup {a}) = Cardinality(counted) + 1
    BY <1>1, FS_AddElement
  <2>3. One(c \in Covers[a.exercise] /\ a.outcome \in outcomes) = 1
    BY <1>4 DEF One
  <2>4. QED
    BY <1>2, <1>3, <2>1, <2>2, <2>3
<1>5. CASE ~Matches(a)
  <2>1. {b \in answered \cup {a} : Matches(b)} = counted
    BY <1>5
  <2>2. One(c \in Covers[a.exercise] /\ a.outcome \in outcomes) = 0
    BY <1>5 DEF One
  <2>3. PICK k \in Nat : k = Cardinality(counted)
    BY <1>2
  <2>4. P!OnConcept(c, outcomes) = k /\ P!OnConcept(c, outcomes)' = k
    BY <1>2, <1>3, <2>1, <2>3
  <2>5. k = k + 0
    OBVIOUS
  <2>6. QED
    BY <2>2, <2>4, <2>5
<1>6. QED
  BY <1>4, <1>5

LEMMA AnswerKeeps ==
    ASSUME PracticeInv, NEW x \in P!Exercises, NEW outcome \in Outcomes, P!Answer(x, outcome)
    PROVE  PracticeInv'
<1> DEFINE a == [exercise |-> x, day |-> day, outcome |-> outcome]
           Old(c) == IF concept[c] = None THEN P!NewState ELSE concept[c]
<1>1. /\ phase \in {"none", "served"} /\ UNCHANGED <<phase, todo, slots, boss>>
      /\ UNCHANGED <<day, level, live, ratings>>
      /\ answered' = answered \cup {a}
      /\ concept' = [c \in P!Concepts |-> IF c \notin Covers[x] THEN concept[c]
                                          ELSE P!Practised(Old(c), outcome)]
  BY DEF P!Answer, P!build
<1>2. a \notin answered /\ a \in AnswerRow
  <2>1. day \in Int /\ \A b \in answered : b.exercise = x => b.day # day
    BY DEF P!Answer, PracticeInv, PracticeTyping
  <2>2. QED
    BY <2>1 DEF AnswerRow, Outcomes
<1>3. ASSUME NEW c \in P!Concepts
      PROVE  concept[c] \in ConceptRow \cup {None} /\ Old(c) \in RowOrNew
  <2>1. concept[c] \in ConceptRow \cup {None}
    BY DEF PracticeInv, PracticeTyping
  <2>2. P!NewState \in RowOrNew
    BY DEF P!NewState, RowOrNew, Mastery
  <2>3. ConceptRow \subseteq RowOrNew
    BY DEF ConceptRow, RowOrNew
  <2>4. QED
    BY <2>1, <2>2, <2>3
<1>4. ASSUME NEW c \in P!Concepts, c \in Covers[x]
      PROVE  /\ concept'[c] \in ConceptRow
             /\ concept'[c].attempts = Old(c).attempts + One(outcome \in {"correct", "incorrect"})
             /\ concept'[c].correct = Old(c).correct + One(outcome \in {"correct"})
             /\ concept'[c].declined = Old(c).declined + One(outcome \in {"skipped"})
             /\ concept'[c].due > concept'[c].seen
  <2>1. concept'[c] = P!Practised(Old(c), outcome)
    BY <1>1, <1>4
  <2>2. day \in Int /\ Old(c) \in RowOrNew
    BY <1>3 DEF PracticeInv, PracticeTyping
  <2> HIDE DEF Old
  <2>3. QED
    BY <2>1, <2>2, PractisedIs
<1>5. PracticeTyping'
  <2>1. concept' \in [P!Concepts -> ConceptRow \cup {None}]
    <3>1. ASSUME NEW c \in P!Concepts PROVE concept'[c] \in ConceptRow \cup {None}
      BY <1>1, <1>3, <1>4
    <3>2. QED
      BY <1>1, <3>1
  <2>2. answered' \subseteq AnswerRow /\ IsFiniteSet(answered')
    BY <1>1, <1>2, FS_AddElement DEF PracticeInv, PracticeTyping
  <2>3. QED
    BY <1>1, <2>1, <2>2 DEF PracticeInv, PracticeTyping
<1>6. SessionInv'
  BY <1>1, IdleStep
<1>7. ASSUME NEW c \in P!Concepts PROVE Known(c)'
  <2>1. Known(c) /\ IsFiniteSet(answered)
    BY DEF PracticeInv, PracticeTyping
  <2>2. ASSUME NEW outcomes
        PROVE  /\ P!OnConcept(c, outcomes) \in Nat
               /\ P!OnConcept(c, outcomes)'
                      = P!OnConcept(c, outcomes) + One(c \in Covers[x] /\ outcome \in outcomes)
    BY <1>1, <1>2, <2>1, OneMoreAnswer
  <2>3. CASE c \notin Covers[x]
    <3>1. ASSUME NEW outcomes PROVE P!OnConcept(c, outcomes)' = P!OnConcept(c, outcomes)
      BY <2>2, <2>3 DEF One
    <3>2. concept'[c] = concept[c]
      BY <1>1, <2>3
    <3>3. QED
      BY <2>1, <3>1, <3>2 DEF Known
  <2>4. CASE c \in Covers[x]
    <3>1. concept'[c] # None
      <4>1. None \notin ConceptRow
        BY PracticeAssumption, Zenon DEF ConceptRow, Mastery
      <4>2. QED
        BY <1>4, <2>4, <4>1
    <3>2. ASSUME NEW outcomes
          PROVE  P!OnConcept(c, outcomes)' = P!OnConcept(c, outcomes) + One(outcome \in outcomes)
      BY <2>2, <2>4 DEF One
    <3>3. /\ Old(c).attempts = P!OnConcept(c, {"correct", "incorrect"})
          /\ Old(c).correct = P!OnConcept(c, {"correct"})
          /\ Old(c).declined = P!OnConcept(c, {"skipped"})
      <4>1. CASE concept[c] # None
        BY <2>1, <4>1 DEF Known
      <4>2. CASE concept[c] = None
        <5>1. P!OnConcept(c, {"correct", "incorrect", "skipped"}) = 0
          BY <2>1, <4>2 DEF Known
        <5>2. ASSUME NEW outcomes, outcomes \subseteq {"correct", "incorrect", "skipped"}
              PROVE  P!OnConcept(c, outcomes) = 0
          <6> DEFINE all == {b \in answered : c \in Covers[b.exercise]
                                /\ b.outcome \in {"correct", "incorrect", "skipped"}}
                     some == {b \in answered : c \in Covers[b.exercise] /\ b.outcome \in outcomes}
          <6>1. some \subseteq all /\ IsFiniteSet(all)
            BY <2>1, <5>2, FS_Subset
          <6>2. Cardinality(some) <= Cardinality(all) /\ Cardinality(some) \in Nat
            BY <6>1, FS_Subset, FS_CardinalityType
          <6>3. Cardinality(all) = 0 /\ P!OnConcept(c, outcomes) = Cardinality(some)
            BY <5>1, SameCardinality DEF P!OnConcept
          <6>4. QED
            BY <6>2, <6>3
        <5>3. Old(c) = P!NewState
          BY <4>2
        <5>4. QED
          BY <5>2, <5>3 DEF P!NewState
      <4>3. QED
        BY <4>1, <4>2
    <3>4. /\ concept'[c].attempts = P!OnConcept(c, {"correct", "incorrect"})'
          /\ concept'[c].correct = P!OnConcept(c, {"correct"})'
          /\ concept'[c].declined = P!OnConcept(c, {"skipped"})'
          /\ concept'[c].due > concept'[c].seen
      BY <1>4, <2>4, <3>2, <3>3
    <3>5. QED
      BY <3>1, <3>4 DEF Known
  <2>5. QED
    BY <2>3, <2>4
<1>8. (\A c \in P!Concepts : Known(c))'
  <2>1. P!Concepts' = P!Concepts
    BY DEF P!Concepts, P!Exercises
  <2>2. QED
    BY <1>7, <2>1
<1>9. QED
  BY <1>5, <1>6, <1>8 DEF PracticeInv

LEMMA PracticeBegins == P!Init => PracticeInv
<1> SUFFICES ASSUME P!Init PROVE PracticeInv
  OBVIOUS
<1>1. /\ day = 0 /\ level = "junior" /\ live \in Pools
      /\ ratings = [x \in P!Exercises |-> [n |-> 0, empirical |-> None]]
      /\ concept = [c \in P!Concepts |-> None] /\ answered = {}
      /\ phase = "none" /\ todo = {} /\ slots = << >> /\ boss = None
  BY DEF P!Init
<1>2. PracticeTyping
  <2>1. live \subseteq P!Exercises /\ IsFiniteSet(live)
    BY <1>1, PracticeAssumption DEF P!Exercises
  <2>2. ratings \in [P!Exercises -> Rating]
    BY <1>1 DEF Rating
  <2>3. concept \in [P!Concepts -> ConceptRow \cup {None}]
    BY <1>1
  <2>4. IsFiniteSet(answered) /\ answered \subseteq AnswerRow /\ slots \in Seq(live)
    BY <1>1, FS_EmptySet
  <2>5. QED
    BY <1>1, <2>1, <2>2, <2>3, <2>4 DEF PracticeTyping
<1>3. SessionInv
  <2>1. P!Elements(slots) = {} /\ P!Used = {} /\ P!Length = 0 /\ Len(slots) = 0
    BY <1>1 DEF P!Elements, P!Used, P!Length
  <2>2. NoneTwice
    BY <2>1, FS_EmptySet DEF NoneTwice
  <2>3. QED
    BY <1>1, <2>1, <2>2, PracticeAssumption DEF SessionInv, InBandSoFar, DueInOrder, DueServed,
       Building
<1>4. ASSUME NEW c \in P!Concepts PROVE Known(c)
  <2>1. concept[c] = None
    BY <1>1
  <2>2. P!OnConcept(c, {"correct", "incorrect", "skipped"}) = Cardinality({})
    <3>1. {b \in answered : c \in Covers[b.exercise]
             /\ b.outcome \in {"correct", "incorrect", "skipped"}} = {}
      BY <1>1
    <3>2. QED
      BY <3>1, SameCardinality DEF P!OnConcept
  <2>3. QED
    BY <2>1, <2>2, FS_EmptySet DEF Known
<1>5. QED
  BY <1>2, <1>3, <1>4 DEF PracticeInv

LEMMA PracticeIsInductive == PracticeInv /\ [P!Next]_(P!vars) => PracticeInv'
<1> SUFFICES ASSUME PracticeInv, [P!Next]_(P!vars) PROVE PracticeInv'
  OBVIOUS
<1>1. CASE P!StartBuild
  BY <1>1, StartBuildKeeps
<1>2. CASE P!PickDue
  BY <1>2, PickDueKeeps
<1>3. CASE P!DueDone
  BY <1>3, DueDoneKeeps
<1>4. CASE P!PickFill
  BY <1>4, PickFillKeeps
<1>5. CASE P!FillDone
  BY <1>5, FillDoneKeeps
<1>6. CASE P!PickBoss
  BY <1>6, PickBossKeeps
<1>7. CASE P!PickPad
  BY <1>7, PickPadKeeps
<1>8. CASE P!PadDone
  BY <1>8, PadDoneKeeps
<1>9. CASE P!Serve
  BY <1>9, ServeKeeps
<1>10. CASE \E x \in P!Exercises, o \in {"correct", "incorrect", "skipped"} : P!Answer(x, o)
  BY <1>10, AnswerKeeps DEF Outcomes
<1>11. CASE P!ComputeStats
  BY <1>11, ComputeStatsKeeps
<1>12. CASE \E l \in DOMAIN P!LEVEL_BANDS : P!ChangeLevel(l)
  BY <1>12, ChangeLevelKeeps
<1>13. CASE \E d \in Absences, pool \in Pools : P!NextDay(d, pool)
  BY <1>13, NextDayKeeps
<1>14. CASE UNCHANGED P!vars
  <2>1. UNCHANGED Read /\ UNCHANGED <<phase, todo, slots, boss>>
    BY <1>14 DEF P!vars, Read
  <2>2. SessionInv'
    <3>1. SessionInv
      BY DEF PracticeInv
    <3>2. /\ DueInOrder' <=> DueInOrder
          /\ DueServed' <=> DueServed
          /\ InBandSoFar' <=> InBandSoFar
          /\ OutOfBandToTheFloor' <=> OutOfBandToTheFloor
          /\ P!WantsPad' <=> P!WantsPad
      BY <2>1, SameSession, BuildSees
         DEF DueInOrder, DueServed, InBandSoFar, OutOfBandToTheFloor, P!WantsPad, Read
    <3>3. QED
      BY <2>1, <3>1, <3>2, SameSession DEF SessionInv, Building
  <2>3. QED
    BY <2>1, <2>2, BuildStep DEF PracticeInv, PracticeTyping
<1>15. QED
  BY <1>1, <1>2, <1>3, <1>4, <1>5, <1>6, <1>7, <1>8, <1>9, <1>10, <1>11, <1>12, <1>13, <1>14
     DEF P!Next

(* The daily practice.  A finished session never has an exercise twice,    *)
(* reaches the floor when enough is live, and leaves the user's band only  *)
(* to reach it; a due concept that can be practised is, unless the slots   *)
(* went to concepts due as long; an exercise seen lately comes back only   *)
(* where nothing else is left; and user_concept_state counts exactly what  *)
(* was answered (sampler.py build_session_slots, attempts/service.py       *)
(* update_concept_state).                                                  *)
THEOREM PracticeHolds == P!Spec => []PracticeIsSound
BY PracticeBegins, PracticeIsInductive, BuiltIsSound, PTL DEF P!Spec

(* What the build takes is live, and a mastery is between nothing and all.  *)
THEOREM PracticeIsTyped == P!Spec => []P!TypeOK
<1>1. PracticeInv => P!TypeOK
  <2> SUFFICES ASSUME PracticeInv PROVE P!TypeOK
    OBVIOUS
  <2>1. level \in DOMAIN P!LEVEL_BANDS /\ live \subseteq P!Exercises
    BY DEF PracticeInv, PracticeTyping, P!LEVEL_BANDS
  <2>2. ASSUME NEW c \in P!Concepts, concept[c] # None
        PROVE  concept[c].mastery \in 0 .. 1000
    <3>1. concept \in [P!Concepts -> ConceptRow \cup {None}]
      BY DEF PracticeInv, PracticeTyping
    <3>2. concept[c] \in ConceptRow
      BY <2>2, <3>1, Zenon
    <3>3. PICK r \in ConceptRow : r = concept[c]
      BY <3>2
    <3>4. r.mastery \in 0 .. 1000
      BY DEF ConceptRow, Mastery
    <3>5. QED
      BY <3>3, <3>4
  <2>3. P!Elements(slots) \cup ({boss} \ {None}) \subseteq live
    <3>1. slots \in Seq(live) /\ boss \in live \cup {None}
      BY DEF PracticeInv, PracticeTyping
    <3>2. \A i \in DOMAIN slots : slots[i] \in live
      BY <3>1
    <3>3. QED
      BY <3>1, <3>2 DEF P!Elements
  <2>4. QED
    BY <2>1, <2>2, <2>3 DEF P!TypeOK
<1>2. QED
  BY PracticeBegins, PracticeIsInductive, <1>1, PTL DEF P!Spec
=============================================================================
