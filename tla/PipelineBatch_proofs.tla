------------------------- MODULE PipelineBatch_proofs -------------------------
(***************************************************************************)
(* Theorems about PipelineBatch, for any set of codes, diffs and opinions, *)
(* any budget and any history.                                             *)
(*   SpendingIsBounded     Spec => []BatchIsBounded                        *)
(*   OnlyProvenIsPublished Spec => []PublishedIsProven                     *)
(*   CodeIsListedOnce      Spec => []NoTwins                               *)
(*   CrashCostsOneSpec     Spec => []OnlyInFlightLost                      *)
(* Inv0 is the shape of the state: what is flushed in which phase, and how *)
(* many specs a run may still draw.  Each theorem adds one invariant to    *)
(* it: what was asked for the lineage in hand (Spend), what its survivors  *)
(* went through (Earned), what the dedup pool of the process holds         *)
(* (Distinct), and what the report of the run counts (Ledger).  The table  *)
(* is read together with the rows flushed and not committed, which makes   *)
(* a commit invisible to all four: TableSteps lists the only ways in which *)
(* rows \o tx ever changes.                                                *)
(***************************************************************************)
EXTENDS PipelineBatch, SequenceTheorems, FiniteSetTheorems, WellFoundedInduction, TLAPS

-----------------------------------------------------------------------------
(* Least and greatest.                                                     *)

\* Numbers are well-founded, so a set of them has a least element.
LEMMA NatWellFounded == IsWellFoundedOn({ss \in Nat \X Nat : ss[1] < ss[2]}, Nat)
BY NatLessThanWellFounded DEF OpToRel

\* A set of numbers has a least element.
LEMMA LeastNat ==
    ASSUME NEW S \in SUBSET Nat, S # {}
    PROVE  \E m \in S : \A k \in S : m <= k
<1> DEFINE R == {ss \in Nat \X Nat : ss[1] < ss[2]}
<1>1. PICK m \in S : \A k \in S : <<k, m>> \notin R
  BY NatWellFounded, WFMin
<1>2. ASSUME NEW k \in S PROVE m <= k
  <2>1. ~ (k < m)
    BY <1>1
  <2>2. QED
    BY <2>1
<1>3. QED
  BY <1>2

\* Min of a set of numbers is one of them.
LEMMA MinOfNats == ASSUME NEW S \in SUBSET Nat, S # {} PROVE Min(S) \in S
<1>1. \E m \in S : \A k \in S : m <= k
  BY LeastNat
<1>2. QED
  BY <1>1 DEF Min

\* The greater of two numbers is one of them and no less than either.
LEMMA MaxOfTwo ==
    ASSUME NEW a \in Int, NEW b \in Int
    PROVE  Max({a, b}) \in {a, b} /\ a <= Max({a, b}) /\ b <= Max({a, b})
<1>1. \E m \in {a, b} : \A k \in {a, b} : m >= k
  OBVIOUS
<1>2. Max({a, b}) \in {a, b} /\ \A k \in {a, b} : Max({a, b}) >= k
  BY <1>1 DEF Max
<1>3. QED
  BY <1>2

\* The smaller of two numbers is one of them and no more than either.
LEMMA MinOfTwo ==
    ASSUME NEW a \in Int, NEW b \in Int
    PROVE  Min({a, b}) \in {a, b} /\ Min({a, b}) <= a /\ Min({a, b}) <= b
<1>1. \E m \in {a, b} : \A k \in {a, b} : m <= k
  OBVIOUS
<1>2. Min({a, b}) \in {a, b} /\ \A k \in {a, b} : Min({a, b}) <= k
  BY <1>1 DEF Min
<1>3. QED
  BY <1>2

-----------------------------------------------------------------------------
(* What a candidate is that passes the gates.                              *)

\* The code the user reads, and what running it showed.
CodeHolds(c) == c.static = {} /\ c.alone = "pass" /\ c.stable

KeyHolds(c, hasBug, o) ==
    /\ c.fixedTest = "pass"
    /\ o.audit.ok /\ o.reasons.partly = {} /\ o.reasons.correct = {c.key}
    /\ IF hasBug
       THEN /\ c.buggyTest = "assert" /\ c.claims # "wrong"
            /\ c.diff # {} /\ Cardinality(o.audit.defects) <= 1
            /\ 5 * (Cardinality(c.diff) - 1) < Max({21, c.size})
       ELSE c.buggyTest = "pass" /\ c.fix = "same"

\* fix_diff_real_and_minimal
LEMMA CapIsAFifth ==
    ASSUME NEW lines \in Nat, NEW n \in Nat, n <= RewriteCap(lines)
    PROVE  5 * (n - 1) < Max({21, lines})
<1>1. PICK d \in Int : d = (lines + 4) \div 5 /\ 5 * d <= lines + 4
  OBVIOUS
<1>2. 5 \in Int /\ 21 \in Int /\ lines \in Int
  OBVIOUS
<1>3. Max({5, d}) \in {5, d}
  BY <1>1, <1>2, MaxOfTwo
<1>4. n <= 5 \/ n <= d
  BY <1>1, <1>3 DEF RewriteCap
<1>5. 21 <= Max({21, lines}) /\ lines <= Max({21, lines}) /\ Max({21, lines}) \in {21, lines}
  BY <1>2, MaxOfTwo
<1>6. QED
  BY <1>1, <1>2, <1>4, <1>5

\* Checks of two lists that all passed, passed in each.
LEMMA ConcatPasses ==
    ASSUME NEW S, NEW s \in Seq(S), NEW t \in Seq(S), Failing(s \o t) = {}
    PROVE  Failing(s) = {} /\ Failing(t) = {}
<1>1. /\ s \o t \in Seq(S) /\ Len(s \o t) = Len(s) + Len(t)
      /\ Len(s) \in Nat /\ Len(t) \in Nat
      /\ DOMAIN s = 1 .. Len(s) /\ DOMAIN t = 1 .. Len(t)
      /\ \A i \in 1 .. Len(s) + Len(t) :
             (s \o t)[i] = IF i <= Len(s) THEN s[i] ELSE t[i - Len(s)]
  BY ConcatProperties, LenProperties
<1>2. \A i \in 1 .. Len(s) + Len(t) : (s \o t)[i].passed
  BY <1>1, LenProperties DEF Failing
<1>3. \A i \in DOMAIN s : s[i].passed
  BY <1>1, <1>2
<1>4. ASSUME NEW i \in DOMAIN t PROVE t[i].passed
  <2>1. i + Len(s) \in 1 .. Len(s) + Len(t) /\ ~(i + Len(s) <= Len(s)) /\ i + Len(s) - Len(s) = i
    BY <1>1
  <2>2. (s \o t)[i + Len(s)] = t[i]
    BY <1>1, <2>1
  <2>3. QED
    BY <1>2, <2>1, <2>2
<1>5. QED
  BY <1>3, <1>4 DEF Failing

\* Nothing failed.
LEMMA AllChecksPass ==
    ASSUME NEW c \in STBCandidate \cup TraceCandidate, NEW hasBug \in BOOLEAN,
           Failing(SandboxChecks(c, hasBug)) = {}
    PROVE  /\ c.type = STB =>
                  /\ c.fixedTest = "pass" /\ c.alone = "pass" /\ c.stable
                  /\ hasBug => /\ c.buggyTest = "assert" /\ c.diff # {}
                               /\ Cardinality(c.diff) <= RewriteCap(c.size)
                               /\ c.claims # "none" => c.claims = "right"
                  /\ ~hasBug => c.buggyTest = "pass" /\ c.fix = "same"
           /\ c.type # STB =>
                  c.alone = "pass" /\ c.stable /\ c.claims = "right" /\ c.distinct
<1>1. CASE c.type = STB
  <2>1. PICK a : a = IF hasBug THEN Check("buggy_fails_test", c.buggyTest = "assert")
                     ELSE Check("buggy_passes_test_when_no_bug", c.buggyTest = "pass")
    OBVIOUS
  <2>2. PICK b : b = Check("fixed_passes_test", c.fixedTest = "pass")
    OBVIOUS
  <2>3. PICK d : d = Check("buggy_runs_clean", c.alone = "pass")
    OBVIOUS
  <2>4. PICK e : e = Check("deterministic_double_run", c.stable)
    OBVIOUS
  <2>5. PICK f : f = Check("fix_diff_real_and_minimal",
                           IF hasBug THEN c.diff # {} /\ Cardinality(c.diff) <= RewriteCap(c.size)
                                     ELSE c.fix = "same" /\ c.declared = {})
    OBVIOUS
  <2>6. PICK g : g = Check("stb_claim_matches_execution", c.claims = "right")
    OBVIOUS
  <2> DEFINE S == {a, b, d, e, f, g}
             tail == IF hasBug /\ c.claims # "none" THEN << g >> ELSE << >>
  <2>7. SandboxChecks(c, hasBug) = <<a, b, d, e, f>> \o tail
    BY <1>1, <2>1, <2>2, <2>3, <2>4, <2>5, <2>6 DEF SandboxChecks, STBChecks
  <2>8. <<a, b, d, e, f>> \in Seq(S) /\ tail \in Seq(S)
    <3>1. <<a, b, d, e, f>> \in Seq(S)
      OBVIOUS
    <3>2. << g >> \in Seq(S)
      OBVIOUS
    <3>3. << >> \in Seq(S)
      OBVIOUS
    <3>4. QED
      BY <3>1, <3>2, <3>3
  <2>9. Failing(<<a, b, d, e, f>>) = {} /\ Failing(tail) = {}
    BY <2>7, <2>8, ConcatPasses
  <2>10. a.passed /\ b.passed /\ d.passed /\ e.passed /\ f.passed
    BY <2>9 DEF Failing
  <2>11. hasBug /\ c.claims # "none" => g.passed
    BY <2>9 DEF Failing
  <2>12. /\ c.fixedTest = "pass" /\ c.alone = "pass" /\ c.stable
         /\ g.passed => c.claims = "right"
    BY <2>2, <2>3, <2>4, <2>6, <2>10 DEF Check
  <2>13. IF hasBug THEN c.buggyTest = "assert" ELSE c.buggyTest = "pass"
    BY <2>1, <2>10 DEF Check
  <2>14. IF hasBug THEN c.diff # {} /\ Cardinality(c.diff) <= RewriteCap(c.size)
                   ELSE c.fix = "same" /\ c.declared = {}
    BY <2>5, <2>10 DEF Check
  <2>15. QED
    BY <1>1, <2>11, <2>12, <2>13, <2>14
<1>2. CASE c.type # STB
  <2>1. PICK a : a = Check("code_runs_clean", c.alone = "pass")
    OBVIOUS
  <2>2. PICK b : b = Check("deterministic_double_run", c.stable)
    OBVIOUS
  <2>3. PICK d : d = Check("captured_output_matches_claim", c.claims = "right")
    OBVIOUS
  <2>4. PICK e : e = Check("captured_output_distinct_from_distractors", c.distinct)
    OBVIOUS
  <2>5. SandboxChecks(c, hasBug) = <<a, b, d, e>>
    BY <1>2, <2>1, <2>2, <2>3, <2>4 DEF SandboxChecks, TraceChecks
  <2>6. a.passed /\ b.passed /\ d.passed /\ e.passed
    BY <2>5 DEF Failing
  <2>7. QED
    BY <1>2, <2>1, <2>2, <2>3, <2>4, <2>6 DEF Check
<1>3. QED
  BY <1>1, <1>2

\* A survivor: every gate passed, whatever the number of repairs.
LEMMA SurvivorHolds ==
    ASSUME NEW c \in Candidates, NEW hasBug \in BOOLEAN, NEW o \in Opinions, NEW seen,
           Verdict(c, hasBug, o, seen) = NoRejection
    PROVE  /\ CodeHolds(c) /\ c.code \notin seen
           /\ c.type = STB => KeyHolds(c, hasBug, o)
           /\ c.type # STB => c.claims = "right" /\ c.distinct
<1>1. c \in STBCandidate \cup TraceCandidate /\ o \in Opinion
  BY PipelineAssumption
<1>2. c.static = {}
  BY DEF Verdict, StaticAccepts, ClassifyStatic, NoRejection, Rejection
<1>3. Failing(SandboxChecks(c, hasBug)) = {}
  BY <1>2 DEF Verdict, StaticAccepts, ClassifySandbox, NoRejection, Rejection
<1>4. SemanticReject(c, hasBug, o) = "" /\ c.code \notin seen
  BY <1>2, <1>3 DEF Verdict, StaticAccepts, ClassifyFundamental, NoRejection, Rejection, Duplicate
<1>5. CodeHolds(c) /\ (c.type # STB => c.claims = "right" /\ c.distinct)
  BY <1>1, <1>2, <1>3, AllChecksPass DEF CodeHolds
<1>6. ASSUME c.type = STB PROVE KeyHolds(c, hasBug, o)
  <2>1. /\ DefectAudit(o.audit, hasBug, VerifiedLines(c, hasBug)) # "reject"
        /\ ReasonsGate(o.reasons, c) # "reject"
    BY <1>4, <1>6 DEF SemanticReject
  <2>2. o.audit.ok /\ (hasBug => o.audit.defects = {} \/ Cardinality(o.audit.defects) = 1)
    BY <2>1 DEF DefectAudit
  <2>3. o.reasons.partly = {} /\ o.reasons.correct = {c.key}
    BY <2>1 DEF ReasonsGate
  <2>4. hasBug => Cardinality(o.audit.defects) <= 1
    BY <2>2, FS_EmptySet
  <2>5. c.size \in Nat /\ Cardinality(c.diff) \in Nat /\ c.claims \in {"none", "right", "wrong"}
    <3>1. c \in STBCandidate
      BY <1>1, <1>6 DEF TraceCandidate, STB, TRACE
    <3>2. QED
      BY <1>6, <3>1, PipelineAssumption, FS_CardinalityType DEF STBCandidate
  <2>6. hasBug => /\ c.buggyTest = "assert" /\ c.diff # {} /\ c.claims # "wrong"
                  /\ Cardinality(c.diff) <= RewriteCap(c.size)
    BY <1>1, <1>3, <1>6, <2>5, AllChecksPass
  <2>7. hasBug => 5 * (Cardinality(c.diff) - 1) < Max({21, c.size})
    BY <2>5, <2>6, CapIsAFifth
  <2>8. QED
    BY <1>1, <1>3, <1>6, <2>2, <2>3, <2>4, <2>6, <2>7, AllChecksPass DEF KeyHolds
<1>7. QED
  BY <1>4, <1>5, <1>6

\* The indices of the failed checks are numbers.
LEMMA ChecksAreNumbered == ASSUME NEW c, NEW hasBug
    PROVE  DOMAIN SandboxChecks(c, hasBug) \subseteq Nat
<1>1. DOMAIN TraceChecks(c) \subseteq Nat
  BY DEF TraceChecks
<1>2. DOMAIN STBChecks(c, hasBug) \subseteq Nat
  <2>1. PICK a, b, d, e, f, g :
            /\ a = IF hasBug THEN Check("buggy_fails_test", c.buggyTest = "assert")
                   ELSE Check("buggy_passes_test_when_no_bug", c.buggyTest = "pass")
            /\ b = Check("fixed_passes_test", c.fixedTest = "pass")
            /\ d = Check("buggy_runs_clean", c.alone = "pass")
            /\ e = Check("deterministic_double_run", c.stable)
            /\ f = Check("fix_diff_real_and_minimal",
                         IF hasBug THEN c.diff # {} /\ Cardinality(c.diff) <= RewriteCap(c.size)
                                   ELSE c.fix = "same" /\ c.declared = {})
            /\ g = Check("stb_claim_matches_execution", c.claims = "right")
    OBVIOUS
  <2> DEFINE S == {a, b, d, e, f, g}
             tail == IF hasBug /\ c.claims # "none" THEN << g >> ELSE << >>
  <2>2. <<a, b, d, e, f>> \in Seq(S) /\ << g >> \in Seq(S) /\ << >> \in Seq(S)
    OBVIOUS
  <2>3. tail \in Seq(S)
    BY <2>2
  <2>4. <<a, b, d, e, f>> \o tail \in Seq(S)
    BY <2>2, <2>3, ConcatProperties
  <2>5. STBChecks(c, hasBug) = <<a, b, d, e, f>> \o tail
    BY <2>1 DEF STBChecks
  <2>6. QED
    BY <2>4, <2>5, LenProperties
<1>3. QED
  BY <1>1, <1>2 DEF SandboxChecks

\* Only what may be repaired is called repairable.
LEMMA RepairableIsNamed ==
    ASSUME NEW c, NEW hasBug, NEW o, NEW seen, Verdict(c, hasBug, o, seen).repairable
    PROVE  Verdict(c, hasBug, o, seen).check \in RepairableChecks
<1> DEFINE checks == SandboxChecks(c, hasBug)
<1>1. CASE ~StaticAccepts(c)
  BY <1>1 DEF Verdict, ClassifyStatic, Rejection, RepairableChecks
<1>2. CASE StaticAccepts(c) /\ Failing(checks) # {}
  <2>1. Verdict(c, hasBug, o, seen) = ClassifySandbox(checks)
    BY <1>2 DEF Verdict
  <2>2. \A i \in Failing(checks) : checks[i].name \in RepairableChecks
    BY <2>1 DEF ClassifySandbox, Rejection
  <2>3. Failing(checks) \in SUBSET Nat
    BY ChecksAreNumbered DEF Failing
  <2>4. QED
    BY <1>2, <2>1, <2>2, <2>3, MinOfNats DEF ClassifySandbox, Rejection
<1>3. CASE StaticAccepts(c) /\ Failing(checks) = {}
  BY <1>3 DEF Verdict, ClassifyFundamental, NoRejection, Rejection
<1>4. QED
  BY <1>1, <1>2, <1>3

\* The wrong fixes of a predict_the_fix all fail its parent's test.
LEMMA PTFHolds ==
    ASSUME NEW c \in Candidates, NEW w \in WrongFixSets, PTFAccepts(c, w)
    PROVE  w.static /\ \A i \in DOMAIN w.outcomes : w.outcomes[i] = "assert"
<1>1. w.outcomes \in Seq(Outcomes) /\ w.static
  BY PipelineAssumption DEF WrongFixes, PTFAccepts
<1>2. PICK a, b, d, e : /\ a = Check("correct_fix_passes_test", c.fixedTest = "pass")
                        /\ b = Check("buggy_fails_test", c.buggyTest = "assert")
                        /\ d = Check("deterministic_double_run", w.stable)
                        /\ e = Check("distractors_distinct", w.distinct)
  OBVIOUS
<1> DEFINE n == Len(w.outcomes)
           middle == [i \in DOMAIN w.outcomes |->
                          Check("distractor_still_fails_test", w.outcomes[i] = "assert")]
           S == {a, b, d, e} \cup {middle[i] : i \in 1 .. n}
<1>3. n \in Nat /\ DOMAIN w.outcomes = 1 .. n
  BY <1>1, LenProperties
<1>4. middle \in Seq(S)
  BY <1>3
<1>5. <<a, b>> \in Seq(S) /\ <<d, e>> \in Seq(S)
  OBVIOUS
<1>6. PTFChecks(c, w) = <<a, b>> \o middle \o <<d, e>>
  BY <1>2 DEF PTFChecks
<1> HIDE DEF middle, S
<1>7. <<a, b>> \o middle \in Seq(S)
  BY <1>4, <1>5, ConcatProperties
<1>8. Failing(PTFChecks(c, w)) = {}
  BY DEF PTFAccepts
<1>9. Failing(<<a, b>> \o middle) = {}
  BY <1>5, <1>6, <1>7, <1>8, ConcatPasses
<1>10. Failing(middle) = {}
  BY <1>4, <1>5, <1>9, ConcatPasses
<1>11. QED
  BY <1>1, <1>3, <1>10 DEF Failing, Check, middle

\* A score is a percentage.
LEMMA ScoreIsAPercentage ==
    ASSUME NEW c, NEW hasBug, NEW difficulty, NEW o
    PROVE  Score(c, hasBug, difficulty, o) \in 0 .. 100
<1> DEFINE key == VerifiedLines(c, hasBug)
           s == o.solver
           matched == Solver(s, c, key) = "pass"
           Term(holds, points) == IF holds THEN points ELSE 0
           sum == 100
            + Term(Breezed(c, difficulty, s, matched), -40)
            + Term(difficulty >= 7 /\ matched /\ s.confidence <= 60, 15)
            + Term(key # {} /\ Min(key) <= 2, -20)
            + Term(ClaimMismatch(c, hasBug), -15)
            + Term(difficulty >= 6 /\ c.size < 8, -20)
            + Term(Flagged(c, hasBug, o), -25)
<1>1. PICK n \in Int : n = sum
  OBVIOUS
<1>2. 0 \in Int /\ 100 \in Int
  OBVIOUS
<1>3. PICK m \in Int : m = Min({100, n}) /\ m <= 100
  <2>1. Min({100, n}) \in {100, n} /\ Min({100, n}) <= 100
    BY <1>2, MinOfTwo
  <2>2. Min({100, n}) \in Int
    BY <1>1, <1>2, <2>1
  <2>3. QED
    BY <2>1, <2>2
<1>4. Max({0, m}) \in {0, m} /\ 0 <= Max({0, m})
  BY <1>2, <1>3, MaxOfTwo
<1>5. Score(c, hasBug, difficulty, o) = Max({0, m})
  BY <1>1, <1>3 DEF Score
<1>6. QED
  BY <1>3, <1>4, <1>5

\* The first of the best survivors is one of them.
LEMMA BestIsASurvivor ==
    ASSUME NEW S, NEW found \in Seq(S), found # << >>,
           \A i \in DOMAIN found : found[i].score \in 0 .. 100
    PROVE  Best(found) \in ToSet(found)
<1> DEFINE Gaps == {100 - found[i].score : i \in DOMAIN found}
<1>1. DOMAIN found = 1 .. Len(found) /\ Len(found) \in Nat \ {0}
  BY LenProperties, EmptySeq
<1>2. \A i \in DOMAIN found : found[i].score \in Int /\ 100 - found[i].score \in Nat
  <2> SUFFICES ASSUME NEW i \in DOMAIN found
               PROVE  found[i].score \in Int /\ 100 - found[i].score \in Nat
    OBVIOUS
  <2>1. PICK x : x = found[i].score
    OBVIOUS
  <2>2. x \in 0 .. 100
    BY <2>1
  <2>3. x \in Int /\ 100 - x \in Nat
    BY <2>2
  <2>4. QED
    BY <2>1, <2>3
<1>3. Gaps \in SUBSET Nat
  BY <1>2
<1>4. Gaps # {}
  <2>1. 1 \in DOMAIN found
    BY <1>1
  <2>2. 100 - found[1].score \in Gaps
    BY <2>1
  <2>3. QED
    BY <2>2
<1>5. PICK g \in Gaps : \A h \in Gaps : g <= h
  BY <1>3, <1>4, LeastNat
<1> DEFINE Firsts == {i \in DOMAIN found : 100 - found[i].score = g}
<1>6. Firsts \in SUBSET Nat /\ Firsts # {}
  BY <1>1, <1>5
<1>7. PICK i \in Firsts : \A j \in Firsts : i <= j
  BY <1>6, LeastNat
<1>8. i \in DOMAIN found /\ 100 - found[i].score = g
  BY <1>7
<1>9. \A j \in DOMAIN found : found[j].score <= found[i].score
  <2> SUFFICES ASSUME NEW j \in DOMAIN found PROVE found[j].score <= found[i].score
    OBVIOUS
  <2>1. 100 - found[i].score <= 100 - found[j].score
    BY <1>5, <1>8
  <2>2. PICK x, y : x = found[i].score /\ y = found[j].score
    OBVIOUS
  <2>3. x \in Int /\ y \in Int
    BY <1>2, <1>8, <2>2
  <2>4. QED
    BY <2>1, <2>2, <2>3
<1>10. \A j \in 1 .. i - 1 : found[j].score < found[i].score
  <2> SUFFICES ASSUME NEW j \in 1 .. i - 1 PROVE found[j].score < found[i].score
    OBVIOUS
  <2>1. j \in DOMAIN found /\ j < i
    BY <1>1, <1>8
  <2>2. j \notin Firsts
    BY <1>6, <1>7, <2>1
  <2>3. found[j].score # found[i].score
    BY <1>8, <2>1, <2>2
  <2>4. PICK x, y : x = found[i].score /\ y = found[j].score
    OBVIOUS
  <2>5. x \in Int /\ y \in Int
    BY <1>2, <1>8, <2>1, <2>4
  <2>6. QED
    BY <1>9, <2>1, <2>3, <2>4, <2>5
<1>11. \E s \in ToSet(found) : \E k \in DOMAIN found :
          /\ s = found[k]
          /\ \A j \in DOMAIN found : found[j].score <= s.score
          /\ \A j \in 1 .. k - 1 : found[j].score < s.score
  BY <1>8, <1>9, <1>10 DEF ToSet
<1>12. QED
  BY <1>11 DEF Best

-----------------------------------------------------------------------------
(* The ranks of a set of rows.                                             *)

\* The newest but k - 1 of a set of rows is one of them.
LEMMA NewestIsThere ==
    ASSUME NEW S \in SUBSET Nat, IsFiniteSet(S), NEW k \in 1 .. Cardinality(S)
    PROVE  Newest(S, k) \in S
<1> DEFINE n == Cardinality(S)
           Above(i) == {j \in S : j >= i}
           Missing == {m \in 1 .. n : \A i \in S : Cardinality(Above(i)) # m}
           Gaps == {n - m : m \in Missing}
<1>1. n \in Nat /\ k \in 1 .. n /\ S # {}
  BY FS_CardinalityType, FS_EmptySet
<1> HIDE DEF n
<1>2. Gaps \in SUBSET Nat
  BY <1>1
<1>3. ASSUME Gaps # {} PROVE FALSE
  <2>1. PICK g \in Gaps : \A h \in Gaps : g <= h
    BY <1>2, <1>3, LeastNat
  <2>2. PICK m \in 1 .. n : g = n - m /\ \A i \in S : Cardinality(Above(i)) # m
    BY <2>1
  <2>3. PICK first \in S : \A j \in S : first <= j
    BY <1>1, LeastNat
  <2>4. Above(first) = S
    BY <2>3
  <2>5. m # n
    BY <2>2, <2>3, <2>4 DEF n
  <2>6. m + 1 \in 1 .. n /\ n - (m + 1) < g
    BY <1>1, <2>2, <2>5
  <2>7. PICK i \in S : Cardinality(Above(i)) = m + 1
    <3>1. n - (m + 1) \notin Gaps
      <4> SUFFICES ASSUME n - (m + 1) \in Gaps PROVE FALSE
        OBVIOUS
      <4>1. g <= n - (m + 1)
        BY <2>1
      <4>2. QED
        BY <1>1, <2>2, <2>6, <4>1
    <3>2. m + 1 \notin Missing
      BY <3>1
    <3>3. QED
      BY <2>6, <3>2
  <2>8. IsFiniteSet(Above(i)) /\ i \in Above(i)
    <3>1. Above(i) \in SUBSET S /\ i \in Nat
      OBVIOUS
    <3>2. QED
      BY <3>1, FS_Subset
  <2>9. IsFiniteSet(Above(i) \ {i}) /\ Cardinality(Above(i) \ {i}) = m
    <3>1. Cardinality(Above(i) \ {i}) = Cardinality(Above(i)) - 1 /\ IsFiniteSet(Above(i) \ {i})
      BY <2>8, FS_RemoveElement
    <3>2. QED
      BY <2>2, <2>7, <3>1
  <2>10. Above(i) \ {i} # {}
    BY <2>2, <2>9, FS_EmptySet
  <2>11. PICK next \in Above(i) \ {i} : \A j \in Above(i) \ {i} : next <= j
    BY <2>10, LeastNat
  <2>12. Above(next) = Above(i) \ {i}
    <3>1. next \in Nat /\ i \in Nat /\ next > i
      BY <2>11
    <3>2. ASSUME NEW j \in S PROVE j >= next <=> j >= i /\ j # i
      <4>1. j \in Nat
        OBVIOUS
      <4>2. CASE j >= i /\ j # i
        BY <2>11, <4>2
      <4>3. CASE j >= next
        BY <3>1, <4>1, <4>3
      <4>4. QED
        BY <4>2, <4>3
    <3>3. QED
      BY <3>2
  <2>13. QED
    BY <2>2, <2>9, <2>11, <2>12
<1>4. \E i \in S : Cardinality(Above(i)) = k
  BY <1>1, <1>3
<1>5. QED
  BY <1>4 DEF Newest

-----------------------------------------------------------------------------
(* Shape of the state.                                                     *)
RowShape == [type : Types \cup {PTF}, hash : Codes \cup (Codes \X WrongFixSets), concept : Concepts,
             status : {"in_review", "live", "retired"}, mechanism : Reasons \cup {Nothing},
             key : SUBSET Nat, parent : Nat, job : Nat, revived : BOOLEAN, cand : Candidates,
             hasBug : BOOLEAN, opinion : Opinions, wrong : WrongFixSets \cup {Nothing}]

RowT == {r \in RowShape : r.hash \in IF r.type = PTF THEN Codes \X WrongFixSets ELSE Codes}

Survivor == [cand : Candidates, opinion : Opinions, score : 0 .. 100]

Phases == {"down", "sample", "generate", "evaluate", "repair", "publish", "derive", "finish"}

InFlight == pc \notin {"down", "sample"}

Lineage(l) ==
    /\ l = [cand |-> l.cand, rounds |-> l.rounds, triggered |-> l.triggered,
            rejection |-> l.rejection]
    /\ l.cand \in Candidates /\ l.rounds \in Nat

Typed ==
    /\ rows \in Seq(RowT) /\ tx \in Seq(RowT)
    /\ survivors \in Seq(Survivor) /\ asked \in Seq(RepairableChecks \cup {"fresh"})
    /\ pc \in Phases /\ mode \in {"orchestrator", "ingest"}
    /\ size \in Nat /\ specs \in 0 .. MaxSpecs
    /\ report \in [sampled : Nat, published : Nat, ptf : Nat, exhausted : Nat]
    /\ coverage \in [Types \X Concepts -> Nat]
    /\ history \in [Concepts -> Seq(Reasons)]
    /\ InFlight => spec.draw \in Specs
    /\ \A i \in DOMAIN survivors : survivors[i].cand.type = spec.draw.type
    /\ pc \in {"evaluate", "repair"} =>
           Lineage(lineage) /\ lineage.cand.type = spec.draw.type
    /\ pc = "repair" => lineage.rejection.check \in RepairableChecks

(* What is flushed and found when.                                         *)
Staged ==
    /\ pc \notin {"derive", "finish"} => tx = << >>
    /\ pc \in {"publish", "derive"} => survivors # << >>
    /\ pc = "derive" => /\ Len(tx) = 1 /\ tx[1].type = STB /\ tx[1].hasBug
                        /\ spec.draw.type = STB /\ spec.draw.hasBug
    /\ pc = "finish" => (tx = << >> <=> survivors = << >>) /\ Len(tx) \in 0 .. 2
    /\ \A i \in DOMAIN tx : i = 1 <=> tx[i].type # PTF

(* The specs a run may still draw.                                         *)
Quota ==
    /\ pc # "down" => report.sampled <= size /\ specs + size - report.sampled <= MaxSpecs
    /\ pc = "sample" => report.sampled < size

\* Rows with one more: the length and each element.
LEMMA AppendRow ==
    ASSUME NEW t \in Seq(RowT), NEW r \in RowT
    PROVE  /\ Append(t, r) \in Seq(RowT) /\ Append(t, r) # << >>
           /\ Len(t) \in Nat /\ DOMAIN t = 1 .. Len(t)
           /\ Len(Append(t, r)) = Len(t) + 1 /\ DOMAIN Append(t, r) = 1 .. Len(t) + 1
           /\ \A i \in 1 .. Len(t) : Append(t, r)[i] = t[i]
           /\ Append(t, r)[Len(t) + 1] = r
<1>1. /\ Append(t, r) \in Seq(RowT) /\ Append(t, r) # << >>
      /\ Len(Append(t, r)) = Len(t) + 1
      /\ \A i \in 1 .. Len(t) : Append(t, r)[i] = t[i]
      /\ Append(t, r)[Len(t) + 1] = r
  BY AppendProperties
<1>2. QED
  BY <1>1, LenProperties

\* The mechanisms of any rows that have one.
LEMMA MechanismsAreReasons ==
    ASSUME Typed, NEW shipped \in SUBSET DOMAIN rows, \A i \in shipped : rows[i].mechanism # Nothing
    PROVE  MechanismsOf(shipped) \in [Concepts -> Seq(Reasons)]
<1> SUFFICES ASSUME NEW c \in Concepts
             PROVE  LET mine == {i \in shipped : rows[i].concept = c} IN
                    [k \in 1 .. Min({HISTORY_DEPTH, Cardinality(mine)}) |->
                         rows[Newest(mine, k)].mechanism] \in Seq(Reasons)
  BY DEF MechanismsOf
<1> DEFINE mine == {i \in shipped : rows[i].concept = c}
           n == Min({HISTORY_DEPTH, Cardinality(mine)})
<1>1. DOMAIN rows = 1 .. Len(rows) /\ Len(rows) \in Nat /\ rows \in [1 .. Len(rows) -> RowT]
  BY LenProperties DEF Typed
<1>2. IsFiniteSet(mine) /\ mine \in SUBSET Nat /\ Cardinality(mine) \in Nat
  <2>1. IsFiniteSet(1 .. Len(rows))
    BY <1>1, FS_Interval
  <2>2. mine \in SUBSET (1 .. Len(rows))
    BY <1>1
  <2>3. IsFiniteSet(mine)
    BY <2>1, <2>2, FS_Subset
  <2>4. QED
    BY <1>1, <2>2, <2>3, FS_CardinalityType
<1>3. n \in Nat /\ n <= Cardinality(mine)
  BY <1>2, MinOfTwo, PipelineAssumption
<1> HIDE DEF n, mine
<1>4. ASSUME NEW k \in 1 .. n PROVE rows[Newest(mine, k)].mechanism \in Reasons
  <2>1. Newest(mine, k) \in mine
    BY <1>2, <1>3, NewestIsThere
  <2>2. PICK r \in RowT : r = rows[Newest(mine, k)] /\ r.mechanism # Nothing
    BY <1>1, <2>1 DEF mine
  <2>3. QED
    BY <2>2 DEF RowShape, RowT
<1>5. PICK f : f = [k \in 1 .. n |-> rows[Newest(mine, k)].mechanism]
  OBVIOUS
<1>6. f \in [1 .. n -> Reasons]
  BY <1>4, <1>5
<1>7. f \in Seq(Reasons)
  BY <1>3, <1>6, SeqDef
<1>8. QED
  BY <1>5, <1>7 DEF n, mine


\* The coverage read at the start is a count for every type and concept.
LEMMA LiveIsCounted == ASSUME Typed PROVE LiveCoverage \in [Types \X Concepts -> Nat]
<1> SUFFICES ASSUME NEW k \in Types \X Concepts
             PROVE  Cardinality({i \in Listed({"live"}) : <<rows[i].type, rows[i].concept>> = k})
                        \in Nat
  BY DEF LiveCoverage
<1>1. DOMAIN rows = 1 .. Len(rows) /\ Len(rows) \in Nat
  BY LenProperties DEF Typed
<1>2. IsFiniteSet(1 .. Len(rows))
  BY <1>1, FS_Interval
<1> DEFINE mine == {i \in Listed({"live"}) : <<rows[i].type, rows[i].concept>> = k}
<1>3. mine \in SUBSET (1 .. Len(rows))
  BY <1>1 DEF Listed
<1>4. QED
  BY <1>2, <1>3, FS_Subset, FS_CardinalityType

Inv0 == Typed /\ Staged /\ Quota

\* A new table, and no process.
LEMMA InitTyped == Init => Inv0
<1> SUFFICES ASSUME Init PROVE Inv0
  OBVIOUS
<1>1. << >> \in Seq(RowT) /\ << >> \in Seq(Survivor) /\ << >> \in Seq(RepairableChecks \cup {"fresh"})
      /\ << >> \in Seq(Reasons)
  BY EmptySeq
<1>2. Typed
  BY <1>1, PipelineAssumption DEF Init, Typed, Phases, InFlight, NoReport, NoHistory, NoCoverage
<1>3. QED
  BY <1>2 DEF Init, Inv0, Staged, Quota

\* A run that starts reads the table and holds nothing.
LEMMA StartTyped == ASSUME Inv0, StartBatch PROVE Inv0'
<1> USE DEF Inv0, StartBatch
<1>1. coverage' \in [Types \X Concepts -> Nat]
  BY LiveIsCounted DEF NoCoverage
<1>2. history' \in [Concepts -> Seq(Reasons)]
  <2>1. RecentMechanisms \in [Concepts -> Seq(Reasons)]
    BY MechanismsAreReasons DEF RecentMechanisms, Listed
  <2>2. NoHistory \in [Concepts -> Seq(Reasons)]
    BY EmptySeq DEF NoHistory
  <2>3. QED
    BY <2>1, <2>2
<1>3. size' \in Nat \ {0} /\ specs + size' <= MaxSpecs
  BY PipelineAssumption, SMTT(30) DEF Typed
<1>4. report' \in [sampled : Nat, published : Nat, ptf : Nat, exhausted : Nat]
      /\ report'.sampled = 0 /\ specs \in Nat
  BY DEF NoReport, Typed
<1>5. Typed'
  BY <1>1, <1>2, <1>3, <1>4 DEF Typed, Phases, InFlight, attempt
<1>6. Staged'
  BY DEF Staged, attempt
<1>7. Quota'
  BY <1>3, <1>4 DEF Quota
<1>8. QED
  BY <1>5, <1>6, <1>7

\* A spec is drawn, the first of a slot or the next.
LEMMA SampleTyped == ASSUME Inv0, SampleSpec \/ NextItem PROVE Inv0'
<1>1. /\ pc = "sample" /\ pc' \in {"generate", "evaluate"}
      /\ UNCHANGED <<rows, tx, process, reviews>>
      /\ specs' = specs + 1 /\ report' = [report EXCEPT !.sampled = @ + 1]
      /\ asked' = << >> /\ survivors' = << >>
      /\ spec'.draw \in Specs
  BY DEF SampleSpec, NextItem
<1>2. pc' = "evaluate" => /\ Lineage(lineage') /\ lineage'.cand.type = spec'.draw.type
  BY DEF SampleSpec, NextItem, Lineage, Fresh
<1>3. PICK n \in Nat, m \in Nat, r \in [sampled : Nat, published : Nat, ptf : Nat, exhausted : Nat] :
          n = specs /\ m = size /\ r = report
  BY DEF Inv0, Typed
<1>4. n + m - r.sampled <= MaxSpecs /\ r.sampled < m
  BY <1>1, <1>3 DEF Inv0, Quota
<1>5. report' \in [sampled : Nat, published : Nat, ptf : Nat, exhausted : Nat]
      /\ report'.sampled = r.sampled + 1
  BY <1>1, <1>3
<1>6. n + 1 \in 0 .. MaxSpecs
  BY <1>3, <1>4, PipelineAssumption
<1>7. Typed'
  BY <1>1, <1>2, <1>3, <1>5, <1>6, EmptySeq, SMTT(30)
     DEF Inv0, Typed, Phases, InFlight, process
<1>8. Staged'
  BY <1>1 DEF Inv0, Staged, process
<1>9. Quota'
  BY <1>1, <1>3, <1>4, <1>5 DEF Inv0, Quota, process
<1>10. QED
  BY <1>7, <1>8, <1>9 DEF Inv0


\* A fresh candidate arrives, or the answer was of no use.
LEMMA GenerateTyped == ASSUME Inv0, Generate PROVE Inv0'
<1>1. /\ pc = "generate" /\ asked' = Append(asked, "fresh")
      /\ UNCHANGED <<rows, tx, process, report, spec, survivors, specs, reviews>>
      /\ \/ Lineage(lineage') /\ lineage'.cand.type = spec.draw.type /\ pc' = "evaluate"
         \/ pc' = Resume(asked')
  BY DEF Generate, Fresh, Lineage
<1>2. pc' \in {"evaluate", "generate", "finish", "publish"}
      /\ (pc' = "finish" => survivors = << >>) /\ (pc' = "publish" => survivors # << >>)
  BY <1>1 DEF Resume
<1>3. asked' \in Seq(RepairableChecks \cup {"fresh"})
  BY <1>1, AppendProperties DEF Inv0, Typed
<1>4. pc' = "evaluate" => Lineage(lineage') /\ lineage'.cand.type = spec.draw.type
  BY <1>1 DEF Resume
<1>5. Typed'
  BY <1>1, <1>2, <1>3, <1>4 DEF Inv0, Typed, Phases, InFlight, process
<1>6. Staged'
  BY <1>1, <1>2, EmptySeq DEF Inv0, Staged, process
<1>7. Quota'
  BY <1>1, <1>2 DEF Inv0, Quota, process
<1>8. QED
  BY <1>5, <1>6, <1>7 DEF Inv0

\* A repaired candidate arrives, or the lineage ends.
LEMMA RepairTyped == ASSUME Inv0, Repair PROVE Inv0'
<1>1. /\ pc = "repair" /\ asked' = Append(asked, lineage.rejection.check)
      /\ UNCHANGED <<rows, tx, process, report, spec, survivors, specs, reviews>>
      /\ \/ /\ \E c \in Candidates :
                /\ c.type = spec.draw.type
                /\ lineage' = [Fresh(c) EXCEPT !.rounds = lineage.rounds + 1,
                        !.triggered = lineage.triggered \cup {lineage.rejection.check}]
            /\ pc' = "evaluate"
         \/ pc' = Resume(asked')
  BY DEF Repair
<1>2. pc' \in {"evaluate", "generate", "finish", "publish"}
      /\ (pc' = "finish" => survivors = << >>) /\ (pc' = "publish" => survivors # << >>)
  BY <1>1 DEF Resume
<1>3. asked' \in Seq(RepairableChecks \cup {"fresh"})
  BY <1>1, AppendProperties DEF Inv0, Typed
<1>4. ASSUME pc' = "evaluate" PROVE Lineage(lineage') /\ lineage'.cand.type = spec.draw.type
  <2>1. PICK n, t : n = lineage.rounds /\ t = lineage.triggered \cup {lineage.rejection.check}
    OBVIOUS
  <2>2. n \in Nat
    BY <1>1, <2>1 DEF Inv0, Typed, Lineage
  <2>3. PICK c \in Candidates :
            /\ c.type = spec.draw.type
            /\ lineage' = [Fresh(c) EXCEPT !.rounds = n + 1, !.triggered = t]
    BY <1>1, <1>4, <2>1 DEF Resume
  <2>4. lineage' = [cand |-> c, rounds |-> n + 1, triggered |-> t, rejection |-> NoRejection]
    BY <2>3 DEF Fresh
  <2>5. PICK l : l = lineage'
    OBVIOUS
  <2>6. l.cand = c /\ l.rounds = n + 1 /\ l.triggered = t /\ l.rejection = NoRejection
    BY <2>4, <2>5
  <2>7. Lineage(l)
    BY <2>2, <2>4, <2>5, <2>6 DEF Lineage
  <2>8. QED
    BY <2>3, <2>5, <2>6, <2>7
<1>5. Typed'
  BY <1>1, <1>2, <1>3, <1>4 DEF Inv0, Typed, Phases, InFlight, process
<1>6. Staged'
  <2>1. tx' = << >> /\ survivors' = survivors
    BY <1>1 DEF Inv0, Staged
  <2>2. QED
    BY <1>2, <2>1, EmptySeq DEF Staged
<1>7. Quota'
  BY <1>1, <1>2 DEF Inv0, Quota, process
<1>8. QED
  BY <1>5, <1>6, <1>7 DEF Inv0

\* What an evaluation may do.
LEMMA EvaluateCases == ASSUME Inv0, Evaluate
    PROVE  \E o \in Opinions :
        LET s == spec.draw
            c == lineage.cand
            found == [cand |-> c, opinion |-> o, score |-> Score(c, s.hasBug, s.difficulty, o)]
        IN  /\ found \in Survivor
            /\ \/ /\ Judge(o) = NoRejection
                  /\ survivors' = Append(survivors, found) /\ survivors' # << >>
                  /\ survivors' \in Seq(Survivor)
                  /\ pc' \in {"generate", "publish"}
                  /\ pc' = "generate" => mode = "orchestrator" /\ Budgeted(asked)
               \/ /\ Judge(o).repairable /\ Judge(o).check \in RepairableChecks
                  /\ MayRepair(Judge(o))
                  /\ Lineage(lineage') /\ lineage'.cand = c /\ lineage'.rounds = lineage.rounds
                  /\ lineage'.triggered = lineage.triggered
                  /\ lineage'.rejection = Judge(o)
                  /\ pc' = "repair" /\ survivors' = survivors
               \/ pc' = Resume(asked) /\ survivors' = survivors
<1>1. PICK o \in Opinions :
        LET s == spec.draw
            c == lineage.cand
            verdict == Judge(o)
            survivor == [cand |-> c, opinion |-> o, score |-> Score(c, s.hasBug, s.difficulty, o)]
        IN  IF verdict = NoRejection
            THEN /\ survivors' = Append(survivors, survivor)
                 /\ lineage' = Nothing
                 /\ pc' = IF mode = "orchestrator" /\ WantMoreSurvivors(survivors')
                          THEN "generate" ELSE "publish"
            ELSE /\ IF MayRepair(verdict)
                    THEN /\ lineage' = [lineage EXCEPT !.rejection = verdict]
                         /\ pc' = "repair"
                    ELSE lineage' = Nothing /\ pc' = Resume(asked)
                 /\ UNCHANGED survivors
  BY DEF Evaluate
<1>2. pc = "evaluate" /\ Lineage(lineage)
  BY DEF Evaluate, Inv0, Typed
<1> DEFINE found == [cand |-> lineage.cand, opinion |-> o,
                     score |-> Score(lineage.cand, spec.draw.hasBug, spec.draw.difficulty, o)]
<1>3. found \in Survivor
  BY <1>2, ScoreIsAPercentage DEF Survivor, Lineage
<1>4. CASE Judge(o) = NoRejection
  <2>1. Append(survivors, found) \in Seq(Survivor) /\ Append(survivors, found) # << >>
    BY <1>3, AppendProperties DEF Inv0, Typed
  <2>2. QED
    BY <1>1, <1>3, <1>4, <2>1 DEF WantMoreSurvivors
<1>5. CASE Judge(o) # NoRejection /\ MayRepair(Judge(o))
  <2>1. Judge(o).repairable /\ Judge(o).check \in RepairableChecks
    BY <1>5, RepairableIsNamed DEF Judge, MayRepair
  <2>2. PICK v, l : v = Judge(o) /\ l = lineage
    OBVIOUS
  <2>3. lineage' = [l EXCEPT !.rejection = v] /\ pc' = "repair" /\ survivors' = survivors
    BY <1>1, <1>5, <2>2
  <2>4. lineage' = [cand |-> l.cand, rounds |-> l.rounds, triggered |-> l.triggered,
                    rejection |-> v]
    BY <1>2, <2>2, <2>3 DEF Lineage
  <2>5. QED
    BY <1>2, <1>3, <1>5, <2>1, <2>2, <2>3, <2>4 DEF Lineage
<1>6. CASE Judge(o) # NoRejection /\ ~MayRepair(Judge(o))
  BY <1>1, <1>3, <1>6
<1>7. QED
  BY <1>4, <1>5, <1>6

\* A candidate ends up as a survivor, in repair, or discarded.
LEMMA EvaluateTyped == ASSUME Inv0, Evaluate PROVE Inv0'
<1>1. /\ pc = "evaluate"
      /\ UNCHANGED <<rows, tx, process, report, spec, asked, specs, reviews>>
  BY DEF Evaluate
<1>2. /\ survivors' \in Seq(Survivor)
      /\ \A i \in DOMAIN survivors' : survivors'[i].cand.type = spec.draw.type
      /\ pc' \in {"repair", "generate", "finish", "publish"}
      /\ (pc' = "finish" => survivors' = << >>) /\ (pc' = "publish" => survivors' # << >>)
      /\ (pc' = "repair" => /\ Lineage(lineage') /\ lineage'.cand.type = spec.draw.type
                            /\ lineage'.rejection.check \in RepairableChecks)
  <2>1. /\ survivors \in Seq(Survivor)
        /\ Resume(asked) \in {"generate", "finish", "publish"}
        /\ Resume(asked) = "finish" => survivors = << >>
        /\ Resume(asked) = "publish" => survivors # << >>
        /\ lineage.cand.type = spec.draw.type
        /\ \A i \in DOMAIN survivors : survivors[i].cand.type = spec.draw.type
    BY <1>1 DEF Resume, Inv0, Typed
  <2>2. PICK o \in Opinions :
            \/ /\ survivors' # << >> /\ survivors' \in Seq(Survivor)
               /\ \E found \in Survivor :
                      survivors' = Append(survivors, found) /\ found.cand = lineage.cand
               /\ pc' \in {"generate", "publish"}
            \/ /\ Judge(o).check \in RepairableChecks
               /\ Lineage(lineage') /\ lineage'.cand = lineage.cand
               /\ lineage'.rejection = Judge(o)
               /\ pc' = "repair" /\ survivors' = survivors
            \/ pc' = Resume(asked) /\ survivors' = survivors
    BY EvaluateCases
  <2>3. ASSUME NEW found \in Survivor, found.cand = lineage.cand,
               survivors' = Append(survivors, found)
        PROVE  \A i \in DOMAIN survivors' : survivors'[i].cand.type = spec.draw.type
    <3>1. /\ DOMAIN survivors = 1 .. Len(survivors) /\ Len(survivors) \in Nat
          /\ DOMAIN survivors' = 1 .. Len(survivors) + 1
          /\ \A i \in 1 .. Len(survivors) : survivors'[i] = survivors[i]
          /\ survivors'[Len(survivors) + 1] = found
      BY <2>1, <2>3, AppendProperties, LenProperties
    <3>2. QED
      BY <2>1, <2>3, <3>1
  <2>4. QED
    BY <2>1, <2>2, <2>3
<1>3. Typed'
  BY <1>1, <1>2 DEF Inv0, Typed, Phases, InFlight, process
<1>4. Staged'
  BY <1>1, <1>2, EmptySeq DEF Inv0, Staged, process
<1>5. Quota'
  BY <1>1, <1>2 DEF Inv0, Quota, process
<1>6. QED
  BY <1>3, <1>4, <1>5 DEF Inv0


\* The lines of a key are lines.
LEMMA VerifiedIsNumbered ==
    ASSUME NEW c \in Candidates, NEW hasBug PROVE VerifiedLines(c, hasBug) \in SUBSET Nat
<1>1. c \in STBCandidate \cup TraceCandidate
  BY PipelineAssumption
<1>2. c.type = STB => c.diff \in SUBSET Nat
  BY <1>1 DEF STBCandidate, TraceCandidate, STB, TRACE
<1>3. QED
  BY <1>2 DEF VerifiedLines

\* What Publish flushes.
LEMMA PublishedRow == ASSUME Inv0, pc = "publish"
    PROVE  LET s == Best(survivors) IN
           /\ s \in Survivor /\ s \in ToSet(survivors)
           /\ s.cand.type = spec.draw.type
           /\ \A t \in Candidates : t = s.cand =>
                Row(spec.draw.type, t.code, t, VerifiedLines(t, spec.draw.hasBug), Nothing, 0,
                    s.opinion) \in RowT
<1>1. survivors \in Seq(Survivor) /\ survivors # << >> /\ spec.draw \in Spec_ /\ specs \in Nat
  BY PipelineAssumption DEF Inv0, Typed, Staged, InFlight
<1>2. \A i \in DOMAIN survivors : survivors[i] \in Survivor
  BY <1>1, ElementOfSeq, LenProperties
<1>3. Best(survivors) \in ToSet(survivors)
  BY <1>1, <1>2, BestIsASurvivor DEF Survivor
<1>4. Best(survivors) \in Survivor
  BY <1>2, <1>3 DEF ToSet
<1>5. ASSUME NEW t \in Candidates, NEW o \in Opinions, t.type = spec.draw.type
      PROVE  Row(spec.draw.type, t.code, t, VerifiedLines(t, spec.draw.hasBug), Nothing, 0, o)
                 \in RowT
  <2>1. t \in STBCandidate \cup TraceCandidate
    BY PipelineAssumption
  <2>2. t.code \in Codes
    BY <2>1 DEF STBCandidate, TraceCandidate
  <2>3. spec.draw.type \in Types /\ spec.draw.concept \in Concepts /\ spec.draw.hasBug \in BOOLEAN
    BY <1>1 DEF Spec_
  <2>4. VerifiedLines(t, spec.draw.hasBug) \in SUBSET Nat
    BY VerifiedIsNumbered
  <2>5. (IF spec.draw.type = STB /\ spec.draw.hasBug THEN t.key ELSE Nothing)
            \in Reasons \cup {Nothing}
    BY <1>5, <2>1 DEF STBCandidate, TraceCandidate, STB, TRACE
  <2>6. QED
    BY <1>1, <1>5, <2>2, <2>3, <2>4, <2>5 DEF Row, RowShape, RowT, Types, STB, TRACE, PTF
<1>6. Best(survivors).cand.type = spec.draw.type
  BY <1>3 DEF ToSet, Inv0, Typed
<1>7. QED
  BY <1>3, <1>4, <1>5, <1>6 DEF Survivor


\* The best survivor is flushed as the first row of its spec.
LEMMA PublishTyped == ASSUME Inv0, Publish PROVE Inv0'
<1>1. PICK s : s = Best(survivors)
  OBVIOUS
<1>2. PICK c : c = s.cand
  OBVIOUS
<1>3. PICK key : key = VerifiedLines(c, spec.draw.hasBug)
  OBVIOUS
<1>4. PICK r : r = Row(spec.draw.type, c.code, c, key, Nothing, 0, s.opinion)
  OBVIOUS
<1>5. /\ pc = "publish" /\ tx' = Append(tx, r)
      /\ history' = IF spec.draw.type = STB /\ spec.draw.hasBug
                    THEN [history EXCEPT ![spec.draw.concept] = <<c.key>> \o @] ELSE history
      /\ pc' = IF spec.draw.type = STB /\ spec.draw.hasBug /\ key # {} THEN "derive" ELSE "finish"
      /\ report' = [report EXCEPT !.published = @ + 1]
      /\ UNCHANGED <<rows, mode, size, coverage, attempt, specs, reviews>>
  BY <1>1, <1>2, <1>3, <1>4 DEF Publish
<1>6. r \in RowT /\ c \in Candidates /\ c.type = spec.draw.type
  BY <1>1, <1>2, <1>3, <1>4, <1>5, PublishedRow DEF Survivor
<1>7. r.type = spec.draw.type /\ r.hasBug = spec.draw.hasBug
  BY <1>4 DEF Row
<1>8. tx = << >> /\ survivors # << >> /\ spec.draw \in Spec_
  BY <1>5, PipelineAssumption DEF Inv0, Staged, Typed, InFlight
<1>9. tx' = << r >> /\ tx' \in Seq(RowT)
  BY <1>5, <1>6, <1>8
<1>10. history' \in [Concepts -> Seq(Reasons)]
  <2>1. spec.draw.concept \in Concepts /\ history \in [Concepts -> Seq(Reasons)]
    BY <1>8 DEF Spec_, Inv0, Typed
  <2>2. CASE spec.draw.type = STB
    <3>1. c \in STBCandidate \cup TraceCandidate
      BY <1>6, PipelineAssumption
    <3>2. c.key \in Reasons
      BY <1>6, <2>2, <3>1 DEF STBCandidate, TraceCandidate, STB, TRACE
    <3>3. <<c.key>> \o history[spec.draw.concept] \in Seq(Reasons)
      BY <2>1, <3>2, ConcatProperties
    <3>4. QED
      BY <1>5, <2>1, <3>3
  <2>3. QED
    BY <1>5, <2>1, <2>2
<1>11. report' \in [sampled : Nat, published : Nat, ptf : Nat, exhausted : Nat]
       /\ report'.sampled = report.sampled
  <2>1. PICK q \in [sampled : Nat, published : Nat, ptf : Nat, exhausted : Nat] : q = report
    BY DEF Inv0, Typed
  <2>2. QED
    BY <1>5, <2>1
<1>12. pc' \in {"derive", "finish"}
       /\ (pc' = "derive" => spec.draw.type = STB /\ spec.draw.hasBug)
  BY <1>5
<1>13. Typed'
  BY <1>5, <1>9, <1>10, <1>11, <1>12 DEF Inv0, Typed, Phases, InFlight, attempt
<1>14. Staged'
  <2>1. r.type # PTF
    BY <1>7, <1>8 DEF Spec_, Types, STB, TRACE, PTF
  <2>2. Len(tx') = 1 /\ tx' # << >> /\ DOMAIN tx' = {1} /\ tx'[1] = r
    BY <1>9
  <2>3. spec' = spec /\ survivors' = survivors
    BY <1>5 DEF attempt
  <2>4. QED
    BY <1>7, <1>8, <1>12, <2>1, <2>2, <2>3 DEF Staged
<1>15. Quota'
  BY <1>5, <1>11, <1>12 DEF Inv0, Quota
<1>16. QED
  BY <1>13, <1>14, <1>15 DEF Inv0

\* What DerivePTF flushes.
LEMMA DerivedRow == ASSUME Inv0, pc = "derive", NEW w \in WrongFixSets
    PROVE  /\ Len(tx) = 1 /\ tx[1] \in RowT /\ tx[1].type \in Types
           /\ Row(PTF, <<tx[1].hash, w>>, tx[1].cand, tx[1].key, w, Len(rows) + 1, tx[1].opinion)
                  \in RowT
<1>1. PICK r \in RowT : r = tx[1] /\ r.type # PTF
  <2>1. tx \in Seq(RowT) /\ Len(tx) = 1
    BY DEF Inv0, Typed, Staged
  <2>2. 1 \in DOMAIN tx
    BY <2>1, LenProperties
  <2>3. tx[1] \in RowT
    BY <2>1, ElementOfSeq
  <2>4. tx[1].type # PTF
    BY <2>2 DEF Inv0, Staged
  <2>5. QED
    BY <2>3, <2>4
<1>2. Len(tx) = 1 /\ Len(rows) + 1 \in Nat /\ specs \in Nat /\ spec.draw \in Spec_
  BY LenProperties, PipelineAssumption DEF Inv0, Typed, Staged, InFlight
<1>3. r.hash \in Codes
  BY <1>1 DEF RowT
<1>4. spec.draw.concept \in Concepts /\ spec.draw.hasBug \in BOOLEAN
  BY <1>2 DEF Spec_
<1>5. Row(PTF, <<r.hash, w>>, r.cand, r.key, w, Len(rows) + 1, r.opinion) \in RowT
  BY <1>2, <1>3, <1>4 DEF Row, RowShape, RowT, PTF, STB
<1>6. QED
  BY <1>1, <1>2, <1>5 DEF RowShape, RowT


\* A predict_the_fix row is flushed after it, or none.
LEMMA DeriveTyped == ASSUME Inv0, DerivePTF PROVE Inv0'
<1>1. /\ pc = "derive" /\ pc' = "finish"
      /\ UNCHANGED <<rows, process, attempt, specs, reviews>>
  BY DEF DerivePTF
<1>2. Len(tx) = 1 /\ tx \in Seq(RowT) /\ survivors # << >> /\ survivors' = survivors
      /\ tx # << >> /\ tx[1].type # PTF /\ DOMAIN tx = {1}
  <2>1. Len(tx) = 1 /\ tx \in Seq(RowT) /\ survivors # << >>
    BY <1>1 DEF Inv0, Typed, Staged
  <2>2. DOMAIN tx = {1}
    BY <2>1, LenProperties
  <2>3. QED
    BY <1>1, <2>1, <2>2, EmptySeq DEF Inv0, Staged, attempt
<1>3. CASE UNCHANGED <<tx, report>>
  <2>1. Typed'
    BY <1>1, <1>3 DEF Inv0, Typed, Phases, InFlight, process, attempt
  <2>2. Staged'
    BY <1>1, <1>2, <1>3 DEF Inv0, Staged
  <2>3. Quota'
    BY <1>1, <1>3 DEF Inv0, Quota, process
  <2>4. QED
    BY <2>1, <2>2, <2>3 DEF Inv0
<1>4. ASSUME NEW w \in WrongFixSets,
             tx' = Append(tx, Row(PTF, <<tx[Len(tx)].hash, w>>, tx[Len(tx)].cand, tx[Len(tx)].key,
                                  w, Len(rows) + Len(tx), tx[Len(tx)].opinion)),
             report' = [report EXCEPT !.ptf = @ + 1]
      PROVE  Inv0'
  <2>1. PICK r \in RowT : tx' = Append(tx, r) /\ r.type = PTF
    BY <1>1, <1>2, <1>4, DerivedRow DEF Row
  <2>2. /\ tx' \in Seq(RowT) /\ Len(tx') = 2 /\ tx' # << >> /\ DOMAIN tx' = {1, 2}
        /\ tx'[1] = tx[1] /\ tx'[2] = r
    <3>1. PICK t : t = Append(tx, r)
      OBVIOUS
    <3>2. t \in Seq(RowT) /\ Len(t) = 2 /\ t # << >> /\ t[1] = tx[1] /\ t[2] = r
      <4>1. tx \in Seq(RowT)
        BY <1>2
      <4>2. /\ Append(tx, r) \in Seq(RowT) /\ Append(tx, r) # << >>
            /\ Len(Append(tx, r)) = Len(tx) + 1 /\ Append(tx, r)[Len(tx) + 1] = r
            /\ \A i \in 1 .. Len(tx) : Append(tx, r)[i] = tx[i]
        BY <4>1, AppendRow
      <4>3. QED
        BY <1>2, <3>1, <4>2
    <3>3. DOMAIN t = {1, 2}
      BY <3>2, LenProperties
    <3>4. QED
      BY <2>1, <3>1, <3>2, <3>3
  <2>3. PICK q \in [sampled : Nat, published : Nat, ptf : Nat, exhausted : Nat] : q = report
    BY DEF Inv0, Typed
  <2>4. report' \in [sampled : Nat, published : Nat, ptf : Nat, exhausted : Nat]
        /\ report'.sampled = report.sampled
    BY <1>4, <2>3
  <2>5. Typed'
    BY <1>1, <2>2, <2>4 DEF Inv0, Typed, Phases, InFlight, process, attempt
  <2>6. Staged'
    BY <1>1, <1>2, <2>1, <2>2 DEF Staged
  <2>7. Quota'
    BY <1>1, <2>4 DEF Inv0, Quota, process
  <2>8. QED
    BY <2>5, <2>6, <2>7 DEF Inv0
<1>5. QED
  BY <1>3, <1>4 DEF DerivePTF

\* What was flushed is committed.
LEMMA FinishTyped == ASSUME Inv0, FinishSpec PROVE Inv0'
<1>1. /\ pc = "finish" /\ rows' = rows \o tx /\ tx' = << >>
      /\ pc' = IF report.sampled < size THEN "sample" ELSE "down"
      /\ asked' = << >> /\ survivors' = << >>
      /\ UNCHANGED <<mode, size, pool, history, specs, reviews>>
      /\ report' = IF survivors # << >> THEN report ELSE [report EXCEPT !.exhausted = @ + 1]
  BY DEF FinishSpec, Commit
<1>2. rows' \in Seq(RowT)
  BY <1>1, ConcatProperties DEF Inv0, Typed
<1>3. coverage' \in [Types \X Concepts -> Nat]
  <2>1. <<spec.draw.type, spec.draw.concept>> \in Types \X Concepts
    BY <1>1, PipelineAssumption DEF Inv0, Typed, InFlight, Spec_
  <2>2. PICK f \in [Types \X Concepts -> Nat], k \in Types \X Concepts :
            f = coverage /\ k = <<spec.draw.type, spec.draw.concept>>
    BY <2>1 DEF Inv0, Typed
  <2>3. coverage' = f \/ coverage' = [f EXCEPT ![k] = @ + 1]
    BY <2>2 DEF FinishSpec
  <2>4. f[k] + 1 \in Nat
    BY <2>2
  <2>5. [f EXCEPT ![k] = @ + 1] \in [Types \X Concepts -> Nat]
    BY <2>4
  <2>6. QED
    BY <2>2, <2>3, <2>5
<1>4. report' \in [sampled : Nat, published : Nat, ptf : Nat, exhausted : Nat]
      /\ report'.sampled = report.sampled
  <2>1. PICK q \in [sampled : Nat, published : Nat, ptf : Nat, exhausted : Nat] : q = report
    BY DEF Inv0, Typed
  <2>2. QED
    BY <1>1, <2>1, SMTT(30)
<1>5. Typed'
  BY <1>1, <1>2, <1>3, <1>4, EmptySeq DEF Inv0, Typed, Phases, InFlight
<1>6. Staged'
  BY <1>1 DEF Staged
<1>7. Quota'
  BY <1>1, <1>4 DEF Inv0, Quota
<1>8. QED
  BY <1>5, <1>6, <1>7 DEF Inv0

\* A killed process loses what it had flushed.
LEMMA CrashTyped == ASSUME Inv0, Crash PROVE Inv0'
<1>1. Typed'
  BY EmptySeq DEF Crash, Inv0, Typed, Phases, InFlight, process
<1>2. QED
  BY <1>1 DEF Crash, Inv0, Staged, Quota

\* What a reviewer does to a row.
LEMMA ReviewCases == ASSUME Inv0, Review
    PROVE  /\ UNCHANGED <<tx, pc, process, report, attempt, specs>>
           /\ \E i \in 1 .. Len(rows), st \in {"live", "retired"}, b \in BOOLEAN :
                /\ rows' = [rows EXCEPT ![i] = [rows[i] EXCEPT !.status = st, !.revived = b]]
                /\ [rows[i] EXCEPT !.status = st, !.revived = b] \in RowT
                /\ ~b => /\ ~rows[i].revived
                         /\ st = "retired" \/ rows[i].status = "in_review"
<1>1. PICK i \in DOMAIN rows : Approve(i) \/ Kill(i)
  BY DEF Review
<1>2. i \in 1 .. Len(rows) /\ rows \in Seq(RowT) /\ rows[i] \in RowT
  BY LenProperties, ElementOfSeq DEF Inv0, Typed
<1>3. UNCHANGED <<tx, pc, process, report, attempt, specs>>
  BY <1>1 DEF Approve, Kill
<1>4. PICK r \in RowT : r = rows[i]
  BY <1>2
<1>5. ASSUME NEW st \in {"live", "retired"}, NEW b \in BOOLEAN
      PROVE  [r EXCEPT !.status = st, !.revived = b] \in RowT
  BY DEF RowShape, RowT
<1>6. CASE Approve(i)
  <2>1. PICK b \in BOOLEAN : b = (rows[i].revived \/ rows[i].status # "in_review")
    BY <1>4 DEF RowT, RowShape
  <2>2. rows' = [rows EXCEPT ![i] = [rows[i] EXCEPT !.status = "live", !.revived = b]]
    BY <1>2, <1>6, <2>1 DEF Approve
  <2>3. QED
    BY <1>2, <1>3, <1>4, <1>5, <2>1, <2>2
<1>7. CASE Kill(i)
  <2>1. PICK b \in BOOLEAN : b = rows[i].revived
    BY <1>4 DEF RowT, RowShape
  <2>2. [rows[i] EXCEPT !.status = "retired", !.revived = b] = [rows[i] EXCEPT !.status = "retired"]
    BY <1>4, <2>1 DEF RowT, RowShape
  <2>3. rows' = [rows EXCEPT ![i] = [rows[i] EXCEPT !.status = "retired", !.revived = b]]
    BY <1>2, <1>7, <2>2 DEF Kill
  <2>4. QED
    BY <1>2, <1>3, <1>4, <1>5, <2>1, <2>3
<1>8. QED
  BY <1>1, <1>6, <1>7

\* A reviewer changes the status of one committed row.
LEMMA ReviewTyped == ASSUME Inv0, Review PROVE Inv0'
<1>1. UNCHANGED <<tx, pc, process, report, attempt, specs>>
  BY ReviewCases
<1>2. rows' \in Seq(RowT)
  <2>1. rows \in Seq(RowT)
    BY DEF Inv0, Typed
  <2>2. PICK i \in 1 .. Len(rows), r \in RowT : rows' = [rows EXCEPT ![i] = r]
    BY ReviewCases
  <2>3. QED
    BY <2>1, <2>2, ExceptSeq
<1>3. Typed'
  BY <1>1, <1>2 DEF Inv0, Typed, Phases, InFlight, process, attempt
<1>4. Staged'
  BY <1>1 DEF Inv0, Staged, attempt
<1>5. Quota'
  BY <1>1 DEF Inv0, Quota, process
<1>6. QED
  BY <1>3, <1>4, <1>5 DEF Inv0

\* Nothing changes.
LEMMA StutterTyped == ASSUME Inv0, UNCHANGED vars PROVE Inv0'
BY DEF vars, process, attempt, Inv0, Typed, Phases, InFlight, Staged, Quota

\* The shape of the state is inductive.
LEMMA NextTyped == Inv0 /\ [Next]_vars => Inv0'
BY StartTyped, SampleTyped, GenerateTyped, EvaluateTyped, RepairTyped, PublishTyped, DeriveTyped,
   FinishTyped, CrashTyped, ReviewTyped, StutterTyped DEF Next, Step

-----------------------------------------------------------------------------
(* What a spec is charged.                                                 *)
Requests == RepairableChecks \cup {"fresh"}

Bounded(a) ==
    /\ Len(a) <= MAX_ATTEMPTS_PER_SPEC
    /\ \A i, j \in DOMAIN a :
        (i <= j /\ \A k \in i .. j : a[k] # "fresh") =>
            /\ j - i < MAX_REPAIR_ROUNDS
            /\ i < j => a[i] # a[j]
            /\ a[i] \in RepairableChecks

(* The requests of a lineage are the last: a fresh candidate and then its  *)
(* repairs.                                                                *)
Charged(a, l) ==
    /\ l.rounds < Len(a) /\ a[Len(a) - l.rounds] = "fresh"
    /\ \A k \in Len(a) - l.rounds + 1 .. Len(a) : a[k] \in l.triggered

Spend ==
    /\ Bounded(asked)
    /\ pc = "generate" => mode = "orchestrator" /\ Budgeted(asked)
    /\ pc \in {"evaluate", "repair"} /\ mode = "orchestrator" => Charged(asked, lineage)
    /\ pc = "repair" => /\ mode = "orchestrator" /\ Budgeted(asked)
                        /\ lineage.rounds < MAX_REPAIR_ROUNDS
                        /\ lineage.rejection.check \notin lineage.triggered

\* One more request: how many there are now, and which is the last.
LEMMA AppendRequest ==
    ASSUME NEW a \in Seq(Requests), NEW x \in Requests
    PROVE  /\ Len(a) \in Nat /\ DOMAIN a = 1 .. Len(a)
           /\ Len(Append(a, x)) = Len(a) + 1 /\ DOMAIN Append(a, x) = 1 .. Len(a) + 1
           /\ \A i \in 1 .. Len(a) : Append(a, x)[i] = a[i]
           /\ Append(a, x)[Len(a) + 1] = x
           /\ \A i \in 1 .. Len(a) : a[i] \in Requests
<1>1. /\ Append(a, x) \in Seq(Requests)
      /\ Len(Append(a, x)) = Len(a) + 1
      /\ \A i \in 1 .. Len(a) : Append(a, x)[i] = a[i]
      /\ Append(a, x)[Len(a) + 1] = x
  BY AppendProperties
<1>2. \A i \in 1 .. Len(a) : a[i] \in Requests
  BY ElementOfSeq
<1>3. QED
  BY <1>1, <1>2, LenProperties

\* A fresh candidate is asked for within the budget of its spec.
LEMMA FreshIsBounded ==
    ASSUME NEW a \in Seq(Requests), Bounded(a), Len(a) < MAX_ATTEMPTS_PER_SPEC, NEW l, l.rounds = 0
    PROVE  Bounded(Append(a, "fresh")) /\ Charged(Append(a, "fresh"), l)
<1> DEFINE b == Append(a, "fresh")
<1>1. "fresh" \in Requests
  BY DEF Requests
<1>2. /\ Len(a) \in Nat /\ DOMAIN a = 1 .. Len(a)
      /\ Len(b) = Len(a) + 1 /\ DOMAIN b = 1 .. Len(a) + 1
      /\ \A i \in 1 .. Len(a) : b[i] = a[i]
      /\ b[Len(a) + 1] = "fresh"
  BY <1>1, AppendRequest
<1> HIDE DEF b
<1>3. Len(b) <= MAX_ATTEMPTS_PER_SPEC
  BY <1>2, PipelineAssumption
<1>4. ASSUME NEW i \in DOMAIN b, NEW j \in DOMAIN b, i <= j, \A k \in i .. j : b[k] # "fresh"
      PROVE  j - i < MAX_REPAIR_ROUNDS /\ (i < j => b[i] # b[j]) /\ b[i] \in RepairableChecks
  <2>1. j \in 1 .. Len(a) /\ i \in 1 .. Len(a)
    BY <1>2, <1>4
  <2>2. b[i] = a[i] /\ b[j] = a[j] /\ \A k \in i .. j : a[k] # "fresh"
    BY <1>2, <1>4, <2>1
  <2>3. QED
    BY <1>2, <1>4, <2>1, <2>2 DEF Bounded
<1>5. Charged(b, l)
  BY <1>2 DEF Charged
<1>6. QED
  BY <1>3, <1>4, <1>5 DEF Bounded, b

\* A repair is asked for within the budget, for a check not repaired before.
LEMMA RepairIsBounded ==
    ASSUME NEW a \in Seq(Requests), Bounded(a), Len(a) < MAX_ATTEMPTS_PER_SPEC,
           NEW l, l.rounds \in Nat, Charged(a, l), l.rounds < MAX_REPAIR_ROUNDS,
           NEW check \in RepairableChecks, check \notin l.triggered,
           NEW m, m.rounds = l.rounds + 1, m.triggered = l.triggered \cup {check}
    PROVE  Bounded(Append(a, check)) /\ Charged(Append(a, check), m)
<1> DEFINE b == Append(a, check)
           n == Len(a)
<1>1. check \in Requests /\ check # "fresh"
  BY DEF Requests, RepairableChecks
<1>2. /\ n \in Nat /\ DOMAIN a = 1 .. n
      /\ Len(b) = n + 1 /\ DOMAIN b = 1 .. n + 1
      /\ \A i \in 1 .. n : b[i] = a[i]
      /\ b[n + 1] = check
      /\ \A i \in 1 .. n : a[i] \in Requests
  BY <1>1, AppendRequest
<1> HIDE DEF b, n
<1>3. Len(b) <= MAX_ATTEMPTS_PER_SPEC
  BY <1>2, PipelineAssumption DEF n
<1>4. PICK q \in Nat : q = l.rounds
  OBVIOUS
<1>5. /\ q < n /\ n - q \in 1 .. n /\ a[n - q] = "fresh"
      /\ \A k \in n - q + 1 .. n : a[k] \in l.triggered
  BY <1>2, <1>4 DEF Charged, n
<1>6. ASSUME NEW i \in DOMAIN b, NEW j \in DOMAIN b, i <= j, \A k \in i .. j : b[k] # "fresh"
      PROVE  j - i < MAX_REPAIR_ROUNDS /\ (i < j => b[i] # b[j]) /\ b[i] \in RepairableChecks
  <2>1. CASE j # n + 1
    <3>1. j \in 1 .. n /\ i \in 1 .. n
      BY <1>2, <1>6, <2>1
    <3>2. b[i] = a[i] /\ b[j] = a[j] /\ \A k \in i .. j : a[k] # "fresh"
      BY <1>2, <1>6, <3>1
    <3>3. QED
      BY <1>2, <1>6, <3>1, <3>2 DEF Bounded
  <2>2. CASE j = n + 1
    <3>1. ~(i <= n - q)
      <4> SUFFICES ASSUME i <= n - q PROVE FALSE
        OBVIOUS
      <4>1. n - q \in i .. j
        BY <1>2, <1>5, <2>2
      <4>2. b[n - q] = "fresh"
        BY <1>2, <1>5
      <4>3. QED
        BY <1>6, <4>1, <4>2
    <3>2. j - i < MAX_REPAIR_ROUNDS
      BY <1>2, <1>4, <1>5, <2>2, <3>1, PipelineAssumption
    <3>3. ASSUME i < j PROVE b[i] # b[j]
      <4>1. i \in n - q + 1 .. n /\ i \in 1 .. n
        BY <1>2, <1>5, <2>2, <3>1, <3>3
      <4>2. b[i] \in l.triggered
        BY <1>2, <1>5, <4>1
      <4>3. QED
        BY <1>2, <2>2, <4>2
    <3>4. b[i] \in RepairableChecks
      <4>1. b[i] \in Requests
        BY <1>1, <1>2, <1>6
      <4>2. b[i] # "fresh"
        BY <1>2, <1>6
      <4>3. QED
        BY <4>1, <4>2 DEF Requests
    <3>5. QED
      BY <3>2, <3>3, <3>4
  <2>3. QED
    BY <2>1, <2>2
<1>7. Charged(b, m)
  <2>1. m.rounds = q + 1 /\ Len(b) - m.rounds = n - q
    BY <1>2, <1>4
  <2>2. b[n - q] = "fresh" /\ m.rounds < Len(b)
    BY <1>2, <1>5, <2>1
  <2>3. ASSUME NEW k \in n - q + 1 .. n + 1 PROVE b[k] \in m.triggered
    <3>1. k = n + 1 \/ (k \in 1 .. n /\ k \in n - q + 1 .. n)
      BY <1>2, <1>5
    <3>2. QED
      BY <1>2, <1>5, <3>1
  <2>4. QED
    BY <1>2, <2>1, <2>2, <2>3 DEF Charged
<1>8. QED
  BY <1>3, <1>6, <1>7 DEF Bounded, b

\* No step charges a spec beyond its budget.
LEMMA SpendStep == Inv0 /\ Spend /\ [Next]_vars => Spend'
<1> SUFFICES ASSUME Inv0, Spend, [Next]_vars PROVE Spend'
  OBVIOUS
<1>1. asked \in Seq(Requests) /\ Bounded(<< >>) /\ Len(<< >>) < MAX_ATTEMPTS_PER_SPEC
  BY PipelineAssumption, EmptySeq DEF Inv0, Typed, Requests, Bounded
<1>2. CASE StartBatch
  BY <1>2 DEF StartBatch, Spend, attempt
<1>3. CASE SampleSpec
  BY <1>1, <1>3 DEF SampleSpec, Spend, Budgeted, process
<1>4. CASE NextItem
  BY <1>1, <1>4 DEF NextItem, Spend, process
<1>5. CASE Generate
  <2>1. asked' = Append(asked, "fresh") /\ mode' = mode /\ pc = "generate"
    BY <1>5 DEF Generate, process
  <2>2. mode = "orchestrator" /\ Len(asked) < MAX_ATTEMPTS_PER_SPEC
    BY <2>1 DEF Spend, Budgeted
  <2>3. Bounded(asked')
    <3>1. PICK l : l = [rounds |-> 0]
      OBVIOUS
    <3>2. QED
      BY <1>1, <2>1, <2>2, <3>1, FreshIsBounded DEF Spend
  <2>4. CASE pc' = "evaluate"
    <3>1. PICK c \in Candidates : lineage' = Fresh(c)
      BY <1>5, <2>4 DEF Generate, Resume
    <3>2. lineage'.rounds = 0
      BY <3>1 DEF Fresh
    <3>3. PICK l : l = lineage' /\ l.rounds = 0
      BY <3>2
    <3>4. Charged(Append(asked, "fresh"), l)
      BY <1>1, <2>2, <3>3, FreshIsBounded DEF Spend
    <3>5. QED
      BY <2>1, <2>3, <2>4, <3>3, <3>4 DEF Spend
  <2>5. CASE pc' = Resume(asked')
    BY <2>1, <2>3, <2>5 DEF Spend, Resume
  <2>6. QED
    BY <1>5, <2>4, <2>5 DEF Generate
<1>6. CASE Evaluate
  <2>1. asked' = asked /\ mode' = mode /\ pc = "evaluate"
    BY <1>6 DEF Evaluate, process
  <2>2. PICK o \in Opinions :
            \/ /\ pc' \in {"generate", "publish"}
               /\ pc' = "generate" => mode = "orchestrator" /\ Budgeted(asked)
            \/ /\ MayRepair(Judge(o))
               /\ lineage'.rounds = lineage.rounds
               /\ lineage'.triggered = lineage.triggered
               /\ lineage'.rejection = Judge(o)
               /\ pc' = "repair"
            \/ pc' = Resume(asked)
    BY <1>6, EvaluateCases
  <2>3. CASE pc' \in {"generate", "publish"}
             /\ (pc' = "generate" => mode = "orchestrator" /\ Budgeted(asked))
    BY <2>1, <2>3 DEF Spend, Budgeted
  <2>4. CASE /\ MayRepair(Judge(o)) /\ lineage'.rounds = lineage.rounds
             /\ lineage'.triggered = lineage.triggered
             /\ lineage'.rejection = Judge(o) /\ pc' = "repair"
    <3>1. PICK l, m, v : l = lineage /\ m = lineage' /\ v = Judge(o)
      OBVIOUS
    <3>2. /\ m.rounds = l.rounds /\ m.triggered = l.triggered /\ m.rejection = v
          /\ mode = "orchestrator" /\ l.rounds < MAX_REPAIR_ROUNDS
          /\ v.check \notin l.triggered /\ Budgeted(asked)
      BY <2>4, <3>1 DEF MayRepair
    <3>3. Charged(asked, m)
      BY <2>1, <3>1, <3>2 DEF Spend, Charged
    <3>4. QED
      BY <2>1, <2>4, <3>1, <3>2, <3>3 DEF Spend, Budgeted
  <2>5. CASE pc' = Resume(asked)
    BY <2>1, <2>5 DEF Spend, Resume, Budgeted
  <2>6. QED
    BY <2>2, <2>3, <2>4, <2>5
<1>7. CASE Repair
  <2>1. PICK l, check : l = lineage /\ check = lineage.rejection.check
    OBVIOUS
  <2>2. asked' = Append(asked, check) /\ mode' = mode /\ pc = "repair"
    BY <1>7, <2>1 DEF Repair, process
  <2>3. /\ mode = "orchestrator" /\ Len(asked) < MAX_ATTEMPTS_PER_SPEC
        /\ l.rounds < MAX_REPAIR_ROUNDS /\ check \notin l.triggered
        /\ Charged(asked, l) /\ l.rounds \in Nat /\ check \in RepairableChecks
    BY <2>1, <2>2 DEF Spend, Budgeted, Inv0, Typed, Lineage
  <2>4. ASSUME NEW m, m.rounds = l.rounds + 1, m.triggered = l.triggered \cup {check}
        PROVE  Bounded(asked') /\ Charged(asked', m)
    <3>1. Bounded(asked)
      BY DEF Spend
    <3>2. QED
      BY <1>1, <2>2, <2>3, <2>4, <3>1, RepairIsBounded
  <2>5. Bounded(asked')
    <3>1. PICK m : m = [rounds |-> l.rounds + 1, triggered |-> l.triggered \cup {check}]
      OBVIOUS
    <3>2. QED
      BY <2>4, <3>1
  <2>6. CASE pc' = "evaluate"
    <3>1. PICK n, t : n = l.rounds + 1 /\ t = l.triggered \cup {check}
      OBVIOUS
    <3>2. PICK c \in Candidates : lineage' = [Fresh(c) EXCEPT !.rounds = n, !.triggered = t]
      BY <1>7, <2>1, <2>6, <3>1 DEF Repair, Resume
    <3>3. lineage' = [cand |-> c, rounds |-> n, triggered |-> t, rejection |-> NoRejection]
      BY <3>2 DEF Fresh
    <3>4. PICK m : m = lineage'
      OBVIOUS
    <3>5. m.rounds = n /\ m.triggered = t
      BY <3>3, <3>4
    <3>6. Charged(asked', m)
      BY <2>4, <3>1, <3>5
    <3>7. QED
      BY <2>2, <2>3, <2>5, <2>6, <3>4, <3>6 DEF Spend
  <2>7. CASE pc' = Resume(asked')
    BY <2>2, <2>5, <2>7 DEF Spend, Resume
  <2>8. QED
    BY <1>7, <2>6, <2>7 DEF Repair
<1>8. CASE Publish
  BY <1>8 DEF Publish, Spend, attempt
<1>9. CASE DerivePTF
  BY <1>9 DEF DerivePTF, Spend, attempt
<1>10. CASE FinishSpec
  BY <1>1, <1>10 DEF FinishSpec, Spend
<1>11. CASE Crash
  BY <1>1, <1>11 DEF Crash, Spend
<1>12. CASE Review
  BY <1>12, ReviewCases DEF Spend, process, attempt, Budgeted
<1>13. CASE UNCHANGED vars
  BY <1>13 DEF vars, Spend, process, attempt, Budgeted
<1>14. QED
  BY <1>2, <1>3, <1>4, <1>5, <1>6, <1>7, <1>8, <1>9, <1>10, <1>11, <1>12, <1>13 DEF Next, Step

(* The orchestrator's bookkeeping: the shape of the state, and no spec     *)
(* ever charged with more calls than its budget, no lineage repaired more  *)
(* often than MAX_REPAIR_ROUNDS, twice for one check, or for a check that  *)
(* no repair may touch (orchestrator._resolve_spec, _run_lineage).         *)
THEOREM SpendingIsBounded == Spec => []BatchIsBounded
<1>1. Init => Inv0 /\ Spend
  <2>1. Bounded(<< >>)
    BY PipelineAssumption DEF Bounded
  <2>2. QED
    BY <2>1, InitTyped DEF Init, Spend
<1>2. Inv0 /\ Spend /\ [Next]_vars => (Inv0 /\ Spend)'
  BY NextTyped, SpendStep
<1>3. Inv0 /\ Spend => BatchIsBounded
  <2>1. ASSUME Inv0 PROVE TypeOK
    <3>1. ASSUME NEW i \in DOMAIN rows
          PROVE rows[i].status \in {"in_review", "live", "retired"}
      <4>1. rows \in Seq(RowT)
        BY <2>1 DEF Inv0, Typed
      <4>2. rows[i] \in RowT
        BY <4>1, ElementOfSeq, LenProperties
      <4>3. QED
        BY <4>2 DEF RowT, RowShape
    <3>2. QED
      BY <2>1, <3>1 DEF Inv0, Typed, TypeOK, InFlight, Phases, Lineage
  <2>2. QED
    BY <2>1 DEF BatchIsBounded, SpendIsBounded, Spend, Bounded
<1>4. QED
  BY <1>1, <1>2, <1>3, PTL DEF Spec

-----------------------------------------------------------------------------
(* The table with what is flushed.                                         *)

\* Flushing a row.
LEMMA FlushOne ==
    ASSUME NEW s \in Seq(RowT), NEW t \in Seq(RowT), NEW r \in RowT
    PROVE  s \o Append(t, r) = Append(s \o t, r)
<1>1. s \o t \in Seq(RowT) /\ << r >> \in Seq(RowT)
  BY ConcatProperties
<1>2. Append(t, r) = t \o << r >> /\ Append(s \o t, r) = (s \o t) \o << r >>
  BY <1>1, AppendIsConcat
<1>3. QED
  BY <1>1, <1>2, ConcatAssociative

\* The rows of a table come first.
LEMMA CommittedFirst ==
    ASSUME NEW s \in Seq(RowT), NEW t \in Seq(RowT)
    PROVE  /\ s \o t \in Seq(RowT) /\ DOMAIN s \subseteq DOMAIN (s \o t)
           /\ DOMAIN s = 1 .. Len(s) /\ Len(s) \in Nat
           /\ \A i \in DOMAIN s : (s \o t)[i] = s[i]
<1>1. /\ s \o t \in Seq(RowT) /\ Len(s \o t) = Len(s) + Len(t)
      /\ Len(s) \in Nat /\ Len(t) \in Nat /\ DOMAIN s = 1 .. Len(s)
      /\ DOMAIN (s \o t) = 1 .. Len(s) + Len(t)
      /\ \A i \in 1 .. Len(s) + Len(t) :
             (s \o t)[i] = IF i <= Len(s) THEN s[i] ELSE t[i - Len(s)]
  BY ConcatProperties, LenProperties
<1>2. QED
  BY <1>1

\* A review of a committed row.
LEMMA ReviewOne ==
    ASSUME NEW s \in Seq(RowT), NEW t \in Seq(RowT), NEW r \in RowT, NEW i \in 1 .. Len(s)
    PROVE  [s EXCEPT ![i] = r] \o t = [(s \o t) EXCEPT ![i] = r]
<1> DEFINE u == [s EXCEPT ![i] = r]
           all == s \o t
           v == [all EXCEPT ![i] = r]
<1>1. /\ u \in Seq(RowT) /\ Len(u) = Len(s)
      /\ \A j \in 1 .. Len(s) : u[j] = IF j = i THEN r ELSE s[j]
  BY ExceptSeq
<1>2. /\ all \in Seq(RowT) /\ Len(all) = Len(s) + Len(t) /\ Len(s) \in Nat /\ Len(t) \in Nat
      /\ \A j \in 1 .. Len(s) + Len(t) :
             all[j] = IF j <= Len(s) THEN s[j] ELSE t[j - Len(s)]
  BY ConcatProperties, LenProperties
<1>3. /\ u \o t \in Seq(RowT) /\ Len(u \o t) = Len(s) + Len(t)
      /\ \A j \in 1 .. Len(s) + Len(t) :
             (u \o t)[j] = IF j <= Len(s) THEN u[j] ELSE t[j - Len(s)]
  BY <1>1, ConcatProperties, LenProperties
<1>4. i \in 1 .. Len(all)
  BY <1>2
<1> HIDE DEF all, u
<1>5. /\ v \in Seq(RowT) /\ Len(v) = Len(all)
      /\ \A j \in 1 .. Len(all) : v[j] = IF j = i THEN r ELSE all[j]
  BY <1>2, <1>4, ExceptSeq
<1>6. \A j \in 1 .. Len(u \o t) : (u \o t)[j] = v[j]
  BY <1>1, <1>2, <1>3, <1>5
<1> HIDE DEF v
<1>7. u \o t = v
  BY <1>2, <1>3, <1>5, <1>6, SeqEqual
<1>8. QED
  BY <1>7 DEF u, v, all

(* How the table grows and changes: nothing else ever happens to it.       *)
Flushes(r) ==
    \/ /\ Publish
       /\ \E s \in Survivor :
            /\ s \in ToSet(survivors) /\ s.cand.type = spec.draw.type
            /\ r = Row(spec.draw.type, s.cand.code, s.cand, VerifiedLines(s.cand, spec.draw.hasBug),
                       Nothing, 0, s.opinion)
            /\ pool' = pool \cup {s.cand.code}
    \/ /\ DerivePTF /\ pool' = pool
       /\ \E w \in WrongFixSets, q \in RowT :
            /\ tx = << q >> /\ q.type = STB /\ q.hasBug /\ spec.draw.hasBug
            /\ PTFAccepts(q.cand, w)
            /\ r = Row(PTF, <<q.hash, w>>, q.cand, q.key, w, Len(rows) + 1, q.opinion)

Reviews(i, r, st, b) ==
    /\ Review
    /\ rows' = [rows EXCEPT ![i] = r]
    /\ r = [rows[i] EXCEPT !.status = st, !.revived = b]
    /\ ~b => ~rows[i].revived /\ (st = "retired" \/ rows[i].status = "in_review")

\* Publishing appends one row to the table with what is flushed.
LEMMA PublishFlushes == ASSUME Inv0, Publish
    PROVE  \E r \in RowT : Flushes(r) /\ rows' \o tx' = Append(rows \o tx, r)
<1>1. PICK s \in Survivor : s = Best(survivors) /\ s \in ToSet(survivors)
                            /\ s.cand.type = spec.draw.type
  BY PublishedRow DEF Publish
<1>2. PICK r \in RowT :
        r = Row(spec.draw.type, s.cand.code, s.cand, VerifiedLines(s.cand, spec.draw.hasBug),
                Nothing, 0, s.opinion)
  BY <1>1, PublishedRow DEF Publish, Survivor
<1>3. tx' = Append(tx, r) /\ rows' = rows /\ pool' = pool \cup {s.cand.code}
  BY <1>1, <1>2 DEF Publish
<1>4. rows' \o tx' = Append(rows \o tx, r)
  BY <1>3, FlushOne DEF Inv0, Typed
<1>5. Flushes(r)
  BY <1>1, <1>2, <1>3 DEF Flushes
<1>6. QED
  BY <1>4, <1>5

\* Deriving appends one row, or none.
LEMMA DeriveFlushes == ASSUME Inv0, DerivePTF
    PROVE  \/ rows' \o tx' = rows \o tx /\ pool' = pool
           \/ \E r \in RowT : Flushes(r) /\ rows' \o tx' = Append(rows \o tx, r)
<1>1. pc = "derive" /\ rows' = rows /\ pool' = pool
  BY DEF DerivePTF, process
<1>2. CASE tx' = tx
  BY <1>1, <1>2
<1>3. ASSUME NEW w \in WrongFixSets, PTFAccepts(tx[Len(tx)].cand, w),
             tx' = Append(tx, Row(PTF, <<tx[Len(tx)].hash, w>>, tx[Len(tx)].cand, tx[Len(tx)].key,
                                  w, Len(rows) + Len(tx), tx[Len(tx)].opinion))
      PROVE  \E r \in RowT : Flushes(r) /\ rows' \o tx' = Append(rows \o tx, r)
  <2>1. tx \in Seq(RowT) /\ Len(tx) = 1 /\ tx[1] \in RowT /\ tx[1].hasBug /\ spec.draw.hasBug
    BY <1>1, DerivedRow DEF Inv0, Typed, Staged
  <2>2. PICK q \in RowT : q = tx[1]
    BY <2>1
  <2>3. tx = << q >>
    BY <2>1, <2>2
  <2>4. PICK r \in RowT :
            r = Row(PTF, <<q.hash, w>>, q.cand, q.key, w, Len(rows) + 1, q.opinion)
    BY <1>1, <2>1, <2>2, DerivedRow
  <2>5. tx' = Append(tx, r)
    BY <1>3, <2>1, <2>2, <2>4
  <2>6. q.type = STB
    BY <1>1, <2>2 DEF Inv0, Staged
  <2>7. Flushes(r)
    BY <1>1, <1>3, <2>1, <2>2, <2>3, <2>4, <2>6 DEF Flushes
  <2>8. rows' \o tx' = Append(rows \o tx, r)
    BY <1>1, <2>1, <2>5, FlushOne DEF Inv0, Typed
  <2>9. QED
    BY <2>7, <2>8
<1>4. QED
  BY <1>2, <1>3 DEF DerivePTF


\* A commit changes nothing of the table with what is flushed.
LEMMA FinishKeepsAll == ASSUME Inv0, FinishSpec PROVE rows' \o tx' = rows \o tx
<1>1. rows' = rows \o tx /\ tx' = << >> /\ rows \o tx \in Seq(RowT)
  BY ConcatProperties DEF FinishSpec, Commit, Inv0, Typed
<1>2. QED
  BY <1>1, ConcatEmptySeq

\* Whatever a reviewer does, the row keeps what it was published with.
LEMMA ReviewsOne == ASSUME Inv0, Review
    PROVE  \E i \in DOMAIN rows, r \in RowT, st \in {"live", "retired"}, b \in BOOLEAN :
                /\ Reviews(i, r, st, b)
                /\ rows' \o tx' = [(rows \o tx) EXCEPT ![i] = r]
<1>1. PICK i \in 1 .. Len(rows), st \in {"live", "retired"}, b \in BOOLEAN :
        /\ rows' = [rows EXCEPT ![i] = [rows[i] EXCEPT !.status = st, !.revived = b]]
        /\ [rows[i] EXCEPT !.status = st, !.revived = b] \in RowT
        /\ ~b => ~rows[i].revived /\ (st = "retired" \/ rows[i].status = "in_review")
  BY ReviewCases
<1>2. PICK r \in RowT : r = [rows[i] EXCEPT !.status = st, !.revived = b]
  BY <1>1
<1>3. tx' = tx /\ rows \in Seq(RowT) /\ tx \in Seq(RowT)
  BY ReviewCases DEF Inv0, Typed
<1>4. rows' \o tx' = [(rows \o tx) EXCEPT ![i] = r]
  <2>1. PICK s, t, u : s = rows /\ t = tx /\ u = rows'
    OBVIOUS
  <2>2. s \in Seq(RowT) /\ t \in Seq(RowT) /\ i \in 1 .. Len(s) /\ u = [s EXCEPT ![i] = r]
    BY <1>1, <1>2, <1>3, <2>1
  <2>3. u \o t = [(s \o t) EXCEPT ![i] = r]
    BY <2>2, ReviewOne
  <2>4. QED
    BY <1>3, <2>1, <2>3
<1>5. i \in DOMAIN rows
  BY <1>3, LenProperties
<1>6. QED
  BY <1>1, <1>2, <1>4, <1>5 DEF Reviews

\* What can become of the table and what is flushed, in one step.
LEMMA TableSteps == ASSUME Inv0, [Next]_vars
    PROVE  \/ rows' \o tx' = rows \o tx /\ ~Publish
           \/ Crash /\ rows' \o tx' = rows
           \/ \E r \in RowT : Flushes(r) /\ rows' \o tx' = Append(rows \o tx, r)
           \/ \E i \in DOMAIN rows, r \in RowT, st \in {"live", "retired"}, b \in BOOLEAN :
                  Reviews(i, r, st, b) /\ rows' \o tx' = [(rows \o tx) EXCEPT ![i] = r]
<1>1. CASE StartBatch \/ SampleSpec \/ NextItem \/ Generate \/ Evaluate \/ Repair \/ UNCHANGED vars
  BY <1>1 DEF StartBatch, SampleSpec, NextItem, Generate, Evaluate, Repair, Publish, vars, attempt
<1>2. CASE Crash
  <2>1. rows' = rows /\ tx' = << >>
    BY <1>2 DEF Crash
  <2>2. rows \o << >> = rows
    BY ConcatEmptySeq DEF Inv0, Typed
  <2>3. QED
    BY <1>2, <2>1, <2>2
<1>3. CASE Publish
  BY <1>3, PublishFlushes
<1>4. CASE DerivePTF
  BY <1>4, DeriveFlushes DEF DerivePTF, Publish
<1>5. CASE FinishSpec
  BY <1>5, FinishKeepsAll DEF FinishSpec, Publish
<1>6. CASE Review
  BY <1>6, ReviewsOne
<1>7. QED
  BY <1>1, <1>2, <1>3, <1>4, <1>5, <1>6 DEF Next, Step

-----------------------------------------------------------------------------
(* What is published was shown by execution.                               *)
Deserved(c, hasBug, o) ==
    /\ CodeHolds(c)
    /\ c.type = STB => KeyHolds(c, hasBug, o)
    /\ c.type # STB => c.claims = "right" /\ c.distinct

Earned ==
    \A i \in DOMAIN survivors :
        Deserved(survivors[i].cand, spec.draw.hasBug, survivors[i].opinion)

AllProven(all) ==
    \A i \in DOMAIN all :
        /\ Proven(all[i])
        /\ all[i].type = PTF => /\ all[i].parent \in 1 .. i - 1
                                /\ all[all[i].parent].cand = all[i].cand

\* A survivor's row.
LEMMA ShownIsProven ==
    ASSUME NEW c \in Candidates, NEW o \in Opinions, c.type = spec.draw.type, spec.draw \in Spec_,
           Deserved(c, spec.draw.hasBug, o)
    PROVE  LET r == Row(spec.draw.type, c.code, c, VerifiedLines(c, spec.draw.hasBug), Nothing, 0, o)
           IN  Proven(r) /\ r.type # PTF
<1>1. PICK r :
        r = Row(spec.draw.type, c.code, c, VerifiedLines(c, spec.draw.hasBug), Nothing, 0, o)
  OBVIOUS
<1>2. /\ r.type = c.type /\ r.cand = c /\ r.opinion = o /\ r.hasBug = spec.draw.hasBug
      /\ r.key = VerifiedLines(c, spec.draw.hasBug)
  BY <1>1 DEF Row
<1>3. c.type \in {STB, TRACE} /\ STB # TRACE /\ STB # PTF /\ TRACE # PTF
  BY DEF Spec_, Types, STB, TRACE, PTF
<1>4. CASE c.type = STB
  <2>1. r.key = IF r.hasBug THEN c.diff ELSE {}
    BY <1>2, <1>4 DEF VerifiedLines
  <2>2. QED
    BY <1>1, <1>2, <1>3, <1>4, <2>1 DEF Deserved, CodeHolds, KeyHolds, Proven
<1>5. CASE c.type = TRACE
  BY <1>1, <1>2, <1>3, <1>5 DEF Deserved, CodeHolds, Proven
<1>6. QED
  BY <1>3, <1>4, <1>5

\* The row derived from a proven spot_the_bug.
LEMMA DerivedIsProven ==
    ASSUME NEW w \in WrongFixSets, NEW q \in RowT, Proven(q), q.type = STB, q.hasBug,
           spec.draw.hasBug, PTFAccepts(q.cand, w), NEW parent
    PROVE  Proven(Row(PTF, <<q.hash, w>>, q.cand, q.key, w, parent, q.opinion))
<1>1. PICK r : r = Row(PTF, <<q.hash, w>>, q.cand, q.key, w, parent, q.opinion)
  OBVIOUS
<1>2. /\ r.type = PTF /\ r.cand = q.cand /\ r.opinion = q.opinion /\ r.hasBug
      /\ r.key = q.key /\ r.wrong = w
  BY <1>1 DEF Row
<1>3. STB # TRACE /\ PTF # TRACE
  BY DEF STB, TRACE, PTF
<1>4. w.static /\ \A i \in DOMAIN w.outcomes : w.outcomes[i] = "assert"
  <2>1. q.cand \in Candidates
    BY DEF RowT, RowShape
  <2>2. QED
    BY <2>1, PTFHolds
<1>5. QED
  BY <1>1, <1>2, <1>3, <1>4, ZenonT(30) DEF Proven


\* A proven row appended to proven rows.
LEMMA ProvenAppend ==
    ASSUME NEW t \in Seq(RowT), AllProven(t), NEW r \in RowT, Proven(r),
           r.type = PTF => r.parent \in 1 .. Len(t) /\ t[r.parent].cand = r.cand
    PROVE  AllProven(Append(t, r))
<1> DEFINE u == Append(t, r)
<1>1. /\ DOMAIN t = 1 .. Len(t) /\ Len(t) \in Nat /\ DOMAIN u = 1 .. Len(t) + 1
      /\ \A i \in 1 .. Len(t) : u[i] = t[i]
      /\ u[Len(t) + 1] = r
  BY AppendRow
<1> HIDE DEF u
<1>2. ASSUME NEW i \in 1 .. Len(t)
      PROVE  /\ Proven(u[i])
             /\ u[i].type = PTF => u[i].parent \in 1 .. i - 1 /\ u[u[i].parent].cand = u[i].cand
  <2>1. PICK q : q = t[i]
    OBVIOUS
  <2>2. Proven(q) /\ (q.type = PTF => q.parent \in 1 .. i - 1 /\ t[q.parent].cand = q.cand)
    BY <1>1, <2>1 DEF AllProven
  <2>3. u[i] = q
    BY <1>1, <2>1
  <2>4. q.type = PTF => u[q.parent] = t[q.parent]
    BY <1>1, <2>2
  <2>5. QED
    BY <2>2, <2>3, <2>4
<1>3. /\ Proven(u[Len(t) + 1])
      /\ u[Len(t) + 1].type = PTF => /\ u[Len(t) + 1].parent \in 1 .. (Len(t) + 1) - 1
                                     /\ u[u[Len(t) + 1].parent].cand = u[Len(t) + 1].cand
  BY <1>1
<1>4. \A i \in DOMAIN u : i \in 1 .. Len(t) \/ i = Len(t) + 1
  BY <1>1
<1>5. AllProven(u)
  BY <1>2, <1>3, <1>4 DEF AllProven
<1>6. QED
  BY <1>5 DEF u

\* Only what is not looked at is reviewed.
LEMMA ProvenReview ==
    ASSUME NEW t \in Seq(RowT), AllProven(t), NEW i \in DOMAIN t, NEW st, NEW b, NEW r \in RowT,
           r = [t[i] EXCEPT !.status = st, !.revived = b]
    PROVE  AllProven([t EXCEPT ![i] = r])
<1> DEFINE u == [t EXCEPT ![i] = r]
<1>1. PICK q \in RowT : q = t[i]
  BY ElementOfSeq, LenProperties
<1>2. /\ r.type = q.type /\ r.key = q.key /\ r.hasBug = q.hasBug /\ r.cand = q.cand
      /\ r.opinion = q.opinion /\ r.wrong = q.wrong /\ r.parent = q.parent
  BY <1>1 DEF RowT, RowShape
<1>3. Proven(q) => Proven(r)
  BY <1>2, ZenonT(30) DEF Proven
<1>4. DOMAIN u = DOMAIN t /\ u[i] = r /\ \A j \in DOMAIN t : j # i => u[j] = t[j]
  OBVIOUS
<1> HIDE DEF u
<1>5. \A j \in DOMAIN t : /\ u[j].type = t[j].type /\ u[j].cand = t[j].cand
                          /\ u[j].parent = t[j].parent /\ (Proven(t[j]) => Proven(u[j]))
  BY <1>1, <1>2, <1>3, <1>4
<1>6. DOMAIN t = 1 .. Len(t) /\ Len(t) \in Nat
  BY LenProperties
<1>7. ASSUME NEW j \in DOMAIN t
      PROVE  /\ Proven(u[j])
             /\ u[j].type = PTF => u[j].parent \in 1 .. j - 1 /\ u[u[j].parent].cand = u[j].cand
  <2>1. Proven(t[j]) /\ (t[j].type = PTF =>
            t[j].parent \in 1 .. j - 1 /\ t[t[j].parent].cand = t[j].cand)
    BY DEF AllProven
  <2>2. t[j].type = PTF => t[j].parent \in DOMAIN t
    BY <1>6, <2>1
  <2>3. QED
    BY <1>5, <2>1, <2>2
<1>8. AllProven(u)
  BY <1>4, <1>7 DEF AllProven
<1>9. QED
  BY <1>8 DEF u

\* What a crash leaves of proven rows is proven.
LEMMA ProvenPrefix ==
    ASSUME NEW s \in Seq(RowT), NEW t \in Seq(RowT), AllProven(s \o t) PROVE AllProven(s)
<1>1. /\ DOMAIN s \subseteq DOMAIN (s \o t) /\ DOMAIN s = 1 .. Len(s) /\ Len(s) \in Nat
      /\ \A i \in DOMAIN s : (s \o t)[i] = s[i]
  BY CommittedFirst
<1>2. ASSUME NEW i \in DOMAIN s
      PROVE  /\ Proven(s[i])
             /\ s[i].type = PTF => s[i].parent \in 1 .. i - 1 /\ s[s[i].parent].cand = s[i].cand
  <2>1. PICK q : q = s[i] /\ q = (s \o t)[i]
    BY <1>1
  <2>2. Proven(q) /\ (q.type = PTF => q.parent \in 1 .. i - 1 /\ (s \o t)[q.parent].cand = q.cand)
    BY <1>1, <2>1 DEF AllProven
  <2>3. q.type = PTF => q.parent \in DOMAIN s
    BY <1>1, <2>2
  <2>4. QED
    BY <1>1, <2>1, <2>2, <2>3
<1>3. QED
  BY <1>2 DEF AllProven

\* Every survivor passed every gate.
LEMMA EarnedStep == Inv0 /\ Earned /\ [Next]_vars => Earned'
<1> SUFFICES ASSUME Inv0, Earned, [Next]_vars PROVE Earned'
  OBVIOUS
<1>1. CASE Evaluate
  <2>1. PICK c, h : c = lineage.cand /\ h = spec.draw.hasBug
    OBVIOUS
  <2>2. c \in Candidates /\ h \in BOOLEAN /\ spec' = spec /\ survivors \in Seq(Survivor)
    BY <1>1, <2>1, PipelineAssumption DEF Evaluate, Inv0, Typed, InFlight, Lineage, Spec_
  <2>3. PICK o \in Opinions :
            \/ /\ Verdict(c, h, o, pool) = NoRejection
               /\ \E found \in Survivor : /\ survivors' = Append(survivors, found)
                                          /\ found.cand = c /\ found.opinion = o
            \/ survivors' = survivors
    BY <1>1, <2>1, EvaluateCases DEF Judge
  <2>4. ASSUME NEW found \in Survivor, survivors' = Append(survivors, found), found.cand = c,
               found.opinion = o, Verdict(c, h, o, pool) = NoRejection
        PROVE  Earned'
    <3>1. Deserved(c, h, o)
      BY <2>2, <2>4, SurvivorHolds DEF Deserved
    <3>2. /\ DOMAIN survivors' = 1 .. Len(survivors) + 1 /\ Len(survivors) \in Nat
          /\ DOMAIN survivors = 1 .. Len(survivors)
          /\ \A i \in 1 .. Len(survivors) : survivors'[i] = survivors[i]
          /\ survivors'[Len(survivors) + 1] = found
      BY <2>2, <2>4, AppendProperties, LenProperties
    <3>3. ASSUME NEW i \in DOMAIN survivors'
          PROVE  Deserved(survivors'[i].cand, spec'.draw.hasBug, survivors'[i].opinion)
      <4>1. i \in DOMAIN survivors \/ i = Len(survivors) + 1
        BY <3>2
      <4>2. QED
        BY <2>1, <2>2, <2>4, <3>1, <3>2, <4>1 DEF Earned
    <3>4. QED
      BY <3>3 DEF Earned
  <2>5. CASE survivors' = survivors
    BY <2>2, <2>5 DEF Earned
  <2>6. QED
    BY <2>3, <2>4, <2>5
<1>2. CASE SampleSpec \/ NextItem \/ FinishSpec \/ Crash
  BY <1>2 DEF SampleSpec, NextItem, FinishSpec, Crash, Earned
<1>3. CASE StartBatch \/ Generate \/ Repair \/ Publish \/ DerivePTF \/ UNCHANGED vars
  BY <1>3 DEF StartBatch, Generate, Repair, Publish, DerivePTF, vars, attempt, Earned
<1>4. CASE Review
  BY <1>4, ReviewCases DEF attempt, Earned
<1>5. QED
  BY <1>1, <1>2, <1>3, <1>4 DEF Next, Step


\* No step puts an unproven row into the table.
LEMMA ProvenStep ==
    Inv0 /\ Earned /\ AllProven(rows \o tx) /\ [Next]_vars => AllProven(rows' \o tx')
<1> SUFFICES ASSUME Inv0, Earned, AllProven(rows \o tx), [Next]_vars PROVE AllProven(rows' \o tx')
  OBVIOUS
<1>1. PICK s \in Seq(RowT), t \in Seq(RowT) : s = rows /\ t = tx
  BY DEF Inv0, Typed
<1>2. PICK all \in Seq(RowT) : all = s \o t /\ AllProven(all)
  BY <1>1, CommittedFirst
<1>3. /\ DOMAIN s \subseteq DOMAIN all /\ DOMAIN s = 1 .. Len(s) /\ Len(s) \in Nat
      /\ \A i \in DOMAIN s : all[i] = s[i]
  BY <1>2, CommittedFirst
<1>4. CASE rows' \o tx' = rows \o tx
  BY <1>4
<1>5. CASE rows' \o tx' = rows
  BY <1>1, <1>2, <1>5, ProvenPrefix
<1>6. ASSUME NEW r \in RowT, Flushes(r), rows' \o tx' = Append(rows \o tx, r)
      PROVE  AllProven(rows' \o tx')
  <2>1. spec.draw \in Spec_ /\ spec.draw \in Specs
    BY <1>6, PipelineAssumption DEF Flushes, Publish, DerivePTF, Inv0, Typed, InFlight
  <2>2. CASE \E found \in Survivor :
                /\ found \in ToSet(survivors) /\ found.cand.type = spec.draw.type
                /\ r = Row(spec.draw.type, found.cand.code, found.cand,
                           VerifiedLines(found.cand, spec.draw.hasBug), Nothing, 0, found.opinion)
    <3>1. PICK c \in Candidates, o \in Opinions :
            /\ c.type = spec.draw.type /\ Deserved(c, spec.draw.hasBug, o)
            /\ r = Row(spec.draw.type, c.code, c, VerifiedLines(c, spec.draw.hasBug), Nothing, 0, o)
      BY <2>2 DEF Survivor, ToSet, Earned
    <3>2. Proven(r) /\ r.type # PTF
      BY <2>1, <3>1, ShownIsProven
    <3>3. AllProven(Append(all, r))
      BY <1>2, <3>2, ProvenAppend
    <3>4. QED
      BY <1>1, <1>2, <1>6, <3>3
  <2>3. ASSUME NEW w \in WrongFixSets, NEW q \in RowT,
               tx = << q >>, q.type = STB, q.hasBug, spec.draw.hasBug, PTFAccepts(q.cand, w),
               r = Row(PTF, <<q.hash, w>>, q.cand, q.key, w, Len(rows) + 1, q.opinion)
        PROVE  AllProven(rows' \o tx')
    <3>1. /\ all = Append(s, q) /\ Len(all) = Len(s) + 1 /\ all[Len(s) + 1] = q
          /\ Len(s) + 1 \in DOMAIN all
      <4>1. all = s \o << q >>
        BY <1>1, <1>2, <2>3
      <4>2. all = Append(s, q)
        BY <4>1, AppendIsConcat
      <4>3. QED
        BY <4>2, AppendRow
    <3>2. Proven(q)
      BY <1>2, <3>1 DEF AllProven
    <3>3. Proven(r)
      BY <2>3, <3>2, DerivedIsProven
    <3>4. r.parent = Len(s) + 1 /\ r.cand = q.cand
      BY <1>1, <2>3 DEF Row
    <3>5. r.parent \in 1 .. Len(all) /\ all[r.parent].cand = r.cand
      BY <1>3, <3>1, <3>4
    <3>6. AllProven(Append(all, r))
      BY <1>2, <3>3, <3>5, ProvenAppend
    <3>7. QED
      BY <1>1, <1>2, <1>6, <3>6
  <2>4. QED
    BY <1>6, <2>2, <2>3 DEF Flushes
<1>7. ASSUME NEW i \in DOMAIN rows, NEW r \in RowT, NEW st \in {"live", "retired"},
             NEW b \in BOOLEAN, Reviews(i, r, st, b),
             rows' \o tx' = [(rows \o tx) EXCEPT ![i] = r]
      PROVE  AllProven(rows' \o tx')
  <2>1. i \in DOMAIN all /\ r = [all[i] EXCEPT !.status = st, !.revived = b]
    BY <1>1, <1>3, <1>7 DEF Reviews
  <2>2. AllProven([all EXCEPT ![i] = r])
    BY <1>2, <2>1, ProvenReview
  <2>3. QED
    BY <1>1, <1>2, <1>7, <2>2
<1>8. QED
  BY <1>4, <1>5, <1>6, <1>7, TableSteps

(* Whatever the models answer, and however often a candidate was repaired  *)
(* and the process killed, every row flushed or committed has been shown   *)
(* by execution to be what it claims: this is what the gates of            *)
(* orchestrator._evaluate_candidate are for.                               *)
THEOREM OnlyProvenIsPublished == Spec => []PublishedIsProven
<1> DEFINE I == Inv0 /\ Earned /\ AllProven(rows \o tx)
<1>1. Init => I
  <2> SUFFICES ASSUME Init PROVE I
    OBVIOUS
  <2>1. rows = << >> /\ tx = << >> /\ survivors = << >>
    BY DEF Init
  <2>2. rows \o tx = << >>
    BY <2>1, ConcatEmptySeq, EmptySeq
  <2>3. QED
    BY <2>1, <2>2, InitTyped DEF Earned, AllProven
<1>2. I /\ [Next]_vars => I'
  BY NextTyped, EarnedStep, ProvenStep
<1>3. I => PublishedIsProven
  BY DEF AllProven, PublishedIsProven
<1>4. QED
  BY <1>1, <1>2, <1>3, PTL DEF Spec

-----------------------------------------------------------------------------
(* Code that is listed once.                                               *)
Listing(r) == r.status \in {"in_review", "live"} /\ ~r.revived

Apart(all) ==
    \A p, q \in DOMAIN all :
        p < q /\ all[p].hash = all[q].hash /\ Listing(all[p]) /\ Listing(all[q])
            => all[p].type = PTF

(* While a process runs, its pool holds the code of all that is listed,    *)
(* whoever else approves or retires meanwhile: only a revived row may have *)
(* come back since the pool was read.                                      *)
PoolKnows(all, known) ==
    \A i \in DOMAIN all : Listing(all[i]) /\ all[i].type # PTF => all[i].hash \in known

NewCode ==
    pc \in {"generate", "evaluate", "repair", "publish"} =>
        \A i \in DOMAIN survivors : survivors[i].cand.code \notin pool

Distinct ==
    /\ Apart(rows \o tx)
    /\ pc # "down" => PoolKnows(rows \o tx, pool)
    /\ NewCode


\* A survivor has passed the pool, which nobody changes before it is published.
LEMMA NewCodeStep == Inv0 /\ NewCode /\ [Next]_vars => NewCode'
<1> SUFFICES ASSUME Inv0, NewCode, [Next]_vars PROVE NewCode'
  OBVIOUS
<1>1. CASE Evaluate
  <2>1. PICK c, h : c = lineage.cand /\ h = spec.draw.hasBug
    OBVIOUS
  <2>2. c \in Candidates /\ h \in BOOLEAN /\ pool' = pool /\ survivors \in Seq(Survivor)
        /\ pc = "evaluate"
    BY <1>1, <2>1, PipelineAssumption
       DEF Evaluate, process, Inv0, Typed, InFlight, Lineage, Spec_
  <2>3. PICK o \in Opinions :
            \/ /\ Verdict(c, h, o, pool) = NoRejection
               /\ \E found \in Survivor : survivors' = Append(survivors, found) /\ found.cand = c
            \/ survivors' = survivors
    BY <1>1, <2>1, EvaluateCases DEF Judge
  <2>4. ASSUME NEW found \in Survivor, survivors' = Append(survivors, found), found.cand = c,
               Verdict(c, h, o, pool) = NoRejection
        PROVE  NewCode'
    <3>1. c.code \notin pool
      BY <2>2, <2>4, SurvivorHolds
    <3>2. /\ DOMAIN survivors' = 1 .. Len(survivors) + 1 /\ Len(survivors) \in Nat
          /\ DOMAIN survivors = 1 .. Len(survivors)
          /\ \A i \in 1 .. Len(survivors) : survivors'[i] = survivors[i]
          /\ survivors'[Len(survivors) + 1] = found
      BY <2>2, <2>4, AppendProperties, LenProperties
    <3>3. ASSUME NEW i \in DOMAIN survivors' PROVE survivors'[i].cand.code \notin pool
      <4>1. i \in DOMAIN survivors \/ i = Len(survivors) + 1
        BY <3>2
      <4>2. QED
        BY <2>2, <2>4, <3>1, <3>2, <4>1 DEF NewCode
    <3>4. QED
      BY <2>2, <3>3 DEF NewCode
  <2>5. CASE survivors' = survivors
    BY <2>2, <2>5 DEF NewCode
  <2>6. QED
    BY <2>3, <2>4, <2>5
<1>2. CASE SampleSpec \/ NextItem \/ FinishSpec \/ Crash \/ StartBatch \/ Publish \/ DerivePTF
  BY <1>2 DEF SampleSpec, NextItem, FinishSpec, Crash, StartBatch, Publish, DerivePTF, NewCode
<1>3. CASE Generate \/ Repair
  BY <1>3 DEF Generate, Repair, process, NewCode
<1>4. CASE Review \/ UNCHANGED vars
  BY <1>4, ReviewCases DEF vars, process, attempt, NewCode
<1>5. QED
  BY <1>1, <1>2, <1>3, <1>4 DEF Next, Step

\* A row whose code the pool lacks is the twin of none.
LEMMA DistinctAppend ==
    ASSUME NEW t \in Seq(RowT), Apart(t), NEW r \in RowT,
           \A i \in DOMAIN t : Listing(t[i]) /\ t[i].type # PTF => t[i].hash # r.hash
    PROVE  Apart(Append(t, r))
<1> DEFINE u == Append(t, r)
<1>1. /\ DOMAIN t = 1 .. Len(t) /\ Len(t) \in Nat /\ DOMAIN u = 1 .. Len(t) + 1
      /\ \A i \in 1 .. Len(t) : u[i] = t[i]
      /\ u[Len(t) + 1] = r
  BY AppendRow
<1> HIDE DEF u
<1>2. ASSUME NEW p \in DOMAIN u, NEW q \in DOMAIN u, p < q, u[p].hash = u[q].hash,
             Listing(u[p]), Listing(u[q])
      PROVE  u[p].type = PTF
  <2>1. p \in DOMAIN t /\ u[p] = t[p]
    BY <1>1, <1>2
  <2>2. CASE q \in DOMAIN t
    <3>1. u[q] = t[q]
      BY <1>1, <2>2
    <3>2. QED
      BY <1>2, <2>1, <2>2, <3>1 DEF Apart
  <2>3. CASE q = Len(t) + 1
    BY <1>1, <1>2, <2>1, <2>3
  <2>4. QED
    BY <1>1, <2>2, <2>3
<1>3. Apart(u)
  BY <1>2 DEF Apart
<1>4. QED
  BY <1>3 DEF u

\* The pool takes the code of the row that is flushed.
LEMMA KnowsAppend ==
    ASSUME NEW t \in Seq(RowT), NEW r \in RowT, NEW old, NEW new, old \subseteq new,
           PoolKnows(t, old), r.type # PTF => r.hash \in new
    PROVE  PoolKnows(Append(t, r), new)
<1> DEFINE u == Append(t, r)
<1>1. /\ DOMAIN t = 1 .. Len(t) /\ Len(t) \in Nat /\ DOMAIN u = 1 .. Len(t) + 1
      /\ \A i \in 1 .. Len(t) : u[i] = t[i]
      /\ u[Len(t) + 1] = r
  BY AppendRow
<1> HIDE DEF u
<1>2. ASSUME NEW i \in DOMAIN u, Listing(u[i]), u[i].type # PTF PROVE u[i].hash \in new
  <2>1. i \in DOMAIN t \/ i = Len(t) + 1
    BY <1>1
  <2>2. QED
    BY <1>1, <1>2, <2>1 DEF PoolKnows
<1>3. QED
  BY <1>2 DEF u, PoolKnows

\* A reviewed row is listed only if it was, or has been revived.
LEMMA DistinctReview ==
    ASSUME NEW t \in Seq(RowT), Apart(t), NEW known, NEW i \in DOMAIN t, NEW r \in RowT,
           NEW st \in {"live", "retired"}, NEW b \in BOOLEAN,
           r = [t[i] EXCEPT !.status = st, !.revived = b],
           ~b => ~t[i].revived /\ (st = "retired" \/ t[i].status = "in_review")
    PROVE  /\ Apart([t EXCEPT ![i] = r])
           /\ PoolKnows(t, known) => PoolKnows([t EXCEPT ![i] = r], known)
<1> DEFINE u == [t EXCEPT ![i] = r]
<1>1. PICK q \in RowT : q = t[i]
  BY ElementOfSeq, LenProperties
<1>2. r.type = q.type /\ r.hash = q.hash /\ r.status = st /\ r.revived = b
  BY <1>1 DEF RowT, RowShape
<1>3. Listing(r) => Listing(q)
  BY <1>1, <1>2 DEF Listing
<1>4. DOMAIN u = DOMAIN t /\ u[i] = r /\ \A j \in DOMAIN t : j # i => u[j] = t[j]
  OBVIOUS
<1> HIDE DEF u
<1>5. \A j \in DOMAIN t : /\ u[j].type = t[j].type /\ u[j].hash = t[j].hash
                          /\ Listing(u[j]) => Listing(t[j])
  BY <1>1, <1>2, <1>3, <1>4
<1>6. Apart(u)
  BY <1>4, <1>5 DEF Apart
<1>7. PoolKnows(t, known) => PoolKnows(u, known)
  BY <1>4, <1>5 DEF PoolKnows
<1>8. QED
  BY <1>6, <1>7 DEF u

\* No step lists a code a second time.
LEMMA DistinctStep == Inv0 /\ Distinct /\ [Next]_vars => Distinct'
<1> SUFFICES ASSUME Inv0, Distinct, [Next]_vars
             PROVE  /\ Apart(rows' \o tx')
                    /\ pc' # "down" => PoolKnows(rows' \o tx', pool')
  BY NewCodeStep DEF Distinct
<1>1. PICK s \in Seq(RowT), t \in Seq(RowT) : s = rows /\ t = tx
  BY DEF Inv0, Typed
<1>2. PICK all \in Seq(RowT) : all = s \o t /\ Apart(all)
  BY <1>1, CommittedFirst DEF Distinct
<1>3. /\ DOMAIN s \subseteq DOMAIN all /\ DOMAIN s = 1 .. Len(s) /\ Len(s) \in Nat
      /\ \A i \in DOMAIN s : all[i] = s[i]
  BY <1>2, CommittedFirst
<1>4. pc # "down" => PoolKnows(all, pool)
  BY <1>1, <1>2 DEF Distinct
<1>5. CASE rows' \o tx' = rows \o tx /\ ~Publish
  <2>1. Apart(rows' \o tx')
    BY <1>1, <1>2, <1>5
  <2>2. CASE StartBatch
    <3>1. pool' = PoolHashes /\ rows \o tx = rows
      BY <2>2, ConcatEmptySeq DEF StartBatch, Inv0, Typed, Staged
    <3>2. PoolKnows(rows, PoolHashes)
      <4> SUFFICES ASSUME NEW i \in DOMAIN rows, Listing(rows[i]) PROVE rows[i].hash \in PoolHashes
        BY DEF PoolKnows
      <4>1. i \in Listed({"live", "in_review"})
        BY DEF Listing, Listed
      <4>2. QED
        BY <4>1 DEF PoolHashes
    <3>3. QED
      BY <1>5, <2>1, <3>1, <3>2
  <2>3. CASE ~StartBatch
    <3>1. pool' = pool /\ (pc' # "down" => pc # "down")
      <4>1. CASE SampleSpec \/ NextItem \/ Generate \/ Evaluate \/ Repair \/ DerivePTF \/ FinishSpec
        BY <4>1 DEF SampleSpec, NextItem, Generate, Evaluate, Repair, DerivePTF, FinishSpec, process
      <4>2. CASE Crash \/ UNCHANGED vars
        BY <4>2 DEF Crash, vars, process
      <4>3. CASE Review
        BY <4>3, ReviewCases DEF process
      <4>4. QED
        BY <1>5, <2>3, <4>1, <4>2, <4>3 DEF Next, Step
    <3>2. QED
      BY <1>1, <1>2, <1>4, <1>5, <2>1, <3>1
  <2>4. QED
    BY <2>2, <2>3
<1>6. CASE Crash /\ rows' \o tx' = rows
  <2>1. pc' = "down"
    BY <1>6 DEF Crash
  <2>2. Apart(s)
    BY <1>2, <1>3 DEF Apart
  <2>3. QED
    BY <1>1, <1>6, <2>1, <2>2
<1>7. ASSUME NEW r \in RowT, Flushes(r), rows' \o tx' = Append(rows \o tx, r)
      PROVE  Apart(rows' \o tx') /\ PoolKnows(rows' \o tx', pool')
  <2>1. rows' \o tx' = Append(all, r) /\ pc # "down"
    BY <1>1, <1>2, <1>7 DEF Flushes, Publish, DerivePTF
  <2>2. ASSUME NEW c, c \notin pool, r.hash = c, pool' = pool \cup {c}
        PROVE  Apart(rows' \o tx') /\ PoolKnows(rows' \o tx', pool')
    <3>1. \A i \in DOMAIN all : Listing(all[i]) /\ all[i].type # PTF => all[i].hash # r.hash
      BY <1>4, <2>1, <2>2 DEF PoolKnows
    <3>2. Apart(Append(all, r))
      BY <1>2, <3>1, DistinctAppend
    <3>3. PoolKnows(Append(all, r), pool')
      BY <1>4, <2>1, <2>2, KnowsAppend
    <3>4. QED
      BY <2>1, <3>2, <3>3
  <2>3. CASE \E found \in Survivor :
                /\ Publish /\ found \in ToSet(survivors)
                /\ r = Row(spec.draw.type, found.cand.code, found.cand,
                           VerifiedLines(found.cand, spec.draw.hasBug), Nothing, 0, found.opinion)
                /\ pool' = pool \cup {found.cand.code}
    <3>1. PICK c : c \notin pool /\ r.hash = c /\ pool' = pool \cup {c}
      BY <2>3 DEF Publish, Row, Distinct, NewCode, ToSet
    <3>2. QED
      BY <2>2, <3>1
  <2>4. ASSUME NEW w \in WrongFixSets, NEW q \in RowT, pool' = pool, q.type = STB,
               r = Row(PTF, <<q.hash, w>>, q.cand, q.key, w, Len(rows) + 1, q.opinion)
        PROVE  Apart(rows' \o tx') /\ PoolKnows(rows' \o tx', pool')
    <3>1. r.type = PTF /\ r.hash = <<q.hash, w>> /\ q.hash \in Codes
      BY <2>4 DEF Row, RowT, STB, PTF
    <3>2. ASSUME NEW i \in DOMAIN all, all[i].type # PTF PROVE all[i].hash # r.hash
      <4>1. all[i] \in RowT
        BY ElementOfSeq, LenProperties
      <4>2. all[i].hash \in Codes
        BY <3>2, <4>1 DEF RowT
      <4>3. QED
        BY <3>1, <4>2, PipelineAssumption
    <3>3. Apart(Append(all, r))
      BY <1>2, <3>2, DistinctAppend
    <3>4. PoolKnows(Append(all, r), pool')
      BY <1>4, <2>1, <2>4, <3>1, KnowsAppend
    <3>5. QED
      BY <2>1, <3>3, <3>4
  <2>5. QED
    BY <1>7, <2>3, <2>4 DEF Flushes
<1>8. ASSUME NEW i \in DOMAIN rows, NEW r \in RowT, NEW st \in {"live", "retired"},
             NEW b \in BOOLEAN, Reviews(i, r, st, b),
             rows' \o tx' = [(rows \o tx) EXCEPT ![i] = r]
      PROVE  Apart(rows' \o tx') /\ (pc' # "down" => PoolKnows(rows' \o tx', pool'))
  <2>1. i \in DOMAIN all /\ all[i] = rows[i]
    BY <1>1, <1>3
  <2>2. /\ r = [all[i] EXCEPT !.status = st, !.revived = b]
        /\ ~b => ~all[i].revived /\ (st = "retired" \/ all[i].status = "in_review")
    BY <1>8, <2>1 DEF Reviews
  <2>3. PICK known : known = pool
    OBVIOUS
  <2>4. /\ Apart([all EXCEPT ![i] = r])
        /\ PoolKnows(all, known) => PoolKnows([all EXCEPT ![i] = r], known)
    BY <1>2, <2>1, <2>2, DistinctReview
  <2>5. pool' = pool /\ pc' = pc
    BY <1>8, ReviewCases DEF Reviews, process
  <2>6. QED
    BY <1>1, <1>2, <1>4, <1>8, <2>3, <2>4, <2>5
<1>9. QED
  BY <1>5, <1>6, <1>7, <1>8, TableSteps

(* Of what is listed and was never brought back from retirement, no two    *)
(* spot_the_bugs or traces have the same code: the pool a run dedups       *)
(* against never misses one (orchestrator.fetch_dedup_pool_hashes).        *)
THEOREM CodeIsListedOnce == Spec => []NoTwins
<1>1. Init => Inv0 /\ Distinct
  <2> SUFFICES ASSUME Init PROVE Inv0 /\ Distinct
    OBVIOUS
  <2>1. rows = << >> /\ tx = << >> /\ pc = "down"
    BY DEF Init
  <2>2. rows \o tx = << >>
    BY <2>1, ConcatEmptySeq, EmptySeq
  <2>3. QED
    BY <2>1, <2>2, InitTyped DEF Distinct, Apart, NewCode
<1>2. Inv0 /\ Distinct /\ [Next]_vars => (Inv0 /\ Distinct)'
  BY NextTyped, DistinctStep
<1>3. Inv0 /\ Distinct => NoTwins
  <2> SUFFICES ASSUME Distinct, NEW p \in Twins PROVE (rows \o tx)[p[1]].type = PTF
    BY DEF NoTwins
  <2>1. PICK all : all = rows \o tx /\ Apart(all)
    BY DEF Distinct
  <2>2. /\ p[1] \in DOMAIN all /\ p[2] \in DOMAIN all /\ p[1] < p[2]
        /\ all[p[1]].hash = all[p[2]].hash
        /\ Listing(all[p[1]]) /\ Listing(all[p[2]])
    BY <2>1 DEF Twins, Listing
  <2>3. QED
    BY <2>1, <2>2 DEF Apart
<1>4. QED
  BY <1>1, <1>2, <1>3, PTL DEF Spec

-----------------------------------------------------------------------------
(* What a run has published, against what the table holds of it.           *)
Own(t, base) == {i \in DOMAIN t : t[i].job > base}

OwnPrimary(t, base) == {i \in Own(t, base) : t[i].type # PTF}

Own_(t, base) == Cardinality(Own(t, base))

Primary_(t, base) == Cardinality(OwnPrimary(t, base))

Jobs ==
    /\ \A i \in DOMAIN rows : rows[i].job <= specs
    /\ \A i \in DOMAIN tx : tx[i].job = specs

Busy == IF pc \in {"down", "sample"} THEN 0 ELSE 1

Accounted ==
    LET base == specs - report.sampled IN
    /\ Primary_(rows, base) + Primary_(tx, base) = report.published
    /\ Own_(rows, base) + Own_(tx, base) = report.published + report.ptf
    /\ Primary_(rows, base) + report.exhausted + Busy = report.sampled

\* The rows of a run are finitely many.
LEMMA CountsAreFinite ==
    ASSUME NEW t \in Seq(RowT), NEW base
    PROVE  /\ IsFiniteSet(Own(t, base)) /\ Own_(t, base) \in Nat
           /\ IsFiniteSet(OwnPrimary(t, base)) /\ Primary_(t, base) \in Nat
<1>1. DOMAIN t = 1 .. Len(t) /\ Len(t) \in Nat
  BY LenProperties
<1>2. IsFiniteSet(1 .. Len(t))
  BY <1>1, FS_Interval
<1>3. Own(t, base) \in SUBSET (1 .. Len(t)) /\ OwnPrimary(t, base) \in SUBSET (1 .. Len(t))
  BY <1>1 DEF Own, OwnPrimary
<1>4. QED
  BY <1>2, <1>3, FS_Subset, FS_CardinalityType DEF Own_, Primary_

\* Nothing counts.
LEMMA NoneCounts ==
    ASSUME NEW t \in Seq(RowT), NEW base, \A i \in DOMAIN t : ~(t[i].job > base)
    PROVE  Own_(t, base) = 0 /\ Primary_(t, base) = 0
<1>1. Own(t, base) = {} /\ OwnPrimary(t, base) = {}
  BY DEF Own, OwnPrimary
<1>2. QED
  BY <1>1, FS_EmptySet DEF Own_, Primary_

(* u is t and then r.                                                      *)
Extended(t, r, u) == u = Append(t, r)

\* Flushed is flushed, with what is committed in front of it.
LEMMA FlushExtended ==
    ASSUME NEW s \in Seq(RowT), NEW t \in Seq(RowT), NEW r \in RowT, NEW u, Extended(t, r, u)
    PROVE  Extended(s \o t, r, s \o u)
BY FlushOne DEF Extended

\* One more row of the run.
LEMMA CountsOne ==
    ASSUME NEW t \in Seq(RowT), NEW r \in RowT, NEW base, r.job > base,
           NEW u, Extended(t, r, u)
    PROVE  /\ Own_(u, base) = Own_(t, base) + 1
           /\ Primary_(u, base) = IF r.type = PTF THEN Primary_(t, base) ELSE Primary_(t, base) + 1
<1> DEFINE n == Len(t) + 1
<1>1. /\ DOMAIN t = 1 .. Len(t) /\ Len(t) \in Nat /\ DOMAIN u = DOMAIN t \cup {n}
      /\ n \notin DOMAIN t
      /\ \A i \in DOMAIN t : u[i] = t[i]
      /\ u[n] = r
  BY AppendRow DEF Extended
<1> HIDE DEF n
<1>2. Own(u, base) = Own(t, base) \cup {n} /\ n \notin Own(t, base)
  BY <1>1 DEF Own
<1>3. Own_(u, base) = Own_(t, base) + 1
  BY <1>2, CountsAreFinite, FS_AddElement DEF Own_
<1>4. CASE r.type = PTF
  <2>1. OwnPrimary(u, base) = OwnPrimary(t, base)
    BY <1>1, <1>2, <1>4 DEF OwnPrimary, Own
  <2>2. Primary_(u, base) = Primary_(t, base) /\ Primary_(t, base) \in Nat
    BY <2>1, CountsAreFinite DEF Primary_
  <2>3. QED
    BY <1>3, <1>4, <2>2
<1>5. CASE r.type # PTF
  <2>1. OwnPrimary(u, base) = OwnPrimary(t, base) \cup {n} /\ n \notin OwnPrimary(t, base)
    BY <1>1, <1>2, <1>5 DEF OwnPrimary, Own
  <2>2. Primary_(u, base) = Primary_(t, base) + 1
    BY <2>1, CountsAreFinite, FS_AddElement DEF Primary_
  <2>3. QED
    BY <1>3, <1>5, <2>2
<1>6. QED
  BY <1>4, <1>5

\* What a spec flushes is one row, and perhaps one derived from it.
LEMMA FlushedCounts ==
    ASSUME Inv0, Jobs, NEW base \in Int, specs > base
    PROVE  /\ Own_(rows \o tx, base) = Own_(rows, base) + Own_(tx, base)
           /\ Primary_(rows \o tx, base) = Primary_(rows, base) + Primary_(tx, base)
           /\ Primary_(tx, base) = IF tx = << >> THEN 0 ELSE 1
<1>1. PICK s \in Seq(RowT), t \in Seq(RowT) : s = rows /\ t = tx
  BY DEF Inv0, Typed
<1>2. DOMAIN t = 1 .. Len(t) /\ Len(t) \in Nat /\ \A i \in 1 .. Len(t) : t[i] \in RowT
  BY LenProperties, ElementOfSeq
<1>3. /\ \A i \in DOMAIN t : t[i].job > base
      /\ \A i \in DOMAIN t : i = 1 <=> t[i].type # PTF
      /\ t = << >> \/ Len(t) = 1 \/ Len(t) = 2
  <2>1. t = << >> \/ Len(t) \in 0 .. 2
    BY <1>1 DEF Inv0, Staged
  <2>2. Len(t) = 0 => t = << >>
    BY EmptySeq
  <2>3. QED
    BY <1>1, <1>2, <2>1, <2>2 DEF Inv0, Staged, Jobs
<1>4. PICK e \in Seq(RowT) : e = << >> /\ Own_(e, base) = 0 /\ Primary_(e, base) = 0
  <2>1. PICK e \in Seq(RowT) : e = << >>
    BY EmptySeq
  <2>2. DOMAIN e = {}
    BY <2>1
  <2>3. QED
    BY <2>1, <2>2, NoneCounts
<1>5. Own_(s, base) \in Nat /\ Primary_(s, base) \in Nat
  BY CountsAreFinite
<1>6. CASE t = << >>
  <2>1. s \o t = s
    BY <1>6, ConcatEmptySeq
  <2>2. QED
    BY <1>1, <1>4, <1>5, <1>6, <2>1
<1>7. ASSUME Len(t) \in {1, 2}
      PROVE  \E r \in RowT, a \in Seq(RowT), u \in Seq(RowT) :
                /\ r = t[1] /\ a = << r >> /\ u = s \o a
                /\ Own_(a, base) = 1 /\ Primary_(a, base) = 1
                /\ Own_(u, base) = Own_(s, base) + 1 /\ Primary_(u, base) = Primary_(s, base) + 1
  <2>1. PICK r \in RowT : r = t[1] /\ r.job > base /\ r.type # PTF
    BY <1>2, <1>3, <1>7
  <2>2. PICK a \in Seq(RowT) : a = << r >>
    <3>1. << r >> \in Seq(RowT)
      OBVIOUS
    <3>2. QED
      BY <3>1
  <2>3. Extended(e, r, a)
    BY <1>4, <2>2 DEF Extended
  <2>4. PICK u \in Seq(RowT) : u = s \o a /\ Extended(s, r, u)
    <3>1. s \o a \in Seq(RowT)
      BY ConcatProperties
    <3>2. s \o a = Append(s, r)
      BY <2>2, AppendIsConcat
    <3>3. QED
      BY <3>1, <3>2 DEF Extended
  <2>5. Own_(a, base) = 1 /\ Primary_(a, base) = 1
    <3>1. Own_(a, base) = Own_(e, base) + 1 /\ Primary_(a, base) = Primary_(e, base) + 1
      BY <2>1, <2>3, CountsOne
    <3>2. QED
      BY <1>4, <3>1
  <2>6. Own_(u, base) = Own_(s, base) + 1 /\ Primary_(u, base) = Primary_(s, base) + 1
    BY <2>1, <2>4, CountsOne
  <2>7. r = t[1] /\ a = << r >> /\ u = s \o a
    BY <2>1, <2>2, <2>4
  <2>8. QED
    BY <2>5, <2>6, <2>7
<1>8. CASE Len(t) = 1
  <2>1. t = << t[1] >> /\ t # << >>
    <3>1. PICK q \in RowT : q = t[1]
      BY <1>2, <1>8
    <3>2. << q >> \in Seq(RowT) /\ Len(<< q >>) = 1 /\ << q >>[1] = q
      OBVIOUS
    <3>3. t = << q >>
      <4>1. PICK a \in Seq(RowT) : a = << q >>
        BY <3>2
      <4>2. Len(a) = Len(t) /\ \A i \in 1 .. Len(t) : t[i] = a[i]
        BY <1>8, <3>1, <4>1
      <4>3. t = a
        BY <4>2, SeqEqual
      <4>4. QED
        BY <4>1, <4>3
    <3>4. QED
      BY <3>1, <3>3
  <2>2. QED
    BY <1>1, <1>5, <1>7, <1>8, <2>1
<1>9. CASE Len(t) = 2
  <2>1. PICK r \in RowT, a \in Seq(RowT), u \in Seq(RowT) :
                /\ r = t[1] /\ a = << r >> /\ u = s \o a
                /\ Own_(a, base) = 1 /\ Primary_(a, base) = 1
                /\ Own_(u, base) = Own_(s, base) + 1 /\ Primary_(u, base) = Primary_(s, base) + 1
    BY <1>7, <1>9
  <2>2. PICK q \in RowT : q = t[2] /\ q.job > base /\ q.type = PTF
    BY <1>2, <1>3, <1>9
  <2>3. Extended(a, q, t) /\ t # << >>
    <3>1. /\ Append(a, q) \in Seq(RowT) /\ Len(a) = 1 /\ Len(Append(a, q)) = 2
          /\ Append(a, q)[1] = a[1] /\ Append(a, q)[2] = q
      <4>1. Len(a) = 1
        BY <2>1
      <4>2. /\ Append(a, q) \in Seq(RowT) /\ Len(Append(a, q)) = Len(a) + 1
            /\ \A i \in 1 .. Len(a) : Append(a, q)[i] = a[i]
            /\ Append(a, q)[Len(a) + 1] = q
        BY AppendRow
      <4>3. QED
        BY <4>1, <4>2
    <3>2. a[1] = r
      BY <2>1
    <3>3. \A i \in 1 .. 2 : t[i] = Append(a, q)[i]
      BY <2>1, <2>2, <3>1, <3>2
    <3>4. QED
      <4>1. PICK d \in Seq(RowT) : d = Append(a, q)
        BY <3>1
      <4>2. t = d
        BY <1>9, <3>1, <3>3, <4>1, SeqEqual
      <4>3. QED
        BY <1>9, <4>1, <4>2, EmptySeq DEF Extended
  <2>4. PICK v : v = s \o t /\ Extended(u, q, v)
    BY <2>1, <2>3, FlushExtended
  <2>5. Own_(t, base) = Own_(a, base) + 1 /\ Primary_(t, base) = Primary_(a, base)
    BY <2>2, <2>3, CountsOne
  <2>6. Own_(v, base) = Own_(u, base) + 1 /\ Primary_(v, base) = Primary_(u, base)
    BY <2>2, <2>4, CountsOne
  <2>7. QED
    BY <1>1, <1>5, <2>1, <2>3, <2>4, <2>5, <2>6
<1>10. QED
  BY <1>3, <1>6, <1>8, <1>9


\* A review changes neither whose a row is nor what it is.
LEMMA ReviewedCounts == ASSUME Inv0, Review
    PROVE  /\ \A base : Own_(rows', base) = Own_(rows, base)
                        /\ Primary_(rows', base) = Primary_(rows, base)
           /\ Jobs => \A i \in DOMAIN rows' : rows'[i].job <= specs
<1>0. PICK s \in Seq(RowT) : s = rows
  BY DEF Inv0, Typed
<1>1. PICK u : s = rows /\ u = rows'
  BY <1>0
<1>2. PICK i \in 1 .. Len(s), r \in RowT : u = [s EXCEPT ![i] = r] /\ r.job = s[i].job
                                           /\ r.type = s[i].type
  <2>1. PICK i \in 1 .. Len(s), st \in {"live", "retired"}, b \in BOOLEAN :
            /\ u = [s EXCEPT ![i] = [s[i] EXCEPT !.status = st, !.revived = b]]
            /\ [s[i] EXCEPT !.status = st, !.revived = b] \in RowT
    BY <1>1, ReviewCases
  <2>2. PICK q \in RowT : q = s[i]
    BY ElementOfSeq
  <2>3. PICK r \in RowT : r = [q EXCEPT !.status = st, !.revived = b]
    BY <2>1, <2>2
  <2>4. r.job = q.job /\ r.type = q.type
    BY <2>3 DEF RowT, RowShape
  <2>5. QED
    BY <2>1, <2>2, <2>3, <2>4
<1>3. DOMAIN u = DOMAIN s /\ \A j \in DOMAIN s : u[j].job = s[j].job /\ u[j].type = s[j].type
  BY <1>2
<1>4. ASSUME NEW base PROVE Own(u, base) = Own(s, base) /\ OwnPrimary(u, base) = OwnPrimary(s, base)
  BY <1>3 DEF Own, OwnPrimary
<1>5. QED
  BY <1>1, <1>3, <1>4 DEF Own_, Primary_, Jobs

\* No rows, none of the run.
LEMMA EmptyCounts == \A base : Own_(<< >>, base) = 0 /\ Primary_(<< >>, base) = 0
<1>1. PICK e \in Seq(RowT) : e = << >>
  BY EmptySeq
<1>2. DOMAIN e = {}
  BY <1>1
<1>3. QED
  BY <1>1, <1>2, NoneCounts

\* A row bears the number of a spec that was drawn before it.
LEMMA JobsStep == Inv0 /\ Jobs /\ [Next]_vars => Jobs'
<1> SUFFICES ASSUME Inv0, Jobs, [Next]_vars PROVE Jobs'
  OBVIOUS
<1>1. CASE StartBatch \/ Generate \/ Evaluate \/ Repair \/ UNCHANGED vars
  BY <1>1 DEF StartBatch, Generate, Evaluate, Repair, vars, Jobs
<1>2. CASE SampleSpec \/ NextItem
  <2>1. specs' = specs + 1 /\ rows' = rows /\ tx' = tx /\ tx = << >> /\ specs \in Nat
    BY <1>2, PipelineAssumption, SMTT(30) DEF SampleSpec, NextItem, Inv0, Typed, Staged
  <2>2. ASSUME NEW i \in DOMAIN rows PROVE rows[i].job <= specs + 1
    <3>1. rows[i] \in RowT /\ rows[i].job <= specs
      <4>1. rows \in Seq(RowT)
        BY DEF Inv0, Typed
      <4>2. QED
        BY <4>1, ElementOfSeq, LenProperties DEF Jobs
    <3>2. PICK n \in Nat : n = rows[i].job
      BY <3>1 DEF RowT, RowShape
    <3>3. QED
      BY <2>1, <3>1, <3>2
  <2>3. QED
    BY <2>1, <2>2 DEF Jobs
<1>3. ASSUME NEW r \in RowT, r.job = specs, rows' = rows, specs' = specs, tx' = Append(tx, r)
      PROVE  Jobs'
  <2>1. PICK t \in Seq(RowT) : t = tx
    BY DEF Inv0, Typed
  <2>2. PICK u : u = Append(t, r)
    OBVIOUS
  <2>3. /\ DOMAIN t = 1 .. Len(t) /\ Len(t) \in Nat /\ DOMAIN u = 1 .. Len(t) + 1
        /\ \A i \in 1 .. Len(t) : u[i] = t[i]
        /\ u[Len(t) + 1] = r
    BY <2>2, AppendRow
  <2>4. \A i \in DOMAIN u : u[i].job = specs
    BY <1>3, <2>1, <2>3 DEF Jobs
  <2>5. QED
    BY <1>3, <2>1, <2>2, <2>4 DEF Jobs
<1>4. CASE Publish
  <2>1. PICK s \in Survivor :
            /\ s = Best(survivors)
            /\ Row(spec.draw.type, s.cand.code, s.cand, VerifiedLines(s.cand, spec.draw.hasBug),
                   Nothing, 0, s.opinion) \in RowT
    BY <1>4, PublishedRow DEF Publish, Survivor
  <2>2. QED
    BY <1>3, <1>4, <2>1 DEF Publish, Row
<1>5. CASE DerivePTF
  <2>1. CASE tx' = tx
    BY <1>5, <2>1 DEF DerivePTF, Jobs
  <2>2. ASSUME NEW w \in WrongFixSets,
               tx' = Append(tx, Row(PTF, <<tx[Len(tx)].hash, w>>, tx[Len(tx)].cand,
                            tx[Len(tx)].key, w, Len(rows) + Len(tx), tx[Len(tx)].opinion))
        PROVE  Jobs'
    <3>1. PICK r : r = Row(PTF, <<tx[1].hash, w>>, tx[1].cand, tx[1].key, w, Len(rows) + 1,
                           tx[1].opinion)
      OBVIOUS
    <3>2. r \in RowT /\ r.job = specs /\ tx' = Append(tx, r)
      BY <1>5, <2>2, <3>1, DerivedRow DEF DerivePTF, Row
    <3>3. QED
      BY <1>3, <1>5, <3>2 DEF DerivePTF
  <2>3. QED
    BY <1>5, <2>1, <2>2 DEF DerivePTF
<1>6. CASE FinishSpec
  <2>1. PICK s \in Seq(RowT), t \in Seq(RowT) : s = rows /\ t = tx
    BY DEF Inv0, Typed
  <2>2. rows' = s \o t /\ tx' = << >> /\ specs' = specs /\ specs \in Nat
    BY <1>6, <2>1, PipelineAssumption DEF FinishSpec, Commit, Inv0, Typed
  <2>3. /\ DOMAIN s = 1 .. Len(s) /\ Len(s) \in Nat /\ DOMAIN t = 1 .. Len(t) /\ Len(t) \in Nat
        /\ DOMAIN (s \o t) = 1 .. Len(s) + Len(t)
        /\ \A i \in 1 .. Len(s) + Len(t) :
              (s \o t)[i] = IF i <= Len(s) THEN s[i] ELSE t[i - Len(s)]
    BY ConcatProperties, LenProperties
  <2>4. ASSUME NEW i \in DOMAIN (s \o t) PROVE (s \o t)[i].job <= specs
    <3>1. CASE i \in DOMAIN s
      BY <2>1, <2>3, <3>1 DEF Jobs
    <3>2. CASE i \notin DOMAIN s
      <4>1. i - Len(s) \in DOMAIN t /\ (s \o t)[i] = t[i - Len(s)]
        BY <2>3, <3>2
      <4>2. QED
        BY <2>1, <2>2, <4>1 DEF Jobs
    <3>3. QED
      BY <3>1, <3>2
  <2>5. QED
    BY <2>2, <2>4 DEF Jobs
<1>7. CASE Crash
  BY <1>7 DEF Crash, Jobs
<1>8. CASE Review
  BY <1>8, ReviewCases, ReviewedCounts DEF Jobs
<1>9. QED
  BY <1>1, <1>2, <1>4, <1>5, <1>6, <1>7, <1>8 DEF Next, Step


Ledger == Jobs /\ (pc # "down" => Accounted)

\* Every step keeps the report in line with the table.
LEMMA LedgerStep == Inv0 /\ Ledger /\ [Next]_vars => Ledger'
<1> SUFFICES ASSUME Inv0, Ledger, [Next]_vars, pc' # "down" PROVE Accounted'
  BY JobsStep DEF Ledger
<1>1. PICK n \in Nat, R \in [sampled : Nat, published : Nat, ptf : Nat, exhausted : Nat] :
          n = specs /\ R = report
  BY PipelineAssumption DEF Inv0, Typed
<1>2. PICK s \in Seq(RowT), t \in Seq(RowT) : s = rows /\ t = tx
  BY DEF Inv0, Typed
<1>3. PICK base \in Int : base = n - R.sampled
  BY <1>1
<1>4. /\ Own_(s, base) \in Nat /\ Primary_(s, base) \in Nat
      /\ Own_(t, base) \in Nat /\ Primary_(t, base) \in Nat
  BY CountsAreFinite
<1>5. pc # "down" =>
        /\ Primary_(s, base) + Primary_(t, base) = R.published
        /\ Own_(s, base) + Own_(t, base) = R.published + R.ptf
        /\ Primary_(s, base) + R.exhausted + Busy = R.sampled
  BY <1>1, <1>2, <1>3 DEF Ledger, Accounted
<1>6. CASE StartBatch
  <2>1. /\ rows' = rows /\ tx' = tx /\ tx = << >> /\ specs' = specs /\ Busy' = 0
        /\ report'.sampled = 0 /\ report'.published = 0 /\ report'.ptf = 0 /\ report'.exhausted = 0
    BY <1>6 DEF StartBatch, NoReport, Busy, Inv0, Staged
  <2>2. ASSUME NEW i \in DOMAIN s PROVE ~(s[i].job > n)
    <3>1. s[i] \in RowT
      BY ElementOfSeq, LenProperties
    <3>2. PICK j \in Nat : j = s[i].job
      BY <3>1 DEF RowT, RowShape
    <3>3. s[i].job <= n
      BY <1>1, <1>2 DEF Ledger, Jobs
    <3>4. QED
      BY <3>2, <3>3
  <2>3. Own_(s, n) = 0 /\ Primary_(s, n) = 0
    BY <2>2, NoneCounts
  <2>4. Own_(t, n) = 0 /\ Primary_(t, n) = 0
    BY <1>2, <2>1, EmptyCounts
  <2>5. specs' - report'.sampled = n
    BY <1>1, <2>1
  <2>6. QED
    BY <1>2, <2>1, <2>3, <2>4, <2>5 DEF Accounted
<1>7. CASE SampleSpec \/ NextItem
  <2>1. /\ rows' = rows /\ tx' = tx /\ specs' = n + 1
        /\ report' = [R EXCEPT !.sampled = @ + 1]
        /\ Busy = 0 /\ Busy' = 1 /\ pc # "down"
    BY <1>1, <1>7 DEF SampleSpec, NextItem, Busy
  <2>2. /\ report'.sampled = R.sampled + 1 /\ report'.published = R.published
        /\ report'.ptf = R.ptf /\ report'.exhausted = R.exhausted
    BY <2>1
  <2>3. specs' - report'.sampled = base
    BY <1>3, <2>1, <2>2
  <2>4. Primary_(s, base) + R.exhausted + 1 = R.sampled + 1
    BY <1>4, <1>5, <2>1
  <2>5. QED
    BY <1>2, <1>5, <2>1, <2>2, <2>3, <2>4 DEF Accounted
<1>8. CASE Generate \/ Evaluate \/ Repair
  <2>1. rows' = rows /\ tx' = tx /\ specs' = specs /\ report' = report /\ pc # "down"
    BY <1>8 DEF Generate, Evaluate, Repair
  <2>2. pc \notin {"down", "sample"} /\ pc' \notin {"down", "sample"}
    <3>1. CASE Generate
      BY <3>1 DEF Generate, Resume
    <3>2. CASE Repair
      BY <3>2 DEF Repair, Resume
    <3>3. CASE Evaluate
      <4>1. pc' \in {"generate", "publish", "repair", Resume(asked)}
        BY <3>3, EvaluateCases
      <4>2. QED
        BY <3>3, <4>1 DEF Evaluate, Resume
    <3>4. QED
      BY <1>8, <3>1, <3>2, <3>3
  <2>3. Busy = 1 /\ Busy' = 1
    BY <2>2 DEF Busy
  <2>4. QED
    BY <1>1, <1>2, <1>3, <1>5, <2>1, <2>3 DEF Accounted
<1>9. ASSUME pc \notin {"down", "sample"} PROVE n > base /\ Busy = 1
  <2>1. Busy = 1
    BY <1>9 DEF Busy
  <2>2. Primary_(s, base) + R.exhausted + 1 = R.sampled
    BY <1>5, <1>9, <2>1
  <2>3. R.sampled >= 1
    BY <1>4, <2>2
  <2>4. QED
    BY <1>3, <2>1, <2>3
<1>10. CASE Publish
  <2>1. /\ tx = << >> /\ rows' = rows /\ specs' = specs
        /\ report' = [R EXCEPT !.published = @ + 1]
        /\ pc = "publish" /\ pc' \in {"derive", "finish"}
    BY <1>1, <1>10 DEF Publish, Inv0, Staged
  <2>2. PICK r \in RowT : tx' = Append(tx, r) /\ r.job = specs /\ r.type # PTF
    <3>1. PICK q \in Survivor :
            /\ q = Best(survivors)
            /\ Row(spec.draw.type, q.cand.code, q.cand, VerifiedLines(q.cand, spec.draw.hasBug),
                   Nothing, 0, q.opinion) \in RowT
      BY <2>1, PublishedRow DEF Survivor
    <3>2. spec.draw.type \in Types
      BY <2>1, PipelineAssumption DEF Inv0, Typed, InFlight, Spec_
    <3>3. QED
      BY <1>10, <3>1, <3>2 DEF Publish, Row, Types, STB, TRACE, PTF
  <2>3. PICK u : u = tx' /\ Extended(t, r, u)
    BY <1>2, <2>2 DEF Extended
  <2>4. r.job > base
    BY <1>1, <1>9, <2>1, <2>2
  <2>5. Own_(u, base) = Own_(t, base) + 1 /\ Primary_(u, base) = Primary_(t, base) + 1
    BY <2>2, <2>3, <2>4, CountsOne
  <2>6. Own_(t, base) = 0 /\ Primary_(t, base) = 0
    BY <1>2, <2>1, EmptyCounts
  <2>7. /\ report'.sampled = R.sampled /\ report'.published = R.published + 1
        /\ report'.ptf = R.ptf /\ report'.exhausted = R.exhausted
    BY <2>1
  <2>8. Busy' = 1 /\ specs' - report'.sampled = base
    BY <1>1, <1>3, <2>1, <2>7 DEF Busy
  <2>9. /\ Primary_(s, base) + Primary_(u, base) = R.published + 1
        /\ Own_(s, base) + Own_(u, base) = R.published + 1 + R.ptf
        /\ Primary_(s, base) + R.exhausted + 1 = R.sampled
    BY <1>4, <1>5, <1>9, <2>1, <2>5, <2>6
  <2>10. QED
    BY <1>2, <2>1, <2>3, <2>7, <2>8, <2>9 DEF Accounted
<1>11. CASE DerivePTF
  <2>1. pc = "derive" /\ pc' = "finish" /\ rows' = rows /\ specs' = specs
    BY <1>11 DEF DerivePTF
  <2>2. Busy' = 1 /\ Busy = 1
    BY <2>1, <1>9 DEF Busy
  <2>3. CASE UNCHANGED <<tx, report>>
    BY <1>1, <1>2, <1>3, <1>5, <2>1, <2>2, <2>3 DEF Accounted
  <2>4. ASSUME NEW w \in WrongFixSets,
               tx' = Append(tx, Row(PTF, <<tx[Len(tx)].hash, w>>, tx[Len(tx)].cand,
                            tx[Len(tx)].key, w, Len(rows) + Len(tx), tx[Len(tx)].opinion)),
               report' = [report EXCEPT !.ptf = @ + 1]
        PROVE  Accounted'
    <3>1. PICK r : r = Row(PTF, <<tx[1].hash, w>>, tx[1].cand, tx[1].key, w, Len(rows) + 1,
                           tx[1].opinion)
      OBVIOUS
    <3>2. r \in RowT /\ r.job = specs /\ r.type = PTF /\ tx' = Append(tx, r)
      BY <2>1, <2>4, <3>1, DerivedRow DEF Row
    <3>3. PICK u : u = tx' /\ Extended(t, r, u)
      BY <1>2, <3>2 DEF Extended
    <3>4. r.job > base
      BY <1>1, <1>9, <2>1, <3>2
    <3>5. Own_(u, base) = Own_(t, base) + 1 /\ Primary_(u, base) = Primary_(t, base)
      BY <3>2, <3>3, <3>4, CountsOne
    <3>6. /\ report'.sampled = R.sampled /\ report'.published = R.published
          /\ report'.ptf = R.ptf + 1 /\ report'.exhausted = R.exhausted
      BY <1>1, <2>4
    <3>7. specs' - report'.sampled = base
      BY <1>1, <1>3, <2>1, <3>6
    <3>8. Own_(s, base) + Own_(u, base) = R.published + (R.ptf + 1)
      <4>1. Own_(s, base) + Own_(t, base) = R.published + R.ptf
        BY <1>5, <2>1
      <4>2. /\ Own_(s, base) \in Nat /\ Own_(t, base) \in Nat
            /\ R.published \in Nat /\ R.ptf \in Nat
        BY <1>4
      <4>3. PICK a \in Nat, b \in Nat, p \in Nat, q \in Nat :
               a = Own_(s, base) /\ b = Own_(t, base) /\ p = R.published /\ q = R.ptf
        BY <4>2
      <4>4. a + (b + 1) = p + (q + 1)
        <5>1. a + b = p + q
          BY <4>1, <4>3
        <5>2. QED
          BY <5>1
      <4>5. QED
        BY <3>5, <4>3, <4>4
    <3>9. QED
      BY <1>2, <1>5, <2>1, <2>2, <3>3, <3>5, <3>6, <3>7, <3>8 DEF Accounted
  <2>5. QED
    BY <1>11, <2>3, <2>4 DEF DerivePTF
<1>12. CASE FinishSpec
  <2>1. /\ pc = "finish" /\ pc' = "sample" /\ rows' = rows \o tx /\ tx' = << >> /\ specs' = specs
        /\ report' = IF survivors # << >> THEN R ELSE [R EXCEPT !.exhausted = @ + 1]
    BY <1>1, <1>12 DEF FinishSpec, Commit
  <2>2. Busy' = 0
    BY <2>1 DEF Busy
  <2>3. PICK all : all = s \o t /\ all = rows'
    BY <1>2, <2>1
  <2>4. /\ Own_(all, base) = Own_(s, base) + Own_(t, base)
        /\ Primary_(all, base) = Primary_(s, base) + Primary_(t, base)
        /\ Primary_(t, base) = IF t = << >> THEN 0 ELSE 1
    <3>1. specs > base
      BY <1>1, <1>9, <2>1
    <3>2. QED
      BY <1>2, <2>3, <3>1, FlushedCounts DEF Ledger
  <2>5. t = << >> <=> survivors = << >>
    BY <1>2, <2>1 DEF Inv0, Staged
  <2>6. /\ report'.sampled = R.sampled /\ report'.published = R.published
        /\ report'.ptf = R.ptf
        /\ report'.exhausted = IF survivors # << >> THEN R.exhausted ELSE R.exhausted + 1
    BY <2>1
  <2>7. specs' - report'.sampled = base
    BY <1>1, <1>3, <2>1, <2>6
  <2>8. PICK e : e = tx' /\ Own_(e, base) = 0 /\ Primary_(e, base) = 0
    BY <2>1, EmptyCounts
  <2>9. /\ Primary_(all, base) = R.published
        /\ Own_(all, base) = R.published + R.ptf
        /\ Primary_(s, base) + R.exhausted + 1 = R.sampled
    BY <1>4, <1>5, <1>9, <2>1, <2>4
  <2>10. Primary_(all, base) + report'.exhausted = R.sampled
    BY <1>4, <2>4, <2>5, <2>6, <2>9
  <2>11. /\ Primary_(all, base) + 0 = R.published
         /\ Own_(all, base) + 0 = R.published + R.ptf
         /\ Primary_(all, base) + report'.exhausted + 0 = R.sampled
    <3>1. Primary_(all, base) \in Nat /\ Own_(all, base) \in Nat /\ report'.exhausted \in Nat
      BY <1>4, <2>4, <2>6
    <3>2. QED
      BY <2>9, <2>10, <3>1
  <2>12. QED
    BY <2>2, <2>3, <2>6, <2>7, <2>8, <2>11 DEF Accounted
<1>13. CASE Crash
  BY <1>13 DEF Crash
<1>14. CASE Review
  <2>1. tx' = tx /\ specs' = specs /\ report' = report /\ pc' = pc
    BY <1>14, ReviewCases
  <2>2. Own_(rows', base) = Own_(s, base) /\ Primary_(rows', base) = Primary_(s, base)
    BY <1>2, <1>14, ReviewedCounts
  <2>3. Busy' = Busy
    BY <2>1 DEF Busy
  <2>4. QED
    BY <1>1, <1>2, <1>3, <1>5, <2>1, <2>2, <2>3 DEF Accounted
<1>15. CASE UNCHANGED vars
  BY <1>15 DEF vars, Ledger, Accounted, Busy
<1>16. QED
  BY <1>6, <1>7, <1>8, <1>10, <1>11, <1>12, <1>13, <1>14, <1>15 DEF Next, Step

(* A crash costs the spec in flight and no other, in any number of runs:   *)
(* what a report counts as published is in the table or about to be        *)
(* (orchestrator.run_batch, commit_after_each_spec).                       *)
THEOREM CrashCostsOneSpec == Spec => []OnlyInFlightLost
<1>1. Init => Inv0 /\ Ledger
  <2> SUFFICES ASSUME Init PROVE Inv0 /\ Ledger
    OBVIOUS
  <2>1. rows = << >> /\ tx = << >> /\ pc = "down"
    BY DEF Init
  <2>2. QED
    BY <2>1, InitTyped DEF Ledger, Jobs
<1>2. Inv0 /\ Ledger /\ [Next]_vars => (Inv0 /\ Ledger)'
  BY NextTyped, LedgerStep
<1>3. Inv0 /\ Ledger => OnlyInFlightLost
  BY DEF Ledger, Jobs, Accounted, OnlyInFlightLost, Own_, Primary_, Own, OwnPrimary, Busy
<1>4. QED
  BY <1>1, <1>2, <1>3, PTL DEF Spec
=============================================================================
