--------------------------- MODULE CandidateGates ---------------------------
(***************************************************************************)
(* The gates a generated exercise has to pass, as functions of what is     *)
(* true of the candidate and of what the judge model answers.              *)
(*                                                                         *)
(* A candidate is a record of facts: which static violations its code has, *)
(* what running it in the sandbox does, which lines its fix changes and    *)
(* what its author claims of it. Texts, prompts and syntax trees are left  *)
(* out; every decision that is made about them is here. Scores and         *)
(* confidences are in hundredths.                                          *)
(***************************************************************************)
EXTENDS Integers, Sequences, FiniteSets, FiniteSetsExt, SequencesExt

CONSTANTS
    Codes,        \* classes of code with one AST-normalised hash
    Reasons       \* ids of the reason options of an exercise

STB == "spot_the_bug"
TRACE == "trace"

(* What a run in the sandbox ends in: "assert" is an AssertionError,       *)
(* "error" any other failure or the time limit, the container removed in   *)
(* every case.                                                             *)
Outcomes == {"assert", "error", "pass"}

(* The candidate of a spot_the_bug spec. *)
STBCandidate == [type : {STB}, code : Codes, static : SUBSET {"import", "hint", "length"},
                 buggyTest : Outcomes, fixedTest : Outcomes,
                 alone : {"pass", "error"}, stable : BOOLEAN,
                 fix : {"same", "insertion", "edit"}, diff : SUBSET Nat, size : Nat,
                 declared : SUBSET Nat, claims : {"none", "right", "wrong"},
                 notes : SUBSET Nat, key : Reasons]

TraceCandidate == [type : {TRACE}, code : Codes, static : SUBSET {"import", "hint", "length"},
                   alone : {"pass", "error"}, stable : BOOLEAN, claims : {"right", "wrong"},
                   distinct : BOOLEAN, size : Nat, quoted : BOOLEAN]

-----------------------------------------------------------------------------
(* The static gate: the code the user reads must have no violation at all. *)
StaticAccepts(c) == c.static = {}

(* The sandbox gate: named checks in the order the code makes them. *)
Check(name, passed) == [name |-> name, passed |-> passed]

RewriteCap(size) == Max({5, (size + 4) \div 5})

STBChecks(c, hasBug) ==
    << IF hasBug THEN Check("buggy_fails_test", c.buggyTest = "assert")
                 ELSE Check("buggy_passes_test_when_no_bug", c.buggyTest = "pass"),
       Check("fixed_passes_test", c.fixedTest = "pass"),
       Check("buggy_runs_clean", c.alone = "pass"),
       Check("deterministic_double_run", c.stable),
       Check("fix_diff_real_and_minimal",
             IF hasBug THEN c.diff # {} /\ Cardinality(c.diff) <= RewriteCap(c.size)
                       ELSE c.fix = "same" /\ c.declared = {}) >>
    \o (IF hasBug /\ c.claims # "none"
        THEN << Check("stb_claim_matches_execution", c.claims = "right") >> ELSE << >>)

TraceChecks(c) ==
    << Check("code_runs_clean", c.alone = "pass"),
       Check("deterministic_double_run", c.stable),
       Check("captured_output_matches_claim", c.claims = "right"),
       Check("captured_output_distinct_from_distractors", c.distinct) >>

SandboxChecks(c, hasBug) == IF c.type = STB THEN STBChecks(c, hasBug) ELSE TraceChecks(c)

Failing(checks) == {i \in DOMAIN checks : ~checks[i].passed}

(* The answer key is the diff the sandbox verified, never what was declared. *)
VerifiedLines(c, hasBug) == IF c.type = STB /\ hasBug THEN c.diff ELSE {}

ClaimMismatch(c, hasBug) == c.type = STB /\ hasBug /\ c.diff # c.declared

-----------------------------------------------------------------------------
(* Classification of a rejection: only these checks may be repaired, and a *)
(* set of failures only if all of them may.                                *)
RepairableChecks == {"static_gate", "buggy_fails_test", "fixed_passes_test",
                     "stb_claim_matches_execution", "captured_output_matches_claim"}

Rejection(stage, check, repairable) == [stage |-> stage, check |-> check, repairable |-> repairable]

ClassifyStatic == Rejection("static_gate", "static_gate", TRUE)

\* Under the name of the first that failed.
ClassifySandbox(checks) ==
    Rejection("sandbox_gate", checks[Min(Failing(checks))].name,
              \A i \in Failing(checks) : checks[i].name \in RepairableChecks)

ClassifyFundamental(stage, check) == Rejection(stage, check, FALSE)

-----------------------------------------------------------------------------
(* The judge model answers three prompts; an unreadable answer has ok =    *)
(* FALSE. defects is a set of defects, each the set of lines it names.     *)
AuditAnswer == [ok : BOOLEAN, defects : SUBSET (SUBSET Nat)]
SolverAnswer == [ok : BOOLEAN, problems : BOOLEAN, line : Nat, right : BOOLEAN, confidence : 0 .. 100]
ReasonsAnswer == [ok : BOOLEAN, partly : SUBSET Reasons, correct : SUBSET Reasons]
Opinion == [audit : AuditAnswer, solver : SolverAnswer, reasons : ReasonsAnswer]

LINE_WINDOW == 2

NearBug(lines, key) ==
    /\ key # {}
    /\ \/ lines \cap key # {}
       \/ \E l \in lines : Min(key) - LINE_WINDOW <= l /\ l <= Max(key) + LINE_WINDOW

DefectAudit(a, hasBug, key) ==
    IF ~a.ok THEN "reject"
    ELSE IF hasBug
         THEN IF a.defects = {} THEN "flag"
              ELSE IF Cardinality(a.defects) = 1 /\ \E d \in a.defects : NearBug(d, key)
                   THEN "pass" ELSE "reject"
         ELSE IF a.defects = {} THEN "pass" ELSE "flag"

(* A trace answer must consist of the choice alone; a bug is matched on    *)
(* any of its lines; without a bug only the reason is compared.            *)
SolverMatches(s, c, key) ==
    /\ s.right
    /\ c.type = TRACE => s.line = 0
    /\ key # {} => s.line \in key

Solver(s, c, key) ==
    IF ~s.ok THEN "reject"
    ELSE IF s.problems THEN "flag"
    ELSE IF SolverMatches(s, c, key) THEN "pass"
    ELSE IF s.confidence >= 80 THEN "reject" ELSE "flag"

ReasonsGate(r, c) ==
    IF r.ok /\ r.partly = {} /\ r.correct = {c.key} THEN "pass" ELSE "reject"

(* The semantic gates in order, up to the first REJECT; "" when none. *)
SemanticReject(c, hasBug, o) ==
    LET key == VerifiedLines(c, hasBug) IN
    IF c.type = STB /\ DefectAudit(o.audit, hasBug, key) = "reject" THEN "defect_audit"
    ELSE IF Solver(o.solver, c, key) = "reject" THEN "solver"
    ELSE IF c.type = STB /\ ReasonsGate(o.reasons, c) = "reject" THEN "reasons"
    ELSE ""

Flagged(c, hasBug, o) ==
    \/ c.type = STB /\ DefectAudit(o.audit, hasBug, VerifiedLines(c, hasBug)) = "flag"
    \/ Solver(o.solver, c, VerifiedLines(c, hasBug)) = "flag"

-----------------------------------------------------------------------------
(* The whole chain, static -> sandbox -> semantic -> dedup. NoRejection is *)
(* a survivor.                                                             *)
NoRejection == Rejection("", "", FALSE)

\* The AST-normalised hash of the code is that of one of the pool.
Duplicate(c, pool) == c.code \in pool

Verdict(c, hasBug, o, pool) ==
    IF ~StaticAccepts(c) THEN ClassifyStatic
    ELSE LET checks == SandboxChecks(c, hasBug) IN
    IF Failing(checks) # {} THEN ClassifySandbox(checks)
    ELSE IF SemanticReject(c, hasBug, o) # ""
         THEN ClassifyFundamental("semantic_gate", SemanticReject(c, hasBug, o))
    ELSE IF Duplicate(c, pool) THEN ClassifyFundamental("dedup", "dedup")
    ELSE NoRejection

-----------------------------------------------------------------------------
(* The quality score of a survivor. *)
Breezed(c, difficulty, s, matched) == difficulty >= 7 /\ matched /\ s.confidence >= 90

Score(c, hasBug, difficulty, o) ==
    LET key == VerifiedLines(c, hasBug)
        s == o.solver
        matched == Solver(s, c, key) = "pass"
        Term(holds, points) == IF holds THEN points ELSE 0
        sum == 100
            + Term(Breezed(c, difficulty, s, matched), -40)
            + Term(difficulty >= 7 /\ matched /\ s.confidence <= 60, 15)
            + Term(key # {} /\ Min(key) <= 2, -20)
            + Term(ClaimMismatch(c, hasBug), -15)
            + Term(difficulty >= 6 /\ c.size < 8, -20)
            + Term(Flagged(c, hasBug, o), -25)
    IN  Max({0, Min({100, sum})})

(* What the stored explanation says confirmed the exercise. *)
ConfirmedBy(c, hasBug) ==
    IF c.type = TRACE THEN "double run"
    ELSE IF hasBug THEN "twin snippet" ELSE "zero defects"

ExplanationMismatch(c, hasBug) ==
    IF c.type = TRACE THEN ~c.quoted ELSE hasBug /\ c.notes \cap c.diff = {}

-----------------------------------------------------------------------------
(* predict_the_fix: the wrong fixes offered next to the verified one.      *)
(* outcomes is what each of the three does with the parent's test.         *)
WrongFixes == [static : BOOLEAN, outcomes : Seq(Outcomes),
               stable : BOOLEAN, distinct : BOOLEAN]

PTFChecks(c, w) ==
    << Check("correct_fix_passes_test", c.fixedTest = "pass"),
       Check("buggy_fails_test", c.buggyTest = "assert") >>
    \o [i \in DOMAIN w.outcomes |-> Check("distractor_still_fails_test", w.outcomes[i] = "assert")]
    \o << Check("deterministic_double_run", w.stable),
          Check("distractors_distinct", w.distinct) >>

PTFAccepts(c, w) == w.static /\ Failing(PTFChecks(c, w)) = {}
=============================================================================
