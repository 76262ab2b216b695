--------------------------- MODULE MCPipelineBatch ---------------------------
(* A small instance of PipelineBatch: two classes of code, candidates that *)
(* pass or fail in the ways that take different branches, and the answers  *)
(* of the judge that agree with one of them, flag it or reject it.         *)
EXTENDS PipelineBatch

CONSTANTS a, b, t

MCConcepts == {"scope"}
MCReasons == {"r1", "r2"}
MCCodes == {a, b, t}

Good == [type |-> STB, code |-> a, static |-> {}, buggyTest |-> "assert", fixedTest |-> "pass",
         alone |-> "pass", stable |-> TRUE, fix |-> "edit", diff |-> {3}, size |-> 9,
         declared |-> {3}, claims |-> "right", notes |-> {3}, key |-> "r1"]
Hinted == [Good EXCEPT !.static = {"hint"}]
WeakTest == [Good EXCEPT !.buggyTest = "pass"]
Flaky == [WeakTest EXCEPT !.stable = FALSE]
Other == [Good EXCEPT !.code = b, !.key = "r2", !.declared = {4}]
Sound == [Good EXCEPT !.buggyTest = "pass", !.fix = "same", !.diff = {}, !.declared = {},
                      !.claims = "none"]
Traced == [type |-> TRACE, code |-> t, static |-> {}, alone |-> "pass", stable |-> TRUE,
           claims |-> "right", distinct |-> TRUE, size |-> 9, quoted |-> TRUE]
Mistraced == [Traced EXCEPT !.claims = "wrong"]
MCCandidates == {Good, Hinted, WeakTest, Flaky, Other, Sound, Traced, Mistraced}

Answer(defects, line, confidence, reason) ==
    [audit |-> [ok |-> TRUE, defects |-> defects],
     solver |-> [ok |-> TRUE, problems |-> FALSE, line |-> line, right |-> TRUE,
                 confidence |-> confidence],
     reasons |-> [ok |-> TRUE, partly |-> {}, correct |-> {reason}]]
MCOpinions == {Answer({{3}}, 3, 95, "r1"), Answer({}, 0, 50, "r1"), Answer({{3}}, 3, 70, "r2"),
               Answer({{3}, {7}}, 3, 70, "r1")}

MCWrongFixSets == {[static |-> TRUE, outcomes |-> <<"assert", "assert", x>>, stable |-> TRUE,
                    distinct |-> TRUE] : x \in {"assert", "pass"}}

MCSpecs == {[type |-> STB, concept |-> "scope", difficulty |-> 8, hasBug |-> bug] : bug \in BOOLEAN}
           \cup {[type |-> TRACE, concept |-> "scope", difficulty |-> 2, hasBug |-> FALSE]}
=============================================================================
