---------------------------- MODULE PipelineBatch ----------------------------
(***************************************************************************)
(* One run of the content pipeline at a time: pipeline/orchestrator.py     *)
(* asks a model for candidates until one passes every gate of              *)
(* CandidateGates, repairs what may be repaired, publishes the best        *)
(* survivor for review and derives a predict_the_fix from it;              *)
(* pipeline/ingest.py sends hand-written candidates down the same path.    *)
(* Every call of a model may raise, and the process may be killed: what    *)
(* it has flushed but not committed is gone. Reviewers work on the         *)
(* committed rows meanwhile.                                               *)
(*                                                                         *)
(* The answers of the models are inputs. A candidate's own list of         *)
(* concepts is taken to be the concept it was asked for.                   *)
(***************************************************************************)
EXTENDS CandidateGates

CONSTANTS
    Nothing,         \* no spec, no candidate, no mechanism
    Concepts,
    Candidates,      \* what a generator may write
    Opinions,        \* what the judge model may answer about one candidate
    WrongFixSets,    \* what a generator may offer next to a verified fix
    Specs,           \* what the sampler may draw: [type, concept, difficulty, hasBug]
    MAX_ATTEMPTS_PER_SPEC, MAX_REPAIR_ROUNDS, BEST_OF_N_MAX_SURVIVORS,
    SCORE_THRESHOLD, COVERAGE_THRESHOLD, HISTORY_DEPTH,
    MaxSpecs, MaxReviews     \* bounds, over all runs

PTF == "predict_the_fix"
Types == {STB, TRACE}
Spec_ == [type : Types, concept : Concepts, difficulty : 1 .. 10, hasBug : BOOLEAN]

ASSUME PipelineAssumption ==
    /\ Candidates \subseteq STBCandidate \cup TraceCandidate
    /\ \A c \in Candidates : c.type = STB => IsFiniteSet(c.diff)
    /\ Opinions \subseteq Opinion /\ WrongFixSets \subseteq WrongFixes
    /\ \A c, d \in Codes, w \in WrongFixSets : c # <<d, w>>
    /\ Specs \subseteq Spec_
    /\ \A s \in Specs : s.type = TRACE => ~s.hasBug
    /\ MAX_ATTEMPTS_PER_SPEC \in Nat \ {0} /\ MAX_REPAIR_ROUNDS \in Nat
    /\ HISTORY_DEPTH \in Nat /\ MaxSpecs \in Nat

VARIABLES
    rows,        \* the exercises table, committed
    tx,          \* rows flushed by the running process and not committed
    pc,          \* what the process does next; "down" when none runs
    mode,        \* "orchestrator" or "ingest"
    size,        \* how many specs it is to resolve (--n, or the items of a file)
    specs,       \* number of specs drawn so far, by all runs
    pool,        \* its set of code hashes
    coverage,    \* its count of live exercises per type and concept
    history,     \* its recent bug mechanisms per concept, most recent first
    report,      \* its counters
    spec,        \* the spec in flight, with the mechanisms it says to avoid
    asked,       \* generator calls charged to the spec, oldest first
    lineage,     \* the candidate in flight and the repairs it has had
    survivors,   \* candidates of the spec that passed every gate
    reviews      \* decisions of reviewers so far, for the bound

vars == <<rows, tx, pc, mode, size, specs, pool, coverage, history, report, spec, asked,
          lineage, survivors, reviews>>
process == <<mode, size, pool, coverage, history>>
attempt == <<spec, asked, lineage, survivors>>

NoReport == [sampled |-> 0, published |-> 0, ptf |-> 0, exhausted |-> 0]
NoHistory == [c \in Concepts |-> << >>]
NoCoverage == [k \in Types \X Concepts |-> 0]

Fresh(c) == [cand |-> c, rounds |-> 0, triggered |-> {}, rejection |-> NoRejection]

-----------------------------------------------------------------------------
(* What a run reads of the table before its first spec. *)
Listed(s) == {i \in DOMAIN rows : rows[i].status \in s}

PoolOfLive == {rows[i].hash : i \in Listed({"live"})}           \* the pool before D-74

PoolHashes == {rows[i].hash : i \in Listed({"live", "in_review"})}

LiveCoverage == [k \in Types \X Concepts |->
    Cardinality({i \in Listed({"live"}) : <<rows[i].type, rows[i].concept>> = k})]

\* The k-th newest of a set of rows.
Newest(S, k) == CHOOSE i \in S : Cardinality({j \in S : j >= i}) = k

MechanismsOf(shipped) == [c \in Concepts |->
    LET mine == {i \in shipped : rows[i].concept = c} IN
    [k \in 1 .. Min({HISTORY_DEPTH, Cardinality(mine)}) |-> rows[Newest(mine, k)].mechanism]]

RecentMechanismsOfAll == MechanismsOf(Listed({"live", "in_review"}))   \* a row without one kept

RecentMechanisms ==
    MechanismsOf({i \in Listed({"live", "in_review"}) : rows[i].mechanism # Nothing})

StartBatch ==
    /\ pc = "down"
    /\ size' \in 1 .. MaxSpecs - specs
    /\ \E m \in {"orchestrator", "ingest"} :
        /\ mode' = m
        /\ coverage' = IF m = "ingest" THEN NoCoverage ELSE LiveCoverage
        /\ history' = IF m = "ingest" THEN NoHistory ELSE RecentMechanisms
    /\ pool' = PoolHashes
    /\ report' = NoReport
    /\ pc' = "sample"
    /\ UNCHANGED <<rows, tx, specs, attempt, reviews>>

(* The tail of the history, as the sampler cuts it. *)
Avoid(mechanisms) ==
    SubSeq(mechanisms, Max({1, Len(mechanisms) - HISTORY_DEPTH + 1}), Len(mechanisms))

SampleSpec ==
    /\ pc = "sample" /\ mode = "orchestrator"
    /\ \E s \in Specs : spec' = [draw |-> s, avoid |-> Avoid(history[s.concept])]
    /\ specs' = specs + 1 /\ report' = [report EXCEPT !.sampled = @ + 1]
    /\ asked' = << >> /\ survivors' = << >> /\ lineage' = Nothing
    /\ pc' = "generate"
    /\ UNCHANGED <<rows, tx, process, reviews>>

(* An ingested item is one spec with its one candidate. *)
NextItem ==
    /\ pc = "sample" /\ mode = "ingest"
    /\ \E s \in Specs, c \in Candidates :
        /\ s.type = STB /\ c.type = STB
        /\ spec' = [draw |-> s, avoid |-> << >>]
        /\ lineage' = Fresh(c)
    /\ specs' = specs + 1 /\ report' = [report EXCEPT !.sampled = @ + 1]
    /\ asked' = << >> /\ survivors' = << >>
    /\ pc' = "evaluate"
    /\ UNCHANGED <<rows, tx, process, reviews>>

-----------------------------------------------------------------------------
(* One spec: fresh candidates, each with its repairs, from one budget. *)
Budgeted(requests) == Len(requests) < MAX_ATTEMPTS_PER_SPEC

(* After a lineage without a survivor. *)
Resume(requests) ==
    IF mode = "orchestrator" /\ Budgeted(requests) THEN "generate"
    ELSE IF survivors = << >> THEN "finish" ELSE "publish"

Generate ==
    /\ pc = "generate"
    /\ asked' = Append(asked, "fresh")
    /\ \/ \E c \in Candidates :
            /\ c.type = spec.draw.type
            /\ lineage' = Fresh(c) /\ pc' = "evaluate"
       \/ lineage' = Nothing /\ pc' = Resume(asked')        \* unreadable, aborted
    /\ UNCHANGED <<rows, tx, process, report, spec, survivors, specs, reviews>>

WantMoreSurvivors(found) ==
    LET best == Max({found[i].score : i \in DOMAIN found}) IN
    /\ Len(found) < BEST_OF_N_MAX_SURVIVORS
    /\ Budgeted(asked)
    /\ \/ best < SCORE_THRESHOLD
       \/ coverage[<<spec.draw.type, spec.draw.concept>>] < COVERAGE_THRESHOLD

MayRepairAgain(rejection) ==                                   \* the same check twice
    /\ mode = "orchestrator" /\ rejection.repairable
    /\ lineage.rounds < MAX_REPAIR_ROUNDS /\ Budgeted(asked)

MayRepair(rejection) ==
    /\ mode = "orchestrator"
    /\ rejection.repairable
    /\ lineage.rounds < MAX_REPAIR_ROUNDS
    /\ rejection.check \notin lineage.triggered
    /\ Budgeted(asked)

(* A repaired candidate goes through the whole chain again. *)
JudgeTrustsRepairs(o) ==                          \* only the failed check is looked at
    LET verdict == Verdict(lineage.cand, spec.draw.hasBug, o, pool) IN
    IF lineage.rounds > 0 /\ verdict.check \notin lineage.triggered THEN NoRejection ELSE verdict

Judge(o) == Verdict(lineage.cand, spec.draw.hasBug, o, pool)

Evaluate ==
    /\ pc = "evaluate"
    /\ \E o \in Opinions :
        LET s == spec.draw
            c == lineage.cand
            verdict == Judge(o)
            survivor == [cand |-> c, opinion |-> o, score |-> Score(c, s.hasBug, s.difficulty, o)]
        IN  IF verdict = NoRejection
            THEN /\ survivors' = Append(survivors, survivor)
                 /\ lineage' = Nothing
                 /\ pc' = IF mode = "orchestrator" /\ WantMoreSurvivors(survivors')
                          THEN "generate" ELSE "publish"
            ELSE /\ IF MayRepair(verdict)
                    THEN /\ lineage' = [lineage EXCEPT !.rejection = verdict]
                         /\ pc' = "repair"
                    ELSE lineage' = Nothing /\ pc' = Resume(asked)
                 /\ UNCHANGED survivors
    /\ UNCHANGED <<rows, tx, process, report, spec, asked, specs, reviews>>

(* The generator is shown the failed check and answers with a candidate of *)
(* the same type, or the lineage ends.                                     *)
RepairUncounted ==                       \* neither charged nor held against the lineage
    /\ pc = "repair"
    /\ \/ \E c \in Candidates : c.type = spec.draw.type /\ lineage' = Fresh(c) /\ pc' = "evaluate"
       \/ lineage' = Nothing /\ pc' = Resume(asked)
    /\ UNCHANGED <<rows, tx, process, report, spec, survivors, asked, specs, reviews>>

Repair ==
    /\ pc = "repair"
    /\ LET check == lineage.rejection.check IN
        /\ asked' = Append(asked, check)
        /\ \/ \E c \in Candidates :
                /\ c.type = spec.draw.type
                /\ lineage' = [Fresh(c) EXCEPT !.rounds = lineage.rounds + 1,
                                               !.triggered = lineage.triggered \cup {check}]
                /\ pc' = "evaluate"
           \/ lineage' = Nothing /\ pc' = Resume(asked')
    /\ UNCHANGED <<rows, tx, process, report, spec, survivors, specs, reviews>>

-----------------------------------------------------------------------------
(* Publication. *)
Row(type, hash, c, key, wrong, parent, o) ==
    [type |-> type, hash |-> hash, concept |-> spec.draw.concept, status |-> "in_review",
     mechanism |-> IF type = STB /\ spec.draw.hasBug THEN c.key ELSE Nothing,
     key |-> key, parent |-> parent, job |-> specs, revived |-> FALSE,
     cand |-> c, hasBug |-> spec.draw.hasBug, opinion |-> o, wrong |-> wrong]

(* The first of the best survivors. *)
Best(found) ==
    CHOOSE s \in ToSet(found) : \E i \in DOMAIN found :
        /\ s = found[i]
        /\ \A j \in DOMAIN found : found[j].score <= s.score
        /\ \A j \in 1 .. i - 1 : found[j].score < s.score

Publish ==
    /\ pc = "publish"
    /\ LET s == Best(survivors)
           key == VerifiedLines(s.cand, spec.draw.hasBug)
           c == spec.draw.concept
           bug == spec.draw.type = STB /\ spec.draw.hasBug
       IN  /\ tx' = Append(tx, Row(spec.draw.type, s.cand.code, s.cand, key, Nothing, 0, s.opinion))
           /\ pool' = pool \cup {s.cand.code}
           /\ history' = IF bug THEN [history EXCEPT ![c] = <<s.cand.key>> \o @] ELSE history
           /\ pc' = IF bug /\ key # {} THEN "derive" ELSE "finish"
    /\ report' = [report EXCEPT !.published = @ + 1]
    /\ UNCHANGED <<rows, mode, size, coverage, attempt, specs, reviews>>

(* One more generator call; whatever fails, the parent stays. *)
DerivePTF ==
    /\ pc = "derive"
    /\ LET parent == tx[Len(tx)] IN
        \/ \E w \in WrongFixSets :
            /\ PTFAccepts(parent.cand, w)
            /\ tx' = Append(tx, Row(PTF, <<parent.hash, w>>, parent.cand, parent.key, w,
                                    Len(rows) + Len(tx), parent.opinion))
            /\ report' = [report EXCEPT !.ptf = @ + 1]
        \/ UNCHANGED <<tx, report>>
    /\ pc' = "finish"
    /\ UNCHANGED <<rows, process, attempt, specs, reviews>>

CommitAtEnd ==                                              \* one commit for the run
    IF report.sampled < size THEN UNCHANGED <<rows, tx>> ELSE rows' = rows \o tx /\ tx' = << >>

Commit == rows' = rows \o tx /\ tx' = << >>

(* The end of a spec, published or exhausted, and its commit. *)
FinishSpec ==
    /\ pc = "finish"
    /\ Commit
    /\ LET k == <<spec.draw.type, spec.draw.concept>>
           published == survivors # << >>
       IN  /\ coverage' = IF published /\ mode = "orchestrator"
                          THEN [coverage EXCEPT ![k] = @ + 1] ELSE coverage
           /\ report' = IF published THEN report ELSE [report EXCEPT !.exhausted = @ + 1]
    /\ pc' = IF report.sampled < size THEN "sample" ELSE "down"
    /\ spec' = Nothing /\ asked' = << >> /\ survivors' = << >> /\ lineage' = Nothing
    /\ UNCHANGED <<mode, size, pool, history, specs, reviews>>

(* An exception that is not caught (a spent quota), or a killed process. *)
Crash ==
    /\ pc # "down"
    /\ pc' = "down" /\ tx' = << >>
    /\ spec' = Nothing /\ asked' = << >> /\ survivors' = << >> /\ lineage' = Nothing
    /\ UNCHANGED <<rows, process, report, specs, reviews>>

-----------------------------------------------------------------------------
(* The reviewers: a row that is not live may be approved, whatever became  *)
(* of it before; any row may be retired or pulled.                         *)
Approve(i) ==
    /\ rows[i].status # "live"
    /\ rows' = [rows EXCEPT ![i].status = "live",
                            ![i].revived = @ \/ rows[i].status # "in_review"]
    /\ reviews' = reviews + 1 /\ reviews < MaxReviews
    /\ UNCHANGED <<tx, pc, process, report, attempt, specs>>

Kill(i) ==
    /\ rows[i].status # "retired"
    /\ rows' = [rows EXCEPT ![i].status = "retired"]
    /\ reviews' = reviews + 1 /\ reviews < MaxReviews
    /\ UNCHANGED <<tx, pc, process, report, attempt, specs>>

-----------------------------------------------------------------------------
Init ==
    /\ rows = << >> /\ tx = << >> /\ pc = "down" /\ mode = "orchestrator" /\ size = 0 /\ specs = 0
    /\ pool = {} /\ coverage = NoCoverage /\ history = NoHistory /\ report = NoReport
    /\ spec = Nothing /\ asked = << >> /\ lineage = Nothing /\ survivors = << >> /\ reviews = 0

Step == SampleSpec \/ NextItem \/ Generate \/ Evaluate \/ Repair \/ Publish \/ DerivePTF
        \/ FinishSpec

Review == \E i \in DOMAIN rows : Approve(i) \/ Kill(i)

Next == StartBatch \/ Step \/ Crash \/ Review

(* The process runs on by itself; nobody has to start or to kill it. *)
Spec == Init /\ [][Next]_vars /\ WF_vars(Step)

-----------------------------------------------------------------------------
(* Properties. *)

(* Shape of the state. *)
TypeOK ==
    /\ pc \in {"down", "sample", "generate", "evaluate", "repair", "publish", "derive", "finish"}
    /\ mode \in {"orchestrator", "ingest"} /\ specs \in 0 .. MaxSpecs
    /\ \A i \in DOMAIN rows : rows[i].status \in {"in_review", "live", "retired"}
    /\ coverage \in [Types \X Concepts -> Nat]
    /\ history \in [Concepts -> Seq(Reasons)]
    /\ pc \in {"generate", "evaluate", "repair", "publish", "derive", "finish"} => spec.draw \in Specs
    /\ pc \in {"evaluate", "repair"} => lineage.cand \in Candidates

(* What execution must have shown of a row, whoever wrote it and however   *)
(* often it was repaired: the user reads code that breaks no rule, the bug *)
(* is real, the fix cures it and is small, the key is the lines the fix    *)
(* changed, one reading of the reasons is right, and no judge disagreed    *)
(* (orchestrator._evaluate_candidate on every path that publishes).        *)
Proven(r) ==
    LET c == r.cand
        o == r.opinion
    IN
    /\ c.static = {} /\ c.alone = "pass" /\ c.stable
    /\ r.type = TRACE => c.claims = "right" /\ c.distinct
    /\ r.type # TRACE =>
        /\ c.fixedTest = "pass" /\ r.key = IF r.hasBug THEN c.diff ELSE {}
        /\ o.audit.ok /\ o.reasons.partly = {} /\ o.reasons.correct = {c.key}
        /\ IF r.hasBug
           THEN /\ c.buggyTest = "assert" /\ c.claims # "wrong"
                /\ r.key # {} /\ Cardinality(o.audit.defects) <= 1
                /\ 5 * (Cardinality(r.key) - 1) < Max({21, c.size})
           ELSE c.buggyTest = "pass" /\ c.fix = "same"
    /\ r.type = PTF =>
        /\ r.hasBug /\ r.wrong.static
        /\ \A i \in DOMAIN r.wrong.outcomes : r.wrong.outcomes[i] = "assert"

PublishedIsProven ==
    LET all == rows \o tx IN
    \A i \in DOMAIN all :
        /\ Proven(all[i])
        /\ all[i].type = PTF => /\ all[i].parent \in 1 .. i - 1
                                /\ all[all[i].parent].cand = all[i].cand

(* A spec never costs more generator calls than its budget; in one lineage *)
(* there are at most MAX_REPAIR_ROUNDS repairs, each for another check and *)
(* only for one that a repair may touch (orchestrator._run_lineage).       *)
SpendIsBounded ==
    /\ Len(asked) <= MAX_ATTEMPTS_PER_SPEC
    /\ \A i, j \in DOMAIN asked :
        (i <= j /\ \A k \in i .. j : asked[k] # "fresh") =>
            /\ j - i < MAX_REPAIR_ROUNDS
            /\ i < j => asked[i] # asked[j]
            /\ asked[i] \in RepairableChecks

(* The shape of the state, and the bounds of a spec's spending. *)
BatchIsBounded == TypeOK /\ SpendIsBounded

(* A crash costs the spec in flight and no other: whatever is uncommitted  *)
(* belongs to it, every spec the report counts as published has its row in *)
(* the table, and a spec is published or exhausted, never both             *)
(* (run_batch's commit_after_each_spec).                                   *)
OnlyInFlightLost ==
    /\ \A i \in DOMAIN tx : tx[i].job = specs
    /\ LET Mine(t) == {i \in DOMAIN t : t[i].job > specs - report.sampled}
           Primary(t) == {i \in Mine(t) : t[i].type # PTF}
           inFlight == IF pc \in {"down", "sample"} THEN 0 ELSE 1
       IN  pc # "down" =>
           /\ Cardinality(Primary(rows)) + Cardinality(Primary(tx)) = report.published
           /\ Cardinality(Mine(rows)) + Cardinality(Mine(tx)) = report.published + report.ptf
           /\ Cardinality(Primary(rows)) + report.exhausted + inFlight = report.sampled

Twins ==
    LET all == rows \o tx IN
    {p \in (DOMAIN all) \X (DOMAIN all) :
        LET r == all[p[1]] IN LET q == all[p[2]] IN
        /\ p[1] < p[2] /\ r.hash = q.hash
        /\ {r.status, q.status} \subseteq {"in_review", "live"}
        /\ ~r.revived /\ ~q.revived}

(* Of all the spot_the_bugs and traces a user can be served or a reviewer  *)
(* is asked about, no two have the same code, whichever runs wrote them,   *)
(* unless somebody approved one that had been retired                      *)
(* (fetch_dedup_pool_hashes).                                              *)
NoTwins == \A p \in Twins : (rows \o tx)[p[1]].type = PTF

(* A predict_the_fix is unique because its parent was: "a duplicate STB    *)
(* never survives to spawn a duplicate PTF". But the pool forgets a parent *)
(* that was retired while its predict_the_fix was not.                     *)
DerivedIsUnique == \A p \in Twins : (rows \o tx)[p[1]].type # PTF

(* A run that is not killed comes to its end: no spec can hold it for ever *)
(* (the loops of _resolve_spec and _run_lineage).                          *)
BatchFinishes == (pc # "down") ~> (pc = "down")

(* A spec says to avoid the newest mechanism shipped for its concept. The  *)
(* history is kept most recent first and cut at the other end, so with     *)
(* more than HISTORY_DEPTH mechanisms in one run it does not.              *)
AvoidsTheNewest ==
    pc = "generate" /\ history[spec.draw.concept] # << >>
        => history[spec.draw.concept][1] \in ToSet(spec.avoid)
=============================================================================
