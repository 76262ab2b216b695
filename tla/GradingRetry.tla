---------------------------- MODULE GradingRetry -----------------------------
(***************************************************************************)
(* jobs/grading_retry.py against the submissions of the same user: a run   *)
(* of the job grades the attempts left pending, one slow grader call after *)
(* another, in ONE transaction; a submission that is graded at once        *)
(* updates the same user_stats row in its own.  Each computes the new      *)
(* counts from those it read, writes only the columns it changed, and      *)
(* holds a row from the write to the commit.  user_concept_state is read   *)
(* and written in the same way just before, and is left out.               *)
(***************************************************************************)
EXTENDS Integers, Sequences, FiniteSets, FiniteSetsExt

CONSTANTS
    Attempts,      \* one user's attempts that were not graded when submitted
    Jobs,          \* processes that run the job
    MAX_RETRY_ATTEMPTS,
    MaxSubmits,    \* bound: submissions graded at once
    MaxAborts      \* bound: runs that do not commit

VARIABLES
    attempt,       \* attempts: status, _retry_count, and how many runs it took
    stats,         \* user_stats: total_correct, and the verdicts in accuracy_by_type
    job,           \* the run under way in each process
    submit,        \* the submission under way
    submitted,     \* verdicts of the submissions that committed
    credits,       \* how often the verdict of each attempt was counted
    aborts

vars == <<attempt, stats, job, submit, submitted, credits, aborts>>
log == <<submitted, credits, aborts>>

Verdicts == {"correct", "incorrect"}
Zero == [correct |-> 0, judged |-> 0]
Idle == [pc |-> "idle"]

Plus(s, v) == [correct |-> s.correct + (IF v = "correct" THEN 1 ELSE 0), judged |-> s.judged + 1]

(* The row after a transaction that read base and counted gain. *)
Store(base, gain) ==
    [correct |-> IF gain.correct = 0 THEN stats.correct ELSE base.correct + gain.correct,
     judged |-> base.judged + gain.judged]

Holds(j, a) == job[j].pc # "idle" /\ a \in job[j].done
HoldsStats(j) == job[j].pc # "idle" /\ job[j].gain # Zero

-----------------------------------------------------------------------------
(* A run reads what is pending (the limit of its query is never reached). *)
Start(j) ==
    LET pending == {a \in Attempts : attempt[a].status = "pending"} IN
    /\ job[j] = Idle /\ pending # {}
    /\ job' = [job EXCEPT ![j] =
                [pc |-> "grading", todo |-> pending, done |-> {}, rows |-> attempt,
                 base |-> Zero, gain |-> Zero, verdict |-> "none"]]
    /\ UNCHANGED <<attempt, stats, submit, log>>

(* The attempt's row is written when the session next talks to the         *)
(* database, before the next call to the grader, and waits for other runs. *)
Graded(j, a, status, retries) ==
    /\ job[j].pc = "grading" /\ a \in job[j].todo
    /\ \A k \in Jobs \ {j} : ~Holds(k, a)
    /\ job' = [job EXCEPT ![j].todo = @ \ {a}, ![j].done = @ \cup {a},
                          ![j].rows[a] = [status |-> status, retries |-> retries, runs |-> @.runs + 1],
                          ![j].pc = IF status \in Verdicts THEN "crediting" ELSE "grading",
                          ![j].verdict = status,
                          ![j].base = IF status \in Verdicts /\ job[j].gain = Zero THEN stats ELSE @]

GraderTimesOutAfresh(j, a) ==                               \* the count is not carried over
    Graded(j, a, "pending", 1) /\ UNCHANGED <<attempt, stats, submit, log>>

GraderTimesOutOnceMore(j, a) ==                             \* counts after it compares
    /\ job[j] # Idle
    /\ LET n == job[j].rows[a].retries
       IN \/ n < MAX_RETRY_ATTEMPTS /\ Graded(j, a, "pending", n + 1)
          \/ n >= MAX_RETRY_ATTEMPTS /\ Graded(j, a, "failed", 0)
    /\ UNCHANGED <<attempt, stats, submit, log>>

GraderTimesOut(j, a) ==
    /\ job[j] # Idle
    /\ LET n == job[j].rows[a].retries + 1
       IN \/ n < MAX_RETRY_ATTEMPTS /\ Graded(j, a, "pending", n)
          \/ n >= MAX_RETRY_ATTEMPTS /\ Graded(j, a, "failed", 0)
    /\ UNCHANGED <<attempt, stats, submit, log>>

GraderTalksNonsense(j, a) == Graded(j, a, "failed", 0) /\ UNCHANGED <<attempt, stats, submit, log>>

(* The verdict; the stats are read at the first one of the run and the     *)
(* session keeps its copy.                                                 *)
GraderJudges(j, a, v) == Graded(j, a, v, 0) /\ UNCHANGED <<attempt, stats, submit, log>>

(* update_correctness_stats *)
Credit(j) ==
    /\ job[j].pc = "crediting"
    /\ \A k \in Jobs \ {j} : ~HoldsStats(k)
    /\ submit.pc # "written"
    /\ job' = [job EXCEPT ![j].pc = "grading", ![j].gain = Plus(@, job[j].verdict)]
    /\ UNCHANGED <<attempt, stats, submit, log>>

(* The one commit, when all have been looked at.  A retry does not write   *)
(* the status.                                                             *)
Rows(j) ==
    [a \in Attempts |->
        IF a \notin job[j].done THEN attempt[a]
        ELSE IF job[j].rows[a].status = "pending"
             THEN [job[j].rows[a] EXCEPT !.status = attempt[a].status]
             ELSE job[j].rows[a]]

Finish(j) ==
    /\ job[j].pc = "grading" /\ job[j].todo = {}
    /\ attempt' = Rows(j)
    /\ stats' = IF job[j].gain = Zero THEN stats ELSE Store(job[j].base, job[j].gain)
    /\ credits' = [a \in Attempts |->
                    credits[a] + (IF a \in job[j].done /\ job[j].rows[a].status \in Verdicts
                                  THEN 1 ELSE 0)]
    /\ job' = [job EXCEPT ![j] = Idle]
    /\ UNCHANGED <<submit, submitted, aborts>>

CommitBeforeCredit(j) ==                                    \* and once per verdict
    \/ /\ job[j].pc = "crediting"
       /\ attempt' = Rows(j)
       /\ UNCHANGED <<job, stats, submit, log>>
    \/ Finish(j)

Commit(j) == Finish(j)

(* A crash, an error, or a deadlock that the database ends. *)
Abort(j) ==
    /\ job[j] # Idle /\ aborts < MaxAborts
    /\ aborts' = aborts + 1
    /\ job' = [job EXCEPT ![j] = Idle]
    /\ UNCHANGED <<attempt, stats, submit, submitted, credits>>

-----------------------------------------------------------------------------
(* submit_attempt for another exercise; the lock of the user's day keeps   *)
(* submissions apart from one another, and from nothing else.              *)
SubmitReads(v) ==
    /\ submit = Idle /\ Len(submitted) < MaxSubmits
    /\ submit' = [pc |-> "read", base |-> stats, verdict |-> v]
    /\ UNCHANGED <<attempt, stats, job, log>>

SubmitWrites ==
    /\ submit.pc = "read" /\ \A j \in Jobs : ~HoldsStats(j)
    /\ submit' = [submit EXCEPT !.pc = "written"]
    /\ UNCHANGED <<attempt, stats, job, log>>

SubmitCommits ==
    /\ submit.pc = "written"
    /\ stats' = Store(submit.base, Plus(Zero, submit.verdict))
    /\ submitted' = Append(submitted, submit.verdict)
    /\ submit' = Idle
    /\ UNCHANGED <<attempt, job, credits, aborts>>

Init ==
    /\ attempt = [a \in Attempts |-> [status |-> "pending", retries |-> 0, runs |-> 0]]
    /\ stats = Zero /\ job = [j \in Jobs |-> Idle] /\ submit = Idle
    /\ submitted = << >> /\ credits = [a \in Attempts |-> 0] /\ aborts = 0

Next ==
    \/ \E j \in Jobs :
        \/ Start(j) \/ Credit(j) \/ Commit(j) \/ Abort(j)
        \/ \E a \in Attempts : \/ GraderTimesOut(j, a) \/ GraderTalksNonsense(j, a)
                               \/ \E v \in Verdicts : GraderJudges(j, a, v)
    \/ \E v \in Verdicts : SubmitReads(v)
    \/ SubmitWrites \/ SubmitCommits

Spec == Init /\ [][Next]_vars

-----------------------------------------------------------------------------
(* Properties. *)

(* Shape of the state. *)
TypeOK ==
    /\ \A a \in Attempts : /\ attempt[a].status \in Verdicts \cup {"pending", "failed"}
                          /\ attempt[a].retries \in 0 .. MAX_RETRY_ATTEMPTS - 1
    /\ stats.correct \in 0 .. Len(submitted) + Cardinality(Attempts)
    /\ \A j \in Jobs : job[j] # Idle => job[j].todo \cap job[j].done = {}

(* With one process running the job, a pending attempt is counted exactly  *)
(* once when, and only if, it is graded, whatever run died between two     *)
(* grader calls or before the commit (resolve_pending_summarize_grades).   *)
CountedExactlyOnce ==
    \A a \in Attempts : credits[a] = IF attempt[a].status \in Verdicts THEN 1 ELSE 0

(* ... and no attempt stays pending through MAX_RETRY_ATTEMPTS runs that   *)
(* commit: its user waits for a bounded time.                              *)
PendingIsBounded ==
    \A a \in Attempts : attempt[a].status = "pending" => attempt[a].runs < MAX_RETRY_ATTEMPTS

(* Settled once, and in bounded time. *)
GradingSettlesOnce == CountedExactlyOnce /\ PendingIsBounded

(* docs/07-decisions.md:798-802 (D-67): total_correct and its like "are    *)
(* actually protected by D-66's advisory lock": the row counts every       *)
(* verdict that was committed.                                             *)
TotalsMatchGrades ==
    stats.judged = Len(submitted) + MapThenSumSet(LAMBDA a : credits[a], Attempts)

(* grading_retry.py:4-7: "grading_failed is terminal" and a row that was   *)
(* resolved "is never re-picked"; :18-20 "re-running against the same      *)
(* still-pending rows is safe".                                            *)
ResolvedStaysResolved ==
    [][\A a \in Attempts : attempt[a].status # "pending" => attempt'[a].status = attempt[a].status]_vars
=============================================================================
