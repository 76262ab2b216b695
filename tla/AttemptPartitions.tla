------------------------- MODULE AttemptPartitions --------------------------
(***************************************************************************)
(* The partitions of table attempts (jobs/partitions.py): one for each     *)
(* month, made ahead by a daily run, and a default one that takes the      *)
(* attempts of a month the runs have missed.  Runs of several processes,   *)
(* each one transaction, beside submissions that insert.                   *)
(*                                                                         *)
(* Months are numbered.  What Postgres does is taken from how the job uses *)
(* it: DDL is rolled back with its transaction; a statement reads what is  *)
(* committed; making or attaching a partition excludes other DDL on        *)
(* attempts and everyone from the default partition until the transaction  *)
(* ends, and is refused while rows of the month are left there; of those   *)
(* who wait for one another one is rolled back.                            *)
(***************************************************************************)
EXTENDS Integers, FiniteSets, FiniteSetsExt

CONSTANTS
    Attempts,            \* rows that submissions insert
    Runs,                \* processes and consoles that run the job
    FirstMonth, LatestMonth,   \* of the partitions that db/schema.sql makes
    MAX_MONTHS_PER_RUN,
    Default,             \* the table attempts_default
    LastMonth, MaxCrashes   \* bounds: months that pass, runs that die

Bootstrapped == FirstMonth .. LatestMonth

VARIABLES
    month,       \* the current month
    parts,       \* the months that have a partition
    stored,      \* the committed rows: pairs of an attempt and its table
    attempt,     \* the submissions
    run,         \* the runs
    crashes

vars == <<month, parts, stored, attempt, run, crashes>>

Unused == [phase |-> "none", month |-> 0, table |-> Default]

(* made: the tables that the run's transaction has created; moved: the rows *)
(* it has moved out of attempts_default, each with the table it is in now;  *)
(* parent: it holds the lock of DDL on attempts; lock: its lock on          *)
(* attempts_default. found is history: the partitions, and the rows of the  *)
(* default one, when it began.                                              *)
Idle == [phase |-> "idle", today |-> 0, todo |-> {}, made |-> {}, moved |-> {},
         parent |-> FALSE, lock |-> "none", found |-> [parts |-> {}, strays |-> {}]]

Init ==
    /\ month \in Bootstrapped /\ parts = Bootstrapped /\ stored = {}
    /\ attempt = [r \in Attempts |-> Unused]
    /\ run = [j \in Runs |-> Idle]
    /\ crashes = 0

NextMonth ==
    /\ month < LastMonth
    /\ month' = month + 1
    /\ UNCHANGED <<parts, stored, attempt, run, crashes>>

-----------------------------------------------------------------------------
(* Submissions. *)

Excluded(j) == \E k \in Runs \ {j} : run[k].lock = "exclusive"

(* created_at is the time at which the submission was begun. *)
Submit(r) ==
    /\ attempt[r].phase = "none"
    /\ attempt' = [attempt EXCEPT ![r] = [@ EXCEPT !.phase = "begun", !.month = month]]
    /\ UNCHANGED <<month, parts, stored, run, crashes>>

(* The INSERT looks for the partition of the row's month ... *)
Route(r) ==
    /\ attempt[r].phase = "begun"
    /\ LET m == attempt[r].month
       IN  attempt' = [attempt EXCEPT
               ![r] = [@ EXCEPT !.phase = "routed",
                                !.table = IF m \in parts THEN m ELSE Default]]
    /\ UNCHANGED <<month, parts, stored, run, crashes>>

(* ... and writes to it once it is not locked: a row that is no longer one *)
(* of the default partition's is refused.                                  *)
Insert(r) ==
    LET to == attempt[r].table
    IN  /\ attempt[r].phase = "routed"
        /\ to = Default => \A j \in Runs : run[j].lock # "exclusive"
        /\ attempt' = [attempt EXCEPT ![r].phase =
               IF to = Default /\ attempt[r].month \in parts THEN "failed" ELSE "inserted"]
        /\ UNCHANGED <<month, parts, stored, run, crashes>>

CommitAttempt(r) ==
    /\ attempt[r].phase = "inserted"
    /\ attempt' = [attempt EXCEPT ![r].phase = "committed"]
    /\ stored' = stored \cup {<<r, attempt[r].table>>}
    /\ UNCHANGED <<month, parts, run, crashes>>

(* A submission may fail for reasons of its own. *)
AbortAttempt(r) ==
    /\ attempt[r].phase \in {"begun", "routed", "inserted"}
    /\ attempt' = [attempt EXCEPT ![r].phase = "failed"]
    /\ UNCHANGED <<month, parts, stored, run, crashes>>

-----------------------------------------------------------------------------
(* The run. Its current month is the first it has not done. *)

Current(j) == Min(run[j].todo)

Strays == {r \in Attempts : <<r, Default>> \in stored}

InDefault(m) == {r \in Strays : attempt[r].month = m}

(* The rows that the run sees no longer in the default partition. *)
Drained(j) == {s[1] : s \in run[j].moved}

\* Fault: only the next month is made (as before D-69).
OnlyNextMonth == {month + 1} \ parts

(* Every month from the last that has a partition through the next one, no *)
(* more than the cap.                                                      *)
MonthsToCreate ==
    LET start == IF parts = {} THEN month ELSE Max(parts) + 1
    IN  {m \in start .. month + 1 : m < start + MAX_MONTHS_PER_RUN}

Start(j) ==
    /\ run[j].phase = "idle"
    /\ run' = [run EXCEPT ![j] = [Idle EXCEPT !.phase = "count", !.today = month,
                                              !.todo = MonthsToCreate,
                                              !.found = [parts |-> parts, strays |-> Strays]]]
    /\ UNCHANGED <<month, parts, stored, attempt, crashes>>

\* Fault: the rows of the month are not looked for (as before D-69).
CountNothing(j) ==
    /\ run[j].phase = "count" /\ run[j].todo # {} /\ ~Excluded(j)
    /\ run' = [run EXCEPT
           ![j] = [@ EXCEPT !.phase = "create",
                            !.lock = IF run[j].lock = "none" THEN "shared" ELSE run[j].lock]]
    /\ UNCHANGED <<month, parts, stored, attempt, crashes>>

(* Rows of the month in the default partition have to be drained first. *)
Count(j) ==
    /\ run[j].phase = "count" /\ run[j].todo # {} /\ ~Excluded(j)
    /\ run' = [run EXCEPT
           ![j] = [@ EXCEPT !.phase = IF InDefault(Current(j)) = {} THEN "create" ELSE "like",
                            !.lock = IF run[j].lock = "none" THEN "shared" ELSE run[j].lock]]
    /\ UNCHANGED <<month, parts, stored, attempt, crashes>>

NameIsTaken(j) == \E k \in Runs \ {j} : Current(j) \in run[k].made

(* CREATE TABLE IF NOT EXISTS ... PARTITION OF has nothing to do. *)
AlreadyThere(j) ==
    /\ run[j].phase = "create" /\ Current(j) \in parts
    /\ run' = [run EXCEPT
           ![j] = [@ EXCEPT !.phase = "count", !.todo = run[j].todo \ {Current(j)}]]
    /\ UNCHANGED <<month, parts, stored, attempt, crashes>>

(* CREATE TABLE IF NOT EXISTS ... (LIKE attempts): waits for whoever is *)
(* creating a table of that name.                                       *)
Like(j) ==
    /\ run[j].phase = "like" /\ ~NameIsTaken(j)
    /\ run' = [run EXCEPT
           ![j] = [@ EXCEPT !.phase = "move",
                            !.made = run[j].made \cup ({Current(j)} \ parts)]]
    /\ UNCHANGED <<month, parts, stored, attempt, crashes>>

(* DELETE ... RETURNING and INSERT, in one statement. *)
Move(j) ==
    /\ run[j].phase = "move"
    /\ run' = [run EXCEPT
           ![j] = [@ EXCEPT !.phase = "attach",
                            !.moved = run[j].moved \cup (InDefault(Current(j)) \X {Current(j)}),
                            !.lock = IF run[j].lock = "shared" THEN "rows" ELSE run[j].lock]]
    /\ UNCHANGED <<month, parts, stored, attempt, crashes>>

(* PARTITION OF and ATTACH PARTITION lock attempts ... *)
LockParent(j) ==
    /\ \/ run[j].phase = "create" /\ Current(j) \notin parts
       \/ run[j].phase = "attach"
    /\ \A k \in Runs \ {j} : ~run[k].parent
    /\ run' = [run EXCEPT
           ![j] = [@ EXCEPT
               !.phase = IF run[j].phase = "create" THEN "creating" ELSE "attaching",
               !.parent = TRUE]]
    /\ UNCHANGED <<month, parts, stored, attempt, crashes>>

DefaultInUse(j) ==
    \/ \E k \in Runs \ {j} : run[k].lock # "none"
    \/ \E r \in Attempts : attempt[r].phase = "inserted" /\ attempt[r].table = Default

(* ... and the default partition, which must hold no row of the month. *)
MakePartition(j) ==
    LET refused == Current(j) \in parts \/ ~(InDefault(Current(j)) \subseteq Drained(j))
    IN  /\ run[j].phase \in {"creating", "attaching"}
        /\ ~NameIsTaken(j) /\ ~DefaultInUse(j)
        /\ run' = [run EXCEPT
               ![j] = IF refused
                      THEN [Idle EXCEPT !.phase = "failed", !.found = run[j].found]
                      ELSE [@ EXCEPT !.phase = "count", !.todo = run[j].todo \ {Current(j)},
                                     !.made = run[j].made \cup {Current(j)},
                                     !.lock = "exclusive"]]
        /\ UNCHANGED <<month, parts, stored, attempt, crashes>>

(* All months are done: the job commits. *)
CommitRun(j) ==
    /\ run[j].phase = "count" /\ run[j].todo = {}
    /\ parts' = parts \cup run[j].made
    /\ stored' = {s \in stored : s[1] \notin Drained(j)} \cup run[j].moved
    /\ run' = [run EXCEPT
           ![j] = [Idle EXCEPT !.phase = "done", !.today = run[j].today,
                               !.found = run[j].found]]
    /\ UNCHANGED <<month, attempt, crashes>>

Over == {"done", "failed", "victim"}

(* The next tick of the scheduler is a day later, by when whoever was under *)
(* way beside this run is over as well.                                     *)
Rest(j) ==
    /\ run[j].phase \in Over
    /\ \A k \in Runs : run[k].phase \in Over \cup {"idle"}
    /\ run' = [run EXCEPT ![j] = Idle]
    /\ UNCHANGED <<month, parts, stored, attempt, crashes>>

Crash(j) ==
    /\ run[j].phase \notin Over \cup {"idle"} /\ crashes < MaxCrashes
    /\ crashes' = crashes + 1
    /\ run' = [run EXCEPT ![j] = Idle]
    /\ UNCHANGED <<month, parts, stored, attempt>>

(* Whom a run waits for. *)
WaitsFor(j, k) ==
    /\ j # k
    /\ \/ run[j].phase = "count" /\ run[j].todo # {} /\ run[k].lock = "exclusive"
       \/ run[j].phase = "attach" /\ run[k].parent
       \/ run[j].phase = "create" /\ Current(j) \notin parts /\ run[k].parent
       \/ /\ run[j].phase \in {"like", "creating", "attaching"}
          /\ Current(j) \in run[k].made
       \/ run[j].phase \in {"creating", "attaching"} /\ run[k].lock # "none"

(* Postgres finds a circle of waiting and rolls one of it back. *)
BreakDeadlock(j) ==
    /\ \E circle \in SUBSET Runs :
           j \in circle /\ \A k \in circle : \E l \in circle : WaitsFor(k, l)
    /\ run' = [run EXCEPT ![j] = [Idle EXCEPT !.phase = "victim"]]
    /\ UNCHANGED <<month, parts, stored, attempt, crashes>>

-----------------------------------------------------------------------------
SubmissionStep(r) == Route(r) \/ Insert(r) \/ CommitAttempt(r) \/ AbortAttempt(r)

RunStep(j) == Start(j) \/ AlreadyThere(j) \/ Move(j) \/ CommitRun(j) \/ Rest(j)

(* The steps that may have to wait for another run or a submission. *)
LockStep(j) == Count(j) \/ Like(j) \/ LockParent(j) \/ MakePartition(j)

Next ==
    \/ NextMonth
    \/ \E r \in Attempts : Submit(r) \/ SubmissionStep(r)
    \/ \E j \in Runs : RunStep(j) \/ LockStep(j) \/ Crash(j) \/ BreakDeadlock(j)

(* The scheduler starts the job every day, and statements end. *)
Fairness ==
    /\ \A r \in Attempts : WF_vars(SubmissionStep(r))
    /\ \A j \in Runs : WF_vars(RunStep(j) \/ LockStep(j)) /\ WF_vars(BreakDeadlock(j))

Spec == Init /\ [][Next]_vars /\ Fairness

-----------------------------------------------------------------------------
Locks == {"none", "shared", "rows", "exclusive"}

Phases == {"idle", "count", "create", "like", "move", "attach", "creating", "attaching",
           "done", "failed", "victim"}

(* The shape of the state; a run at a month has one to do. *)
TypeOK ==
    /\ month \in Int /\ parts \subseteq Int /\ crashes \in Nat
    /\ stored \subseteq Attempts \X (Int \cup {Default})
    /\ attempt \in [Attempts -> [phase : {"none", "begun", "routed", "inserted", "committed",
                                          "failed"},
                                 month : Int, table : Int \cup {Default}]]
    /\ run \in [Runs -> [phase : Phases, today : Int, todo : SUBSET Int, made : SUBSET Int,
                         moved : SUBSET (Attempts \X Int), parent : BOOLEAN, lock : Locks,
                         found : [parts : SUBSET Int, strays : SUBSET Attempts]]]
    /\ \A j \in Runs : run[j].todo = {} => run[j].phase \in Over \cup {"idle", "count"}

(* A committed attempt is in one table, that of its month or, if and only *)
(* if its month has none, the default one (jobs/partitions.py:115-150:    *)
(* rows are drained before the partition is there, whoever inserts        *)
(* meanwhile, and whatever becomes of the run).                           *)
EveryAttemptHasItsPlace ==
    \A r \in Attempts :
        LET m == attempt[r].month
        IN  {s \in stored : s[1] = r} =
                IF attempt[r].phase # "committed" THEN {}
                ELSE {<<r, IF m \in parts THEN m ELSE Default>>}

(* There is no gap between the partitions, however long the job was down,  *)
(* and a run that ends well has reached the month after the one it saw, or *)
(* its cap (jobs/partitions.py:158-163, D-69).                             *)
NoMonthIsSkipped ==
    /\ \A m, n \in parts : m .. n \subseteq parts
    /\ \A j \in Runs : run[j].phase = "done" =>
           \/ run[j].today + 1 \in parts
           \/ Max(run[j].found.parts) + MAX_MONTHS_PER_RUN \in parts

(* A run that nobody overtakes is not refused: if it is, then since it    *)
(* began another has made a partition or an attempt was committed to the  *)
(* default one (D-69: that a month was missed no longer makes every run   *)
(* raise).                                                                *)
RefusedOnlyIfOvertaken ==
    \A j \in Runs : run[j].phase = "failed" =>
        \/ parts # run[j].found.parts
        \/ ~(Strays \subseteq run[j].found.strays)

(* The three of them. *)
PartitionsAreSound == EveryAttemptHasItsPlace /\ NoMonthIsSkipped /\ RefusedOnlyIfOvertaken

(* The default partition is emptied: an attempt that a missed month put  *)
(* there gets to the partition of its month, crashes and collisions of   *)
(* runs notwithstanding (D-69, docs/ops-runbook.md:182-201).             *)
StraysAreDrained ==
    \A r \in Attempts :
        <<r, Default>> \in stored ~> <<r, attempt[r].month>> \in stored
=============================================================================
