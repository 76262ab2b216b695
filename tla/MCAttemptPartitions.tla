------------------------ MODULE MCAttemptPartitions -------------------------
(* An instance of AttemptPartitions, for TLC and for its theorems. *)
EXTENDS Integers, FiniteSets, TLC

CONSTANTS Attempts, Runs, FirstMonth, LatestMonth, MAX_MONTHS_PER_RUN, Default, LastMonth,
          MaxCrashes

VARIABLES month, parts, stored, attempt, run, deaths

P == INSTANCE AttemptPartitions WITH crashes <- deaths

(* db/schema.sql makes partitions of successive months; jobs/partitions.py: *)
(* _MAX_MONTHS_PER_RUN is 72. Default is no month.                          *)
ASSUME PartitionsAssumption ==
    /\ FirstMonth \in Int /\ LatestMonth \in Int /\ FirstMonth <= LatestMonth
    /\ MAX_MONTHS_PER_RUN \in Nat \ {0}
    /\ IsFiniteSet(Runs) /\ LastMonth \in Int
    /\ Default \notin Int

PartitionSpec == P!Spec

(* For the safety properties alone: the steps without their fairness. *)
SafetySpec == P!Init /\ [][P!Next]_(P!vars)

(* Attempts are alike, and so are runs. *)
Symmetry == Permutations(Attempts) \cup Permutations(Runs)

(* The properties, under names a .cfg can write. *)
PartitionsAreSound == P!PartitionsAreSound
StraysAreDrained == P!StraysAreDrained
=============================================================================
