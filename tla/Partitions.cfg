\* An attempt of a missed month, two months to come of which the runs may miss
\* any, two runs that collide, a run that dies. Nothing stops: a run can always
\* begin.
CONSTANTS
    Attempts = {r1}
    Runs = {j1, j2}
    FirstMonth = 1
    LatestMonth = 1
    MAX_MONTHS_PER_RUN = 2
    Default = Default
    LastMonth = 3
    MaxCrashes = 1
SPECIFICATION PartitionSpec
INVARIANT PartitionsAreSound
PROPERTY StraysAreDrained
