\* Three requests, sessions of one or two exercises, any pulls of either.
CONSTANTS
    Requests = {r1, r2, r3}
    Exercises = {e1, e2}
    SESSION_SIZE = 2
    Nothing = Nothing
SPECIFICATION FairSpec
\* Every request and every pull ends.
CHECK_DEADLOCK FALSE
INVARIANTS
    OneSessionPerDay
    InsertNeverCollides
    CompletedIsEarned
    QuietPullIsThorough
PROPERTY EveryRequestEnds
