\* Three requests under two keys, a session of two exercises, one crash, and
\* requests that may outlive the wait budget and the reservation.
CONSTANTS
    r1 = r1 r2 = r2 r3 = r3 k1 = k1 k2 = k2 e1 = e1 e2 = e2 e3 = e3
    Requests <- MCRequests
    Keys <- MCKeys
    Exercises <- MCExercises
    Slots <- MCSlots
    Answers = {a1}
    Nobody = Nobody
    SLOW = TRUE
    CRASH_LIMIT = 1
SPECIFICATION MCSpec
\* Every request ends.
CHECK_DEADLOCK FALSE
INVARIANTS
    AggregatesMatchAttempts
    ReplaysAreIdentical
PROPERTIES
    EveryRequestAnswered
    SubmitsOnce
