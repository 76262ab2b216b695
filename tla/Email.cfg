\* Two users, two overlapping sweeps of one claim each, two attempts; one crash
\* or exception and one change by a user; the period opens at clock 1.
CONSTANTS
    Users = {1, 2}
    Sweeps = {s1, s2}
    Bodies = {b1, b2}
    Nothing = Nothing
    DAY = 3
    DUE_AT = 1
    RECAP_LOCAL_WEEKDAY = 0
    Zones = {0}
    HOME = 0
    EMAIL_SEND_MAX_ATTEMPTS = 2
    EMAIL_SEND_RETRY_WINDOW = 3
    EMAIL_JOB_BATCH_SIZE = 2
    EMAIL_MAX_SENDS_PER_TICK = 1
    KEY_TTL = 3
    CLOCK_LIMIT = 1
    FAILURE_LIMIT = 1
    CHANGE_LIMIT = 1
\* Nobody is due at the end of the clock, or all are dealt with.
CHECK_DEADLOCK FALSE
SPECIFICATION FairSpec
INVARIANTS
    PeriodHasOneSender
    RetriesRepeatThePayload
    SettledIsHonest
PROPERTIES
    SendsOnce
    EveryoneDueIsReached
