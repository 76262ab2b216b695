\* One user who may fly 24 hours west once; the configured three attempts.
CONSTANTS
    Users = {1}
    Sweeps = {s1, s2}
    Bodies = {b1, b2}
    Nothing = Nothing
    DAY = 3
    DUE_AT = 1
    RECAP_LOCAL_WEEKDAY = 0
    Zones = {0, 3}
    HOME = 3
    EMAIL_SEND_MAX_ATTEMPTS = 3
    EMAIL_SEND_RETRY_WINDOW = 3
    EMAIL_JOB_BATCH_SIZE = 2
    EMAIL_MAX_SENDS_PER_TICK = 1
    KEY_TTL = 3
    CLOCK_LIMIT = 4
    FAILURE_LIMIT = 0
    CHANGE_LIMIT = 1
\* Nobody is due at the end of the clock, or all are dealt with.
CHECK_DEADLOCK FALSE
SPECIFICATION Spec
INVARIANT DeliveredAtMostOnce
