\* One timezone, days of one tick, an account older than the freeze feature, and
\* an operator who may fill days 1 and 2 and grant the initial freezes.
CONSTANTS
    FREEZE_START = 1
    FREEZE_MAX = 2
    EARN_EVERY = 2
    REPAIR_WINDOW = 2
    DAY_LENGTH = 1
    Offsets <- HomeOffsets
    OutageDates <- TwoOutages
    LEGACY = TRUE
    NoDate = NoDate
    CLOCK_LIMIT = 6
    ATTEMPT_LIMIT = 6
SPECIFICATION Spec
\* The clock and the attempts are bounded: the instance really stops.
CHECK_DEADLOCK FALSE
INVARIANTS
    TypeOK
    LedgerExplainsStreak
    LedgerExplainsBalance
    GapsPaidExactlyOnce
    RepairsAreCounterfactual
    ResetOnlyAfterIdleDay
