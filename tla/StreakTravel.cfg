\* Two timezones a day and a half apart, days of two ticks.
CONSTANTS
    FREEZE_START = 2
    FREEZE_MAX = 2
    EARN_EVERY = 3
    REPAIR_WINDOW = 4
    DAY_LENGTH = 2
    Offsets <- TravelOffsets
    OutageDates <- NoOutages
    LEGACY = FALSE
    NoDate = NoDate
    CLOCK_LIMIT = 8
    ATTEMPT_LIMIT = 4
SPECIFICATION Spec
\* The clock and the attempts are bounded: the instance really stops.
CHECK_DEADLOCK FALSE
INVARIANT
    LastActiveNotAhead
