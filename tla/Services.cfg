\* Two tabs of one browser; two users, two addresses and two requests at a time;
\* one process that runs the retry job; three of the streak's transactions, two
\* at a time, over three days; three calls of the trigger, two at a time; five
\* runs of the bucket's script over six seconds; two answers of one user in a week;
\* three disputes or reviews at once.
CONSTANTS
    Tabs = {tab1, tab2}
    MaxTokens = 3
    MaxRequests = 3
    Users = {u1, u2}
    Addresses = {a1, a2}
    Requests = {q1, q2}
    None = None
    MaxBegun = 3
    Attempts = {x1, x2}
    Jobs = {j1}
    MAX_RETRY_ATTEMPTS = 3
    MaxSubmits = 2
    MaxAborts = 1
    Keys = {k1, k2}
    FREEZE_MAX = 2
    EARN_EVERY = 2
    REPAIR_WINDOW = 2
    Zones <- MCZones
    FillDates = {4}
    MaxClock = 5
    MaxTransactions = 3
    Triggers = {t1, t2}
    Triggerable = {reminders, weekly_recap}
    Loops = {partitions}
    AtStartup = {partitions}
    MaxCalls = 3
    MaxStarts = 1
    Callers = {c1, c2}
    LIMIT = 2
    WINDOW = 3
    MAX_DELAY = 2
    MaxTime = 6
    MaxRuns = 5
    MAX_NON_BOSS_SLOTS = 2
    MIN_SLOTS = 2
    MIN_EMPIRICAL_N = 1
    Difficulty <- MCDifficulty
    Covers <- MCCovers
    Pools = {{1, 2, 3, 4, 5}, {4, 5, 6}}
    Absences = {3, 7}
    MaxDay = 7
    MaxAnswers = 2
    MaxLevels = 1
    Senders = {s1, s2, s3}
    Ratings = {3, 5}
SPECIFICATION Spec
SYMMETRY Symmetry
\* The bounds end every part.
CHECK_DEADLOCK FALSE
INVARIANTS
    TypeOK
    RefreshIsSound
    AddressBelongsToItsProver
    GradingSettlesOnce
    LocksProtect
    JobsAreGuarded
    BucketIsSound
    PracticeIsSound
    FeedbackIsSound
