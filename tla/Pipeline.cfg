CONSTANTS
    Nothing = Nothing
    a = a
    b = b
    t = t
    Concepts <- MCConcepts
    Codes <- MCCodes
    Reasons <- MCReasons
    Candidates <- MCCandidates
    Opinions <- MCOpinions
    WrongFixSets <- MCWrongFixSets
    Specs <- MCSpecs
    MAX_ATTEMPTS_PER_SPEC = 3
    MAX_REPAIR_ROUNDS = 2
    BEST_OF_N_MAX_SURVIVORS = 2
    SCORE_THRESHOLD = 70
    COVERAGE_THRESHOLD = 1
    HISTORY_DEPTH = 1
    MaxSpecs = 2
    MaxReviews = 2
SPECIFICATION Spec
CHECK_DEADLOCK FALSE
INVARIANTS PublishedIsProven BatchIsBounded OnlyInFlightLost NoTwins
PROPERTIES BatchFinishes
