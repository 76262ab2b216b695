CONSTANTS
    right = right
    w1 = w1
    w2 = w2
    Tools = {t1, t2}
    Ids = {1, 2}
    MaxVersion = 3
    Texts = {right, w1, w2}
    Right = right
    Seeded <- MCSeeded
    Overrides <- MCOverrides
    MaxActs = 3
    None = None
SPECIFICATION Spec
SYMMETRY Symmetry
CHECK_DEADLOCK FALSE
INVARIANTS WellKeyed ReviewQueueHoldsTheNewest ServedSaysTheSame
