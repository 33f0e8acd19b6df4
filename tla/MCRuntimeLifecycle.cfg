SPECIFICATION FairSpec
CONSTANTS
    Closers = {a, b}
    Order <- MCOrder
    MaxCloses = 3
INVARIANTS ResourcesOutliveWork ReportedLifeIsTrue
PROPERTIES ShutdownSettles ClosesAreFenced
CHECK_DEADLOCK FALSE
