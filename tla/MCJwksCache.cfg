SPECIFICATION FairSpec
CONSTANTS
    Callers = {c1, c2}
    Keys = {k1, k2}
    MaxAge = 1
    MinInterval = 1
    Backoff = 1
    FetchTimeout = 1
    None = None
INVARIANTS SingleFlight
PROPERTIES CallsReturn WithdrawnKeysExpire FetchesAreSpaced SnapshotNeverRollsBack ClosedServesNothing
