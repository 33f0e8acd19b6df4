SPECIFICATION FairSpec
CONSTANTS
    Sources <- MCSources
    Tasks = {t1, t2}
    Reports = {q1}
    SourceOf <- MCSourceOf
    Window = 4
    Lease = 1
    InitialBackoff = 1
    MaxBackoff = 2
    MaxAttempts = 2
    EvidenceTime = 5
    Grace = 1
    MaxTerminalizations = 2
    BatchSize = 1
    MaxSources = 1
    MaxReports = 1
    MaxTime = 7
    MaxRevision = 1
INVARIANT EvidenceFollowsRow
PROPERTIES SignalsMatchPolicy EvidenceDrains
CHECK_DEADLOCK FALSE
