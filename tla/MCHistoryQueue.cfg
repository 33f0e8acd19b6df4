SPECIFICATION Spec
CONSTANTS
    PageSize = 1
    MaxPages = 1
    MaxWindow = 2
    Workers = {w1, w2}
    NoRow = NoRow
    NoFact = NoFact
    MaxAcquisitions = 2
    MaxRecheckRuns = 1
    MaxRepairRuns = 1
    Keys <- MCKeys
    RunCount = 1
    MaxAttempt = 2
    WorkflowOf <- MCWorkflowOf
    Configurations <- MCQueueConfigurations
    Observations <- MCOneObservation
    Delivered <- MCLast
    Bounds = {0}
    Failures = {"missing", "deferred", "not_terminal"}
    Served = {"backfill"}
    Overlap = 1
    MaxTime = 0
    MaxRevision = 2
INVARIANTS NothingLost HistoryRowsReadable
SYMMETRY MCSymmetry
