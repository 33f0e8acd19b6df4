SPECIFICATION Spec
CONSTANTS
    PageSize = 1
    MaxPages = 1
    MaxWindow = 2
    Workers = {w1}
    NoRow = NoRow
    NoFact = NoFact
    MaxAcquisitions = 1
    MaxRecheckRuns = 1
    MaxRepairRuns = 1
    Keys <- MCKeys
    RunCount = 2
    MaxAttempt = 1
    WorkflowOf <- MCWorkflowOf
    Configurations <- MCScanConfigurations
    Observations <- MCOneObservation
    Delivered = {}
    Bounds = {0, 1}
    Failures = {}
    Served = {"backfill", "discovery"}
    Overlap = 1
    MaxTime = 2
    MaxRevision = 2
INVARIANTS NothingLost HistoryRowsReadable
