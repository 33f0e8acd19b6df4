SPECIFICATION Spec
CONSTANTS
    PageSize = 1
    MaxPages = 1
    MaxWindow = 2
    Workers = {w1}
    NoRow = NoRow
    NoFact = NoFact
    MaxAcquisitions = 1
    MaxRecheckRuns = 1
    MaxRepairRuns = 1
    Keys <- MCKeys
    RunCount = 1
    MaxAttempt = 1
    WorkflowOf <- MCWorkflowOf
    Configurations <- MCArchiveConfigurations
    Observations <- MCArchiveObservations
    Delivered <- MCLast
    Bounds = {0}
    Failures = {"deferred"}
    Served = {"backfill"}
    Overlap = 1
    MaxTime = 0
    MaxRevision = 2
INVARIANTS AccountingExact
PROPERTIES ArchiveNeverForgets
