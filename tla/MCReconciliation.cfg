CONSTANTS
    s1 = s1
    s2 = s2
    w1 = w1
    w2 = w2
    g1 = g1
    g2 = g2
    m1 = m1
    j1 = j1
    j2 = j2
    None = None
    Subjects = {s1}
    Workers = {w1, w2}
    Expected = {g1}
    Omitted = {}
    Jobs = {j1, j2}
    Deadline = 3
    Lease = 1
    InitialBackoff = 2
    MaxBackoff = 2
    MaxAttempts = 2
    Skew = 1
    MaxTime = 4
    LastCreation = 1
SPECIFICATION FairSpec
INVARIANTS
    RowsReadable
    SuccessIsWitnessed
PROPERTIES
    EverySubjectSettles
    StaleOwnersFenced
CHECK_DEADLOCK FALSE
