CONSTANTS
    s1 = s1
    s2 = s2
    w1 = w1
    w2 = w2
    g1 = g1
    g2 = g2
    m1 = m1
    j1 = j1
    j2 = j2
    None = None
    Subjects = {s1}
    Workers = {w1, w2}
    Expected = {g1}
    Omitted = {}
    Jobs = {j1}
    Deadline = 2
    Lease = 1
    InitialBackoff = 1
    MaxBackoff = 2
    MaxAttempts = 2
    Skew = 0
    MaxTime = 3
    LastCreation = 1
SPECIFICATION Spec
PROPERTIES
    ClaimsAreUnresolved
CHECK_DEADLOCK FALSE
