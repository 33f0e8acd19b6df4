CONSTANTS
    a1 = a1
    a2 = a2
    e1 = e1
    e2 = e2
    s1 = s1
    s2 = s2
    r1 = r1
    r2 = r2
    o1 = o1
    o2 = o2
    c1 = c1
    c2 = c2
    None = None
    Authorities = {a1, a2}
    Epochs = {e1}
    Candidates = {c1}
    Subjects = {s1}
    Requests = {r1}
    Operators = {o1}
    GenerationOf <- MCGenerationOf
    EpochOf <- MCEpochOf
    NotAfterOf <- MCNotAfterOf
    SubjectOf <- MCSubjectOf
    EvidenceWindow = 2
    Skew = 0
    MaxBundles = 2
    MaxTime = 3
    MaxControls = 2
    ForceExpiries = {1}
    MaxForces = 0
    MaxEpochRevision = 1
    DrainWindow = 2
    MaxRevision = 5
    PlanTtl = 2
    LateClaims = {s1}
SPECIFICATION FairSpec
INVARIANTS
    LivePlansAreCurrent
    LatchKeepsOmissionDisabled
    ScopeRowReadable
    PlansAreRegistered
PROPERTIES
    SupersededSubjectsSettled
    DrainCompletes
    ImplementsHandover
