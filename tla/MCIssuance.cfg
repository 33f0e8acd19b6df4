CONSTANTS
    a1 = a1
    a2 = a2
    e1 = e1
    e2 = e2
    s1 = s1
    s2 = s2
    r1 = r1
    r2 = r2
    o1 = o1
    o2 = o2
    c1 = c1
    c2 = c2
    None = None
    Authorities = {a1}
    Epochs = {e1, e2}
    Candidates = {c1, c2}
    Subjects = {s1}
    Requests = {r1, r2}
    Operators = {o1}
    GenerationOf <- MCGenerationOf
    EpochOf <- MCEpochOf
    NotAfterOf <- MCLateNotAfterOf
    SubjectOf <- MCSubjectOf
    EvidenceWindow = 2
    Skew = 1
    MaxBundles = 2
    MaxTime = 2
    MaxControls = 3
    ForceExpiries = {1}
    MaxForces = 1
    MaxEpochRevision = 2
    DrainWindow = 2
    MaxRevision = 2
    PlanTtl = 1
    LateClaims = {}
SPECIFICATION Spec
INVARIANTS
    OneSelectedPlanPerSubject
PROPERTIES
    PlanCommitsAuthorised
SYMMETRY MCSymmetry
