SPECIFICATION Spec
CONSTANTS
    HandleCount = 2
    Clients = {c1}
    Deliveries = {d1, d2}
    IdentityOf <- MCIdentityOf
    TokenOf <- MCTokenOf
    TargetOf <- MCTargetOf
    TokenIssued = 0
    TokenExpires = 1
    Lifetimes = {1}
    SessionMaximum = 2
    TokenMaximumAge = 1
    ClockSkew = 0
    Skew = 1
    MaxSessions = 1
    Retention = 2
    DiagnosticLimit = 1
    PageLimit = 1
    None = None
    MaxTime = 2
    MaxSequence = 3
INVARIANTS PagesSkipNothing
PROPERTIES SessionsAccounted LogoutsTakeEffectOnce
SYMMETRY DeliverySymmetry
CHECK_DEADLOCK FALSE
