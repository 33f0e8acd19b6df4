CONSTANTS
    r1 = r1
    r2 = r2
    r3 = r3
    w1 = w1
    None = None
    Requests = {r1, r2, r3}
    Writers = {w1}
    IdOf <- MCIdOf
    BodyOf <- MCBodyOf
    KeyOf <- MCKeyOf
    Inputs = {"x", "y"}
    Observed = {"b1"}
    PageSize = 2
SPECIFICATION FairSpec
INVARIANTS
    LedgerIsOneChain
    DeliveriesAudited
    ReplayStaysValid
PROPERTIES
    AcknowledgedIsStored
    TransactionsEnd
