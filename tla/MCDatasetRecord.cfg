CONSTANTS
    c1 = c1
    c2 = c2
    r1 = r1
    r2 = r2
    Content = {c1}
    Fits <- MCFits
    Request = {r1, r2}
    InitialTables <- DeployedOrEmpty
    MaxEvents = 2
    Faults = {"statement"}

SPECIFICATION FairSpec

INVARIANTS
    FailedUploadLeavesNothing
    AuditAccountsForDatasets

PROPERTY EveryRequestAnswered
