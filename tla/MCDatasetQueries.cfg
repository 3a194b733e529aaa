CONSTANTS
    c1 = c1
    c2 = c2
    r1 = r1
    r2 = r2
    Content = {c1, c2}
    Fits <- MCFits
    Request = {r1, r2}
    InitialTables <- Deployed
    MaxEvents = 3
    Faults = {}

SPECIFICATION Spec

INVARIANT QueriesSeeWholeDataset
