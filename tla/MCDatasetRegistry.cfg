CONSTANTS
    c1 = c1
    c2 = c2
    r1 = r1
    r2 = r2
    Content = {c1, c2}
    Fits <- TransactionFiles
    Request = {r1, r2}
    InitialTables <- DeployedOrEmpty
    MaxEvents = 1
    Faults = {"statement", "audit", "crash"}

SPECIFICATION Spec
SYMMETRY RequestsAndContents

INVARIANTS
    TypeOK
    RegisteredIsComplete
    OneActivePerType
PROPERTIES
    DefaultChangesHaveCause
