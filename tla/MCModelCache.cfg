CONSTANTS
    k0 = k0
    k1 = k1
    k2 = k2
    p1 = p1
    p2 = p2
    r1 = r1
    r2 = r2
    r3 = r3
    Knowledge = {k0, k1}
    FirstActive = k0
    Stored = {k0}
    Primary = {p1}
    Request = {r1, r2, r3}
    Uploads = TRUE
    MaxChanges = 2

SPECIFICATION FairSpec

INVARIANTS
    CardShowsItsDataset

PROPERTIES
    TrainedOnce
    EveryCallEnds
