CONSTANTS
    a1 = a1
    a2 = a2
    i1 = i1
    i2 = i2
    Alert = {a1, a2}
    Investigation = {i1}
    InvOf <- MCInvOf
    Analyst = {x1}
    Note = {n1, n2}
    Session = {s1, s2}
    MaxEvents = 5
    Faults = FALSE

SPECIFICATION FairSpec

PROPERTY NotesAppendOnly
