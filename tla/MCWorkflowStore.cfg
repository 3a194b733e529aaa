CONSTANTS
    a1 = a1
    a2 = a2
    i1 = i1
    i2 = i2
    Alert = {a1, a2}
    Investigation = {i1, i2}
    InvOf <- MCInvOf
    Analyst = {x1}
    Note = {n1, n2}
    Session = {s1, s2}
    MaxEvents = 6
    Faults = TRUE

SPECIFICATION Spec

INVARIANTS
    TypeOK
    InvestigationStatusConsistent
    AuditExplainsAlerts
    InvestigationKeptWhole
    NotesFollowAudit

PROPERTIES
    EveryChangeAudited
    RequestsLookSerial
