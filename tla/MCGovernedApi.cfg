SPECIFICATION ApiSpec
CONSTANTS
    r1 = r1  r2 = r2  ana = ana  sam = sam  t1 = t1  t2 = t2  a1 = a1  a2 = a2  n1 = n1
    Request <- MCRequest
    User <- MCUser
    Reviewer <- MCReviewer
    Key <- MCUser
    UserOf <- MCUserOf
    Token <- MCToken
    Alert <- MCAlert
    Queued <- MCQueued
    Note <- MCNote
    SessionTtl = 2
    IdleTtl = 1
    Window = 1
    LockoutTtl = 1
    MaxFailures = 2
    MaxSessions = 1
    MaxClock = 2
    MaxCalls = 4
    MaxConcurrent = 1
    MaxLog = 3
    PageSize = 2
SYMMETRY MCSymmetry
INVARIANTS
    ApiTypeOK
    GuessesBounded
    PermitsConserved
    PageNotShort
    EventsByReviewers
PROPERTIES
    EndedStaysEnded
    QueueIsSerial
