SPECIFICATION Spec
CONSTANTS
    c1 = c1  c2 = c2
    Choice <- MCChoice
    Default = c1
    Nothing = Nothing
    GetAttempts = 2
    MaxClicks = 3
    MaxPending = 3
INVARIANTS
    ClickAppliedAtMostOnce
    ShowsItsAnswer
PROPERTIES
    StopsWaiting
