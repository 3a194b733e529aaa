SPECIFICATION Spec
CONSTANTS
    a = a
    b = b
    c = c
    Accounts <- MCAccounts
    Tables <- MCTables
    MinCounts = {1, 2}
    Full = 1
    MaxRows = 3
    MaxAttempts = 3
    MaxListed = 2
    MaxExplained = 2
    RISK_LOW_THRESHOLD = 35
    RISK_HIGH_THRESHOLD = 70
INVARIANTS
    InputsPresent
    DetectorsCounted
    RuleHitIsReviewed
    ListsTheWorst
    ListedAreExplained
    BandsAgree
    TraceComplete
PROPERTIES
    EveryStepProgresses
