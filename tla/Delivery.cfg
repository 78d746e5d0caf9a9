\* Two deliveries at once, each to two subscribers with one retry.
SPECIFICATION Spec
CONSTANTS
    Keys = {k1, k2}
    Subscribers = 2
    MaxAttempts = 2
    DedupeMax = 2
    MaxAccepted = 2
    MaxDuplicates = 0
INVARIANTS
    LedgerInv
PROPERTIES
    SettledForGood
    EveryAcceptedSettles
\* alertd exits.
CHECK_DEADLOCK FALSE
