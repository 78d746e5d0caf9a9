\* Four alerts through a dedupe set of two keys: keys are evicted and return.
SPECIFICATION Spec
CONSTANTS
    Keys = {k1, k2, k3}
    Subscribers = 1
    MaxAttempts = 1
    DedupeMax = 2
    MaxAccepted = 4
    MaxDuplicates = 1
INVARIANTS DedupeWindow
\* alertd exits.
CHECK_DEADLOCK FALSE
