\* Two requests at a time.
SPECIFICATION Spec
CONSTANTS
    Threads = {t1, t2}
    MaxAlerts = 2
INVARIANT NoDuplicateRows
