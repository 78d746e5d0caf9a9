\* One request at a time; four alerts, any of them torn by a daemon crash.
SPECIFICATION Spec
CONSTANTS
    Threads = {t1}
    MaxAlerts = 4
INVARIANTS
    SyncInv
PROPERTIES
    EveryLineSynced
