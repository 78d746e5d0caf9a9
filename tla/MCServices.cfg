SPECIFICATION Spec
CONSTANTS
    MaxCount = 3
    MaxAlerts = 2
    MaxRestarts = 2
    MaxTurns = 3
    Allowed = {stuck_sensor}
    Other = weather
    Width = 6
    MaxDuration = 16
    MaxAttempt = 8
    RingSize = 2
    MaxReceived = 3
    MaxDrops = 1
INVARIANTS
    DeltasAddUp
    EachAlertCountedOnce
    MemoIsJustified
    ModelIsTold
    CeilingIsCappedPower
    SummaryIsExact
PROPERTIES
    InvestigationEnds
    SmokeToolEnds
CHECK_DEADLOCK FALSE
