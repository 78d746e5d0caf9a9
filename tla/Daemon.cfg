\* A ring of one slot that overflows, two frames, one drop.
SPECIFICATION Spec
CONSTANTS
    RingCapacity = 1
    Reported = {"processed", "alerts"}
    Layers = 2
    MaxReceived = 2
    MaxDrops = 1
INVARIANTS
    TicksConserved
    FinalStatsExact
PROPERTIES
    StatsMonotone
    SignalTerminates
\* The daemon exits after a signal.
CHECK_DEADLOCK FALSE
