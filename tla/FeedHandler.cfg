\* One stream, four trades: room for a gap, a late ticker and a heartbeat.
SPECIFICATION Spec
CONSTANTS
    Streams = {s1}
    RingCapacity = 2
    MaxTrades = 4
    MaxInFlight = 3
    MaxConnections = 2
INVARIANTS
    EverySeqAccounted
    GapsAreFinal
    RingOrdered
