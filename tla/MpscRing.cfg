\* Two producers on two slots; five pushes are two and a half laps.
SPECIFICATION Spec
CONSTANTS
    Capacity = 2
    Producers = {p1, p2}
    Msgs = {m1, m2}
    NoMsg = NoMsg
    MaxPushes = 5
INVARIANTS
    RingInv
PROPERTIES
    RefinesFifo
    EveryPushPopped
