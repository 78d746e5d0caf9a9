\* Four slots, and a size_t of eight values: the ninth push wraps it.
SPECIFICATION Spec
CONSTANTS
    Capacity = 4
    WordSize = 8
    Msgs = {m1, m2}
    NoMsg = NoMsg
    MaxPushes = 10
INVARIANTS
    NoSlotRace
PROPERTIES
    RefinesFifo
    EveryPushPopped
