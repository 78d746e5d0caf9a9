SPECIFICATION Spec
CONSTANTS
    block_size = 5
    block_count = 3
    kAlign = 4
    PointerSize = 2
    Hexes = {h1, h2, h3}
    MaxInstant = 3
    MaxAircraft = 2
    max_streams_ = 2
    base_stream_id_ = 2
    Word = 3
    Start = 2
    MaxTime = 6
    MaxBatch = 3
    LastYear = 2101
    Digits = {0, 9}
    MaxDigits = 10
    Foreign = {"magic", "version"}
    DamagedBytes = {1, 4, 6, 9, 16, 17, 24, 25, 32, 40}
    MaxRecords = 3
    Streams = {s1, s2}
    MaxMessages = 3
    MaxSpecs = 2
    MaxDuration = 2
    Failures = {"write", "flush", "labels"}
    NaN = NaN
    Absent = Absent
    StreamIds = {10, 11}
    Mins = {2, NaN}
    Maxs = {2, 3}
    Rates = {1}
    ProductIds = {11}
    Values = {1, 3, NaN}
    MaxArgs = 2
    MaxChecks = 3
    MaxStamp = 3
    WeightOver = 1
    WeightUnder = 3
    Prices = {0, 1, 3}
    MaxTicks = 5
    Capacities = {0, 4}
    Scores = {1, 2, 3}
    AlphaOver = 1
    AlphaUnder = 3
    Infinity = 3
    MaxUpdates = 8
    MaxResidual = 3
    k_ = 1
    h_ = 3
    warmup_n_ = 2
    MaxSamples = 7
    Requests = {r1, r2}
    MaxSnapshots = 2
INVARIANTS
    PoolSound
    StreamsFollowPolls
    StreamAccountsForTime
    InstantIsExact
    ReplayIsFaithful
    InjectionIsLabelled
    RulesInForce
    QuietRunIsSlow
    ScoreIsOutOfSample
    AlarmIffRunExceeds
    AnswerIsCurrent
PROPERTIES
    RefinesPool
    AlarmIsOutOfSample
SYMMETRY Symmetry
CHECK_DEADLOCK FALSE
