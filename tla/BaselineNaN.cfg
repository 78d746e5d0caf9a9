\* A price that reads "nan" reaches the baseline.
SPECIFICATION BaselineSpec
CONSTANTS
    WeightOver = 1
    WeightUnder = 3
    Prices = {0, 1, 3}
    MaxTicks = 5
INVARIANTS ScoreIsNumber
CHECK_DEADLOCK FALSE
