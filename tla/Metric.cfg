CONSTANTS
    Mod = 13
    Scale = 2
    Interval = 2
    Sizes <- SmallSizes
    Settings <- AllSettings
    MaxNow = 6
    MaxAdded = 16
SPECIFICATION Spec
CHECK_DEADLOCK FALSE
INVARIANTS
    AverageClose
PROPERTY RateExact
