CONSTANTS
    s1 = s1
    s2 = s2
    Null = Null
    NoSeq = NoSeq
    Sources <- TwoSources
    Modulus = 16
    Dropout = 5
    Misorder = 3
    MaxLate = 3
    Settings <- AllSettings
SPECIFICATION Spec
INVARIANTS FollowsNewest LossExact OneSource
