CONSTANTS
    s1 = s1
    s2 = s2
    Null = Null
    Sessions <- TwoSessions
    Settings <- AllSettings
    MaxReports = 2
SPECIFICATION Spec
SYMMETRY Alike
INVARIANTS
    AudioInCall
    ModeRight
    EndCloses
    HeardWhenUp
    ClosedStaysClosed
    HoldAgreed
    PushToTalk
