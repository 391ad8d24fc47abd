CONSTANTS
    u1 = u1
    u2 = u2
    u3 = u3
    p = p
    q = q
    Null = Null
    Uas <- ThreeUas
    Flows <- FlowsOf
    Pointers <- TwoVars
    Settings <- AllSettings
    MaxAddr = 2
SPECIFICATION Spec
INVARIANTS
    ListExact
    PointersLive
    AllReregistered
