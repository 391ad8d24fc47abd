CONSTANTS
    c1 = c1
    c2 = c2
    c3 = c3
    c4 = c4
    a = a
    b = b
    Null = Null
    Clients <- FourClients
    MaxList = 3
    Calls <- TwoCalls
SPECIFICATION CallSpec
SYMMETRY Symmetric
INVARIANTS AllClientsTold UsesLiveCall RunsOnlyLive
PROPERTY EndTold
