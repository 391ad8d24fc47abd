CONSTANTS
    t1 = t1
    t2 = t2
    a = a
    b = b
    g = g
    h = h
    c = c
    d = d
    Null = Null
    Threads <- TwoThreads
    Streams <- TwoStreams
    Groups <- TwoGroups
    Configs <- TwoConfigs
SPECIFICATION Spec
SYMMETRY Alike
INVARIANTS OneGroup MembershipAgrees
