CONSTANTS
    c1 = c1
    c2 = c2
    n1 = n1
    n2 = n2
    Null = Null
    Calls <- TwoCalls
    Notifiers <- TwoNotifiers
    MaxCalls = 1
    AnswerMode = "MANUAL"
    UseMnat = FALSE
    EarlyRefer = TRUE
    CanFail <- AllFailures
    AppUses <- HoldAndTransfer
SPECIFICATION Spec
SYMMETRY Symmetric
INVARIANTS
    TypeOK
    HandlersLive
    RefsMatch
    IncomingTimed
    ToneHasCall
