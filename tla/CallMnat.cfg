CONSTANTS
    c1 = c1
    c2 = c2
    n1 = n1
    n2 = n2
    Null = Null
    Calls <- TwoCalls
    Notifiers <- OneNotifier
    MaxCalls = 2
    AnswerMode = "AUTO"
    UseMnat = TRUE
    EarlyRefer = FALSE
    CanFail <- AllFailures
    AppUses <- HoldAndTransfer
SPECIFICATION FairSpec
INVARIANTS
    NoneStranded
PROPERTIES
    IncomingSettles
    ServicePromise
