SPECIFICATION FairSpec
CONSTANTS
    b1 = b1
    b2 = b2
    b3 = b3
    ChildOrder <- MCChildOrder
    Privilege = TRUE
    SyncFailures = FALSE
    StartFailures = TRUE
    PostReadyFailures = FALSE
INVARIANT NegotiationNotAborted WiredOnce
PROPERTY FanInSpec NegotiationSettles
