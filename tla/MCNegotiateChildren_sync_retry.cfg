SPECIFICATION FairSpec
CONSTANTS
    b1 = b1
    b2 = b2
    b3 = b3
    ChildOrder <- MCChildOrder
    Privilege = TRUE
    SyncFailures = TRUE
    StartFailures = FALSE
    PostReadyFailures = FALSE
INVARIANT NegotiationNotAborted
