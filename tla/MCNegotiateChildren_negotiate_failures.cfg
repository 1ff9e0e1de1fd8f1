SPECIFICATION FairSpec
CONSTANTS
    b1 = b1
    b2 = b2
    b3 = b3
    ChildOrder <- MCChildOrder
    Privilege = FALSE
    SyncFailures = FALSE
    StartFailures = TRUE
    PostReadyFailures = TRUE
PROPERTY NegotiationSettles
