SPECIFICATION FairSpec
CONSTANTS
    a1 = a1
    a2 = a2
    ChildOrder <- MCChildOrder
    NoStepChoices <- MCNoStepNone
    ReplyChoices = {"Continue", "Reject", "Accept"}
    NRecipients = 1
    NHeaders = 1
    NBodyChunks = 1
    SendUnknown = FALSE
    MaxReplaceBody = 0
    MaxModifications = 0
    BackendFailures = FALSE
    ProtocolErrors = FALSE
    UIntModulus = 65536
PROPERTY TestServerFinishes
CHECK_DEADLOCK FALSE
