SPECIFICATION ShutdownSpec
CONSTANTS
    a1 = a1
    a2 = a2
    ChildOrder <- MCChildOrder
    NoStepChoices <- MCNoStepMixed
    ReplyChoices = {"Continue", "Reject", "Accept", "Skip", "Progress", "Quarantine", "ConnectionFailure", "Shutdown"}
    NRecipients = 1
    NHeaders = 1
    NBodyChunks = 1
    SendUnknown = FALSE
    MaxReplaceBody = 0
    MaxModifications = 0
    BackendFailures = TRUE
    ProtocolErrors = FALSE
    UIntModulus = 65536
PROPERTY SessionReleasesBackends
CHECK_DEADLOCK FALSE
