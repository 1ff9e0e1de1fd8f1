SPECIFICATION ShutdownSpec
CONSTANTS
    a1 = a1
    a2 = a2
    ChildOrder <- MCChildOrder
    NoStepChoices <- MCNoStepSomeBody
    ReplyChoices = {"Continue", "Reject", "Discard", "Accept", "TemporaryFailure", "Skip", "ReplyCode"}
    NRecipients = 1
    NHeaders = 1
    NBodyChunks = 2
    SendUnknown = TRUE
    MaxReplaceBody = 1
    MaxModifications = 1
    BackendFailures = FALSE
    ProtocolErrors = TRUE
    UIntModulus = 65536
INVARIANT StepFlagsRespected
INVARIANT SentBodyCountTracksLeader
INVARIANT OneVerdictPerCommand
INVARIANT RepliesMatchState
CHECK_DEADLOCK FALSE
PROPERTY SessionReleasesBackends
