SPECIFICATION Spec
CONSTANTS
    a1 = a1
    a2 = a2
    ChildOrder <- MCChildOrder
    NoStepChoices <- MCNoStepNone
    ReplyChoices = {"Continue"}
    NRecipients = 1
    NHeaders = 1
    NBodyChunks = 2
    SendUnknown = FALSE
    MaxReplaceBody = 1
    MaxModifications = 0
    BackendFailures = FALSE
    ProtocolErrors = FALSE
    UIntModulus = 65536
INVARIANT ReplacedBodyIsReplacement
CHECK_DEADLOCK FALSE
