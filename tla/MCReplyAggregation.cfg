CONSTANTS
    StageChoices <- MCStageChoices
    ReplyChoices <- MCReplyChoices
    MaxReplies = 3
SPECIFICATION Spec
INVARIANT AggregateIsMostImportant
