------------------------- MODULE MCReplyAggregation -------------------------
(* Model: up to three backends reply at the recipient stage (where Discard *)
(* outranks Reject) and at the sender stage (where Reject outranks         *)
(* Discard), with every status a backend can return.                       *)
EXTENDS ReplyAggregation

MCStageChoices == {"EnvelopeRecipient", "EnvelopeFrom"}
MCReplyChoices == {"Continue", "Reject", "Discard", "Accept",
                   "TemporaryFailure", "Skip"}
=============================================================================
