--------------------------- MODULE ReplyAggregation ---------------------------
(***************************************************************************)
(* One entry of reply_statuses while the backends of one stage reply, in   *)
(* any order: every reply goes through compile_reply_status               *)
(* (milter-manager-children.c).  The fold is compared with a reference     *)
(* definition of the priority the spec documents: the aggregated status    *)
(* is the most important reply, where Reject and Discard outrank all other *)
(* statuses, Discard outranks Reject only at the recipient stage, and      *)
(* below them come Continue, Skip, Accept, TemporaryFailure, NotChange.    *)
(***************************************************************************)
EXTENDS MilterStatus, Naturals, Sequences, SequencesExt

CONSTANTS
    StageChoices,   \* stages whose entry is folded (the key of reply_statuses)
    ReplyChoices,   \* statuses a backend may reply
    MaxReplies      \* how many backends reply in the stage

ASSUME StageChoices \subseteq States /\ ReplyChoices \subseteq Statuses
ASSUME MaxReplies \in Nat

VARIABLES
    stage,          \* the key the replies are compiled under
    replies,        \* the replies in arrival order (history)
    replyStatuses   \* priv->reply_statuses

vars == <<stage, replies, replyStatuses>>

Init ==
    /\ stage \in StageChoices
    /\ replies = <<>>
    \* init_reply_queue seeds the entry of the stage with NotChange
    /\ replyStatuses = [s \in States |-> "NotChange"]

\* A backend's reply arrives and is compiled (compile_reply_status).
Reply(status) ==
    /\ Len(replies) < MaxReplies
    /\ replies' = Append(replies, status)
    /\ replyStatuses' = CompileReplyStatus(replyStatuses, stage, status)
    /\ UNCHANGED stage

Done ==
    /\ Len(replies) = MaxReplies
    /\ UNCHANGED vars

Next == (\E status \in ReplyChoices : Reply(status)) \/ Done

Spec == Init /\ [][Next]_vars

-----------------------------------------------------------------------------
\* Reference definition: the rank of a status at a stage; the aggregated
\* status is the reply of highest rank.
Rank(state, status) ==
    CASE status = "Discard" -> IF state = "EnvelopeRecipient" THEN 7 ELSE 6
      [] status = "Reject"  -> IF state = "EnvelopeRecipient" THEN 6 ELSE 7
      [] status = "Continue" -> 5
      [] status = "Skip" -> 4
      [] status = "Accept" -> 3
      [] status = "TemporaryFailure" -> 2
      [] OTHER -> 1

MostImportant(state, S) ==
    CHOOSE s \in S \cup {"NotChange"} :
        \A t \in S : Rank(state, t) <= Rank(state, s)

\* P1: whatever order the backends' replies arrive in, the status the stage
\* has collected is the most important one replied, and the entries of the
\* other stages are untouched (compile_reply_status / is_important_status).
AggregateIsMostImportant ==
    /\ replyStatuses[stage] = MostImportant(stage, ToSet(replies))
    /\ \A s \in States \ {stage} : replyStatuses[s] = "NotChange"
=============================================================================
