---------------------------- MODULE MilterStatus ----------------------------
(***************************************************************************)
(* The vocabulary shared by every module of the project: the protocol      *)
(* states of a milter server context (MilterServerContextState), the reply *)
(* statuses a backend filter can return (MilterStatus), and the priority   *)
(* rule with which milter-manager-children.c folds the replies of several  *)
(* backends into one status per state (is_important_status and            *)
(* compile_reply_status).                                                  *)
(***************************************************************************)

\* MilterServerContextState.  The children multiplexer uses a state both as
\* the stage of the message it is in and as the key of reply_statuses.
States == {"Start", "Negotiate", "Connect", "Helo", "EnvelopeFrom",
           "EnvelopeRecipient", "Data", "Unknown", "Header", "EndOfHeader",
           "Body", "EndOfMessage", "Quit", "Abort"}

\* MilterStatus values that reach compile_reply_status.
Statuses == {"NotChange", "Continue", "Reject", "Discard", "Accept",
             "TemporaryFailure", "Skip"}

\* Mutation of IsImportantStatus: Discard replaces Reject at every stage.
IsImportantStatusDiscardAlwaysWins(state, a, b) ==
    CASE a = "Reject" -> b = "Discard"
      [] a = "Discard" -> state # "EnvelopeRecipient" /\ b = "Reject"
      [] a = "TemporaryFailure" -> b # "NotChange"
      [] a = "Accept" -> b \notin {"NotChange", "TemporaryFailure"}
      [] a = "Skip" -> b \notin {"NotChange", "Accept", "TemporaryFailure"}
      [] a = "Continue" ->
            b \notin {"NotChange", "Accept", "TemporaryFailure", "Skip"}
      [] OTHER -> TRUE

(***************************************************************************)
(* milter_manager_children_is_important_status: does status b, replied by  *)
(* a backend in state, replace the status a collected so far?              *)
(***************************************************************************)
IsImportantStatus(state, a, b) ==
    CASE a = "Reject" ->
            state = "EnvelopeRecipient" /\ b = "Discard"
      [] a = "Discard" ->
            state # "EnvelopeRecipient" /\ b = "Reject"
      [] a = "TemporaryFailure" ->
            b # "NotChange"
      [] a = "Accept" ->
            b \notin {"NotChange", "TemporaryFailure"}
      [] a = "Skip" ->
            b \notin {"NotChange", "Accept", "TemporaryFailure"}
      [] a = "Continue" ->
            b \notin {"NotChange", "Accept", "TemporaryFailure", "Skip"}
      [] OTHER -> TRUE

\* compile_reply_status: the entry of reply_statuses for state after a
\* backend replied status (a missing entry reads as NotChange).
CompileReplyStatus(replyStatuses, state, status) ==
    IF IsImportantStatus(state, replyStatuses[state], status)
    THEN [replyStatuses EXCEPT ![state] = status]
    ELSE replyStatuses

\* status_to_signal_name: the signal the children emit for a status; every
\* status without a signal of its own is emitted as "continue".
StatusToSignalName(status) ==
    IF status \in {"Reject", "Discard", "Accept", "TemporaryFailure", "Skip"}
    THEN status
    ELSE "Continue"
=============================================================================
