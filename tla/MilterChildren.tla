--------------------------- MODULE MilterChildren ---------------------------
(***************************************************************************)
(* The children multiplexer of milter-manager (MilterManagerChildren,      *)
(* src/milter/manager/milter-manager-children.c) between one MTA-side      *)
(* client and a set of backend filters, from the moment every backend has  *)
(* answered the negotiation until the MTA quits.                           *)
(*                                                                         *)
(* Everything runs on one event loop, so every facade call and every       *)
(* signal callback is one atomic step.  The model keeps the multiplexer's  *)
(* private state as variables and writes every function of the C file as  *)
(* an operator from a record of that state (Cur) to the record after the  *)
(* call, so that a handler is the sequential composition of the functions *)
(* it calls, in the order the code calls them.                             *)
(*                                                                         *)
(* The backends' server contexts (milter-server-context.c, not part of     *)
(* this source tree) are modelled from the spec: a request sets the        *)
(* context's state and is queued on the wire until the backend replies.    *)
(* The MTA side is the repository's own milter-test-server                 *)
(* (src/tool/milter-test-server.c), talking to the multiplexer through two *)
(* FIFO channels.                                                          *)
(***************************************************************************)
EXTENDS MilterStatus, Naturals, Sequences, SequencesExt, FiniteSets

CONSTANTS
    ChildOrder,        \* the configured backends, in the order of priv->milters
    NoStepChoices,     \* the negotiated "no X" step flags each backend may have
    ReplyChoices,      \* the statuses a backend may reply with
    NRecipients,       \* recipients the test server sends (>= 1)
    NHeaders,          \* headers the test server sends (>= 1)
    NBodyChunks,       \* body chunks the test server sends (>= 1)
    SendUnknown,       \* whether the test server was given --unknown
    MaxReplaceBody,    \* bound on REPLBODY modifications over all backends
    MaxModifications,  \* bound on header/envelope modifications, PROGRESS
                       \* and QUARANTINE replies, together
    BackendFailures,   \* whether backends may crash, time out or exit early
    ProtocolErrors,    \* whether backends may reply SKIP outside BODY and
                       \* QUARANTINE outside END-OF-MESSAGE
    UIntModulus        \* 2^32: the range of the guint sent_body_count

Child == ToSet(ChildOrder)

\* The milter steps a backend can opt out of, named by the state they skip:
\* NO_CONNECT, NO_HELO, NO_MAIL, NO_RCPT, NO_DATA, NO_UNKNOWN, NO_HEADERS,
\* NO_END_OF_HEADER, NO_BODY.
StepFlags == {"Connect", "Helo", "EnvelopeFrom", "EnvelopeRecipient", "Data",
              "Unknown", "Header", "EndOfHeader", "Body"}

\* The states whose command goes to every backend at once.
PreDataStates == {"Connect", "Helo", "EnvelopeFrom", "EnvelopeRecipient",
                  "Data", "Unknown", "Header"}
\* The post-DATA commands kept in priv->command_queue.
PostDataCommands == {"EndOfHeader", "Body", "EndOfMessage"}

\* Signals the multiplexer emits towards the MTA side.
Verdicts == {"Continue", "Reject", "Discard", "Accept", "TemporaryFailure",
             "Skip", "ReplyCode"}
Modifications == {"AddHeader", "ReplaceBody"}
\* Replies a backend may send besides the statuses, forwarded as they are.
Notifications == {"Progress", "Quarantine", "ConnectionFailure", "Shutdown"}

\* Body data: chunk i of the MTA's body, and chunk k of a body replacement.
NoChunk == <<"none", 0>>
BodyChunk(i) == <<"mta", i>>
ReplaceChunk(k) == <<"replace", k>>
Chunks == {BodyChunk(i) : i \in 1..NBodyChunks}
            \cup {ReplaceChunk(k) : k \in 1..MaxReplaceBody}

NoChild == "NoChild"
NoCommand == "NoCommand"

Msg(cmd, chunk) == [cmd |-> cmd, chunk |-> chunk]
Signal(sig, chunk) == [sig |-> sig, chunk |-> chunk]

ASSUME /\ ProtocolErrors \in BOOLEAN /\ BackendFailures \in BOOLEAN
       /\ NRecipients >= 1 /\ NHeaders >= 1 /\ NBodyChunks >= 1
       /\ \A f \in NoStepChoices : f \in [Child -> SUBSET StepFlags]
       /\ ReplyChoices \subseteq Statuses \cup {"ReplyCode"} \cup Notifications

VARIABLES
    \* MilterManagerChildrenPrivate
    milters,          \* live backends, in order
    quitted,          \* quitted_milters
    replyQueue,       \* backends whose reply to the current stage is due
    cwq,              \* command_waiting_child_queue
    commandQueue,     \* command_queue: post-DATA commands issued so far
    currentState,     \* current_state
    replyStatuses,    \* reply_statuses (a missing key reads NotChange)
    replyCode,        \* reply_code > 0
    spool,            \* body_file: [open, data, pos] (data in chunk units)
    sentBodyCount,    \* sent_body_count
    sentEndOfMessage, \* sent_end_of_message
    replacedBody,     \* replaced_body
    \* one MilterServerContext per backend
    ctx,              \* [state, inflight requests, skip_body]
    noStep,           \* each backend's negotiated "no X" step flags
    \* histories and channels
    received,         \* every command each backend has received
    mods,             \* modifications, PROGRESS and QUARANTINE sent (history)
    answered,         \* verdicts emitted for the MTA's current command
    codeReplied,      \* a backend replied a reply code to that command
    toMta,            \* signals on their way to the MTA side
    toChildren,       \* MTA commands on their way to the multiplexer
    \* the MTA side (milter-test-server)
    mta

childVars == <<milters, quitted, replyQueue, cwq, commandQueue, currentState,
               replyStatuses, replyCode, spool, sentBodyCount,
               sentEndOfMessage, replacedBody, ctx, received, mods,
               answered, codeReplied, toMta>>
vars == <<childVars, noStep, toChildren, mta>>

\* The state one handler works on, and its assignment back to the variables.
Cur == [milters |-> milters, quitted |-> quitted, replyQueue |-> replyQueue,
        cwq |-> cwq, commandQueue |-> commandQueue,
        currentState |-> currentState, replyStatuses |-> replyStatuses,
        replyCode |-> replyCode, spool |-> spool,
        sentBodyCount |-> sentBodyCount, sentEndOfMessage |-> sentEndOfMessage,
        replacedBody |-> replacedBody, ctx |-> ctx, received |-> received,
        mods |-> mods, answered |-> answered, codeReplied |-> codeReplied,
        toMta |-> toMta]

Assign(w) ==
    \E v \in {w} :
       /\ milters' = v.milters /\ quitted' = v.quitted
       /\ replyQueue' = v.replyQueue /\ cwq' = v.cwq
       /\ commandQueue' = v.commandQueue /\ currentState' = v.currentState
       /\ replyStatuses' = v.replyStatuses /\ replyCode' = v.replyCode
       /\ spool' = v.spool /\ sentBodyCount' = v.sentBodyCount
       /\ sentEndOfMessage' = v.sentEndOfMessage
       /\ replacedBody' = v.replacedBody /\ ctx' = v.ctx
       /\ received' = v.received /\ mods' = v.mods
       /\ answered' = v.answered /\ codeReplied' = v.codeReplied
       /\ toMta' = v.toMta

Live(w) == ToSet(w.milters)

-----------------------------------------------------------------------------
(***************************************************************************)
(* Server contexts (spec-modelled).  A request sets the context's state    *)
(* and, unless it is ABORT or QUIT, waits on the wire for the backend's    *)
(* reply.  A body chunk is not sent once the backend has replied SKIP.     *)
(***************************************************************************)
ServerSend(w, c, cmd, chunk) ==
    IF cmd = "Body" /\ w.ctx[c].skipBody
    THEN w
    ELSE [w EXCEPT
            !.ctx[c] = [@ EXCEPT
                !.state = cmd,
                !.inflight = IF cmd \in {"Quit", "Abort"} THEN @
                             ELSE Append(@, Msg(cmd, chunk))],
            !.received[c] = Append(@, Msg(cmd, chunk))]

\* The same request to every backend of S.
ServerSendAll(w, S, cmd) ==
    [w EXCEPT
        !.ctx = [c \in Child |->
                    IF c \in S
                    THEN [w.ctx[c] EXCEPT
                            !.state = cmd,
                            !.inflight = IF cmd \in {"Quit", "Abort"} THEN @
                                         ELSE Append(@, Msg(cmd, NoChunk))]
                    ELSE w.ctx[c]],
        !.received = [c \in Child |->
                        IF c \in S THEN Append(w.received[c], Msg(cmd, NoChunk))
                        ELSE w.received[c]]]

\* g_signal_emit_by_name(children, sig, ...) towards the MTA side.
Emit(w, sig, chunk) ==
    [w EXCEPT !.toMta = Append(@, Signal(sig, chunk)),
              !.answered = IF sig \in Verdicts THEN @ + 1 ELSE @]

-----------------------------------------------------------------------------
\* init_reply_queue
InitReplyQueue(w, state) ==
    [w EXCEPT !.replyQueue = {}, !.currentState = state,
              !.replyStatuses[state] = "NotChange"]

\* compile_reply_status, keyed by the replying context's state
Compile(w, state, status) ==
    [w EXCEPT !.replyStatuses = CompileReplyStatus(@, state, status)]

\* expire_child: disconnect the backend's signals and move it to
\* quitted_milters.  It stays in the reply queue and the waiting queue.
ExpireChild(w, c) ==
    [w EXCEPT !.milters = Remove(@, c), !.quitted = @ \cup {c}]

\* milter_manager_children_abort and milter_manager_children_quit: the
\* reply queue is re-initialised and holds every live backend.
ChildrenAbort(w) ==
    LET w1 == InitReplyQueue(w, "Abort")
    IN  ServerSendAll([w1 EXCEPT !.replyQueue = Live(w)], Live(w), "Abort")

\* Mutation of ChildrenQuit: the backends are queued but not sent QUIT.
ChildrenQuitNoSend(w) ==
    LET w1 == InitReplyQueue(w, "Quit")
    IN  [w1 EXCEPT !.replyQueue = Live(w)]

ChildrenQuit(w) ==
    LET w1 == InitReplyQueue(w, "Quit")
    IN  ServerSendAll([w1 EXCEPT !.replyQueue = Live(w)], Live(w), "Quit")

\* expire_all_children
ExpireAllChildren(w) ==
    LET w1 == ChildrenQuit(ChildrenAbort(w))
    IN  [w1 EXCEPT !.milters = <<>>, !.quitted = @ \cup Live(w1)]

\* remove_child_from_queue: when the reply queue empties, emit the reply
\* code or the aggregated status, then tear everything down on a Reject
\* (unless the removed context is at the recipient stage) or a Discard.
RemoveChildFromQueue(w, c) ==
    LET w1 == [w EXCEPT !.replyQueue = @ \ {c}]
        status == w.replyStatuses[w.currentState]
        w2 == IF w.replyCode THEN Emit(w1, "ReplyCode", NoChunk)
              ELSE IF status # "NotChange" /\ w.currentState # "Body"
                   THEN Emit(w1, StatusToSignalName(status), NoChunk)
                   ELSE w1
    IN  IF w1.replyQueue # {} THEN w1
        ELSE CASE status = "Reject" ->
                    IF w.ctx[c].state # "EnvelopeRecipient"
                    THEN ExpireAllChildren(w2) ELSE w2
               [] status = "Discard" -> ExpireAllChildren(w2)
               [] OTHER -> w2

\* milter_manager_children_connect, _helo, _envelope_from,
\* _envelope_recipient, _data, _unknown and _header: every live backend
\* that did not opt out of the step is enrolled and sent the command.
ChildrenCommand(w, state) ==
    LET enrolled == {c \in Live(w) : state \notin noStep[c]}
        w1 == InitReplyQueue(w, state)
    IN  ServerSendAll([w1 EXCEPT !.replyQueue = enrolled], enrolled, state)

-----------------------------------------------------------------------------
(***************************************************************************)
(* The post-DATA sequencer: END-OF-HEADER, BODY and END-OF-MESSAGE go to   *)
(* one backend at a time, in the order of command_waiting_child_queue.     *)
(***************************************************************************)
\* command_to_no_step_flag
CommandToNoStepFlag(cmd) ==
    IF cmd \in {"EndOfHeader", "Body"} THEN cmd ELSE "None"

\* get_first_command_waiting_child_queue: the first waiting backend that
\* did not opt out of cmd (the context's flags, not its liveness, decide).
GetFirstCommandWaitingChild(w, cmd) ==
    LET q == w.cwq
        ok == {i \in 1..Len(q) : CommandToNoStepFlag(cmd) \notin noStep[q[i]]}
    IN  CASE q = <<>> -> NoChild
          [] cmd = NoCommand -> Head(q)
          [] ok # {} -> q[CHOOSE i \in ok : \A j \in ok : i <= j]
          [] OTHER -> NoChild

\* init_command_waiting_child_queue: record the command (BODY only once)
\* and, when no backend is waiting, start over from every live backend.
InitCommandWaitingChildQueue(w, cmd) ==
    LET w1 == IF cmd # "Body" \/ "Body" \notin ToSet(w.commandQueue)
              THEN [w EXCEPT !.commandQueue = Append(@, cmd)]
              ELSE w
    IN  IF w1.cwq # <<>> THEN w1 ELSE [w1 EXCEPT !.cwq = w1.milters]

\* get_next_command (with state_to_command): the command queued after the
\* one of state, if any.
GetNextCommand(w, state) ==
    LET q == w.commandQueue
        at == {i \in 1..Len(q) : q[i] = state}
        i == CHOOSE i \in at : \A j \in at : i <= j
    IN  IF state \notin PostDataCommands \/ at = {} \/ i = Len(q)
        THEN NoCommand
        ELSE q[i + 1]

\* open_body_file and write_to_body_file: the spool is created on first
\* use and written at its current position.
WriteToBodyFile(w, chunk) ==
    LET d == w.spool.data
        p == w.spool.pos
    IN  [w EXCEPT !.spool = [open |-> TRUE,
                              data |-> IF p < Len(d) THEN [d EXCEPT ![p + 1] = chunk]
                                       ELSE Append(d, chunk),
                              pos |-> p + 1]]

\* Mutations of SendBodyToChild: the NO_BODY check is dropped; the count
\* of the replay is added to the old count instead of replacing it.
SendBodyToChildIgnoringNoBody(w, c) ==
    LET d == w.spool.data
        msgs == [i \in 1..Len(d) |-> Msg("Body", d[i])]
    IN  IF w.ctx[c].skipBody \/ ~w.spool.open THEN [w EXCEPT !.sentBodyCount = 0]
        ELSE [w EXCEPT !.currentState = "Body",
                       !.ctx[c] = [@ EXCEPT !.state = IF d = <<>> THEN @ ELSE "Body",
                                            !.inflight = @ \o msgs],
                       !.received[c] = @ \o msgs,
                       !.sentBodyCount = Len(d) % UIntModulus,
                       !.spool.pos = 0]

SendBodyToChildKeepingCount(w, c) ==
    LET d == w.spool.data
        msgs == [i \in 1..Len(d) |-> Msg("Body", d[i])]
    IN  CASE "Body" \in noStep[c] \/ w.ctx[c].skipBody -> w
          [] ~w.spool.open -> [w EXCEPT !.currentState = "Body"]
          [] OTHER ->
               [w EXCEPT !.currentState = "Body",
                  !.ctx[c] = [@ EXCEPT !.state = IF d = <<>> THEN @ ELSE "Body",
                                       !.inflight = @ \o msgs],
                  !.received[c] = @ \o msgs,
                  !.sentBodyCount = (@ + Len(d)) % UIntModulus,
                  !.spool.pos = 0]

\* send_body_to_child: replay the whole spool to a backend that joins the
\* body phase late, counting the chunks sent, and rewind the spool.
SendBodyToChild(w, c) ==
    LET w1 == [w EXCEPT !.sentBodyCount = 0]
        w2 == [w1 EXCEPT !.currentState = "Body"]
        d == w.spool.data
        msgs == [i \in 1..Len(d) |-> Msg("Body", d[i])]
    IN  CASE "Body" \in noStep[c] \/ w.ctx[c].skipBody -> w1
          [] ~w.spool.open -> w2
          [] OTHER ->
               [w2 EXCEPT
                  !.ctx[c] = [@ EXCEPT !.state = IF d = <<>> THEN @ ELSE "Body",
                                       !.inflight = @ \o msgs],
                  !.received[c] = @ \o msgs,
                  !.sentBodyCount = Len(d) % UIntModulus,
                  !.spool.pos = 0]

\* send_next_command: advance the backend that finished a phase to the
\* next queued one, or tell the MTA side to go on.
SendNextCommand(w, c, state) ==
    LET next == GetNextCommand(w, state)
    IN  CASE next = NoCommand -> Emit(w, "Continue", NoChunk)
          [] next = "EndOfHeader" ->
               ServerSend([w EXCEPT !.currentState = "EndOfHeader"],
                          c, "EndOfHeader", NoChunk)
          [] next = "Body" -> SendBodyToChild(w, c)
          [] OTHER -> ServerSend(w, c, "EndOfMessage", NoChunk)

\* emit_replace_body_signal: stream the spool from its start.
EmitReplaceBodySignal(w) ==
    LET d == w.spool.data
        w1 == [w EXCEPT !.spool.pos = Len(d),
                        !.toMta = @ \o [i \in 1..Len(d) |->
                                          Signal("ReplaceBody", d[i])]]
    IN  w1

\* emit_reply_status_of_state
EmitReplyStatusOfState(w, state) ==
    Emit(w, StatusToSignalName(w.replyStatuses[state]), NoChunk)

\* send_first_command_to_next_child: the backend is done with the
\* message; hand the first post-DATA command to the next waiting backend,
\* or, when none is left, emit the collected result.
SendFirstCommandToNextChild(w, c, state) ==
    LET w1 == [w EXCEPT !.sentEndOfMessage = TRUE, !.cwq = Remove(@, c)]
        first == Head(w.commandQueue)
        next == GetFirstCommandWaitingChild(w1, first)
        w2 == ServerSend(w1, c, "Quit", NoChunk)
    IN  IF next = NoChild
        THEN EmitReplyStatusOfState(
                IF state = "EndOfMessage" /\ w1.replacedBody
                THEN EmitReplaceBodySignal(w1) ELSE w1,
                state)
        ELSE CASE first = "EndOfHeader" ->
                    ServerSend(w2, next, "EndOfHeader", NoChunk)
               [] first = "Body" -> SendBodyToChild(w2, next)
               [] OTHER -> ServerSend(w2, next, "EndOfMessage", NoChunk)

\* milter_manager_children_end_of_header
ChildrenEndOfHeader(w) ==
    LET w1 == InitCommandWaitingChildQueue(
                 [w EXCEPT !.currentState = "EndOfHeader"], "EndOfHeader")
        first == GetFirstCommandWaitingChild(w1, "EndOfHeader")
    IN  IF first = NoChild THEN w1
        ELSE ServerSend(w1, first, "EndOfHeader", NoChunk)

\* milter_manager_children_body: spool the chunk and pass it to the first
\* waiting backend that wants the body.
ChildrenBody(w, chunk) ==
    LET w1 == WriteToBodyFile(InitCommandWaitingChildQueue(w, "Body"), chunk)
        first == GetFirstCommandWaitingChild(w1, "Body")
    IN  IF first = NoChild THEN w1
        ELSE ServerSend([w1 EXCEPT !.sentBodyCount = (@ + 1) % UIntModulus],
                        first, "Body", chunk)

\* milter_manager_children_end_of_message
ChildrenEndOfMessage(w) ==
    LET w1 == InitCommandWaitingChildQueue(w, "EndOfMessage")
        w2 == IF w1.spool.open THEN [w1 EXCEPT !.spool.pos = 0] ELSE w1
        first == GetFirstCommandWaitingChild(w2, "EndOfMessage")
    IN  CASE w.milters = <<>> -> w
          [] first = NoChild -> w2
          [] OTHER -> ServerSend(w2, first, "EndOfMessage", NoChunk)

-----------------------------------------------------------------------------
(***************************************************************************)
(* Callbacks the multiplexer connects to every backend's server context.   *)
(* state is the context's own state: the last command it was sent.         *)
(***************************************************************************)
\* Mutation of OnContinue: the next command sent before every body chunk
\* was answered.
OnContinueNoCountCheck(w, c) ==
    LET state == w.ctx[c].state
        w1 == Compile(w, state, "Continue")
        w2 == [w1 EXCEPT !.sentBodyCount = (@ - 1) % UIntModulus]
    IN  CASE state = "EndOfHeader" -> SendNextCommand(w1, c, state)
          [] state = "Body" ->
               IF ~w2.sentEndOfMessage THEN Emit(w2, "Continue", NoChunk)
               ELSE SendNextCommand(w2, c, state)
          [] state = "EndOfMessage" -> SendFirstCommandToNextChild(w1, c, state)
          [] OTHER -> RemoveChildFromQueue(w1, c)

\* cb_continue
OnContinue(w, c) ==
    LET state == w.ctx[c].state
        w1 == Compile(w, state, "Continue")
        w2 == [w1 EXCEPT !.sentBodyCount = (@ - 1) % UIntModulus]
    IN  CASE state = "EndOfHeader" -> SendNextCommand(w1, c, state)
          [] state = "Body" ->
               IF ~w2.sentEndOfMessage THEN Emit(w2, "Continue", NoChunk)
               ELSE IF w2.sentBodyCount = 0 THEN SendNextCommand(w2, c, state)
               ELSE w2
          [] state = "EndOfMessage" -> SendFirstCommandToNextChild(w1, c, state)
          [] OTHER -> RemoveChildFromQueue(w1, c)

\* cb_temporary_failure and cb_reject: a recipient-stage verdict resolves
\* like any reply, an end-of-message verdict ends the message, and any
\* other stage only quits the backend.
OnFailure(w, c, status) ==
    LET state == w.ctx[c].state
        w1 == Compile(w, state, status)
    IN  CASE state = "EnvelopeRecipient" -> RemoveChildFromQueue(w1, c)
          [] state = "EndOfMessage" ->
               ExpireAllChildren(Emit(w1, status, NoChunk))
          [] OTHER -> ServerSend(w1, c, "Quit", NoChunk)

OnTemporaryFailure(w, c) == OnFailure(w, c, "TemporaryFailure")

OnReject(w, c) == OnFailure(w, c, "Reject")

\* cb_reply_code: record the reply code, then as cb_reject.
OnReplyCode(w, c) == OnReject([w EXCEPT !.replyCode = TRUE], c)

\* cb_accept
OnAccept(w, c) ==
    LET state == w.ctx[c].state
        w1 == Compile(w, state, "Accept")
    IN  IF state \in {"EndOfMessage", "Body"}
        THEN SendFirstCommandToNextChild(w1, c, state)
        ELSE ServerSend(w1, c, "Quit", NoChunk)

\* cb_discard
OnDiscard(w, c) ==
    LET state == w.ctx[c].state
        w1 == Compile(w, state, "Discard")
    IN  IF state = "EndOfMessage"
        THEN ExpireAllChildren(Emit(w1, "Discard", NoChunk))
        ELSE ServerSend(w1, c, "Quit", NoChunk)

\* cb_skip: only allowed in the body phase.
\* Mutation of OnSkip: a SKIP is compiled whatever the context's state.
OnSkipAnyState(w, c) ==
    LET w1 == Compile(w, w.ctx[c].state, "Skip")
    IN  IF ~w1.sentEndOfMessage THEN Emit(w1, "Continue", NoChunk)
        ELSE SendNextCommand(w1, c, w.ctx[c].state)

OnSkip(w, c) ==
    LET state == w.ctx[c].state
        w1 == Compile(w, state, "Skip")
    IN  CASE state # "Body" -> ServerSend(w, c, "Quit", NoChunk)
          [] ~w1.sentEndOfMessage -> Emit(w1, "Continue", NoChunk)
          [] OTHER -> SendNextCommand(w1, c, state)

\* cb_add_header, cb_insert_header, cb_change_header, cb_change_from,
\* cb_add_recipient, cb_delete_recipient: forwarded to the MTA side.
OnModification(w) == Emit(w, "AddHeader", NoChunk)

\* cb_replace_body: spool the replacement chunk.
OnReplaceBody(w, chunk) ==
    [WriteToBodyFile(w, chunk) EXCEPT !.replacedBody = TRUE]

\* cb_writing_timeout, cb_reading_timeout, cb_end_of_message_timeout
OnTimeout(w, c) == RemoveChildFromQueue(ExpireChild(w, c), c)

\* cb_error: the error is re-emitted to the controller first.
OnError(w, c) ==
    RemoveChildFromQueue(ExpireChild(Emit(w, "Error", NoChunk), c), c)

\* The end of cb_finished: once the reply queue is empty the children emit
\* finished.
EmitFinishedIfDrained(w) ==
    IF w.replyQueue = {} THEN Emit(w, "Finished", NoChunk) ELSE w

\* Mutation of OnFinished: no early return after DATA.
OnFinishedAlwaysRemove(w, c) ==
    EmitFinishedIfDrained(RemoveChildFromQueue(ExpireChild(w, c), c))

\* cb_finished: a backend closed; after DATA nothing else is done.
OnFinished(w, c) ==
    LET w1 == ExpireChild(w, c)
    IN  IF w.currentState \in {"EndOfHeader", "EndOfMessage", "Body"}
        THEN w1 ELSE EmitFinishedIfDrained(RemoveChildFromQueue(w1, c))

\* cb_progress: forwarded only at END-OF-MESSAGE, else logged and dropped.
OnProgress(w, c) ==
    IF w.ctx[c].state # "EndOfMessage" THEN w ELSE Emit(w, "Progress", NoChunk)

\* cb_quarantine: forwarded at END-OF-MESSAGE; at any other stage the
\* backend is sent QUIT, and its pending reply is left unanswered.
OnQuarantine(w, c) ==
    IF w.ctx[c].state # "EndOfMessage" THEN ServerSend(w, c, "Quit", NoChunk)
    ELSE Emit(w, "Quarantine", NoChunk)

\* cb_connection_failure and cb_shutdown: forwarded, whatever the stage;
\* the reply queue is left as it is.
OnForward(w, sig) == Emit(w, sig, NoChunk)

-----------------------------------------------------------------------------
(***************************************************************************)
(* The MTA side: milter-test-server.  It drives one server context through *)
(* the stages, skipping those every backend opted out of (the merged       *)
(* option), and reacts to each reply of the multiplexer.  mta.rcpt,        *)
(* mta.headers and mta.chunks count what is left to send.                  *)
(***************************************************************************)
\* The merged step flags of the negotiate reply: a "no X" flag survives
\* only if every backend set it.
MergedStep == {f \in StepFlags : \A c \in Child : f \in noStep[c]}

\* A step of the test server: its new state and the commands it sends.
Out(m, msgs) == [mta |-> m, out |-> msgs]

Send(m, cmd) == Out([m EXCEPT !.state = cmd], <<Msg(cmd, NoChunk)>>)

\* send_recipient
SendRecipient(m) ==
    Out([m EXCEPT !.state = "EnvelopeRecipient", !.rcpt = @ - 1],
        <<Msg("EnvelopeRecipient", NoChunk)>>)

SendHeader(m) ==
    Out([m EXCEPT !.state = "Header", !.headers = @ - 1],
        <<Msg("Header", NoChunk)>>)

SendChunk(m) ==
    Out([m EXCEPT !.state = "Body", !.chunks = @ - 1],
        <<Msg("Body", BodyChunk(NBodyChunks - m.chunks + 1))>>)

\* send_quit and send_abort (the agent shuts down after QUIT).
SendQuit(m) ==
    Out([m EXCEPT !.state = "Quit", !.done = TRUE], <<Msg("Quit", NoChunk)>>)

SendAbort(m) ==
    Out([m EXCEPT !.state = "Quit", !.done = TRUE],
        <<Msg("Abort", NoChunk), Msg("Quit", NoChunk)>>)

\* cb_continue of the test server: the switch on its state, with the
\* fall-through of each case whose step is disabled.
RECURSIVE ContinueFrom(_, _)
ContinueFrom(m, st) ==
    LET on(flag) == flag \notin MergedStep
    IN
    CASE st = "Negotiate" ->
           IF on("Connect") THEN Send(m, "Connect") ELSE ContinueFrom(m, "Connect")
      [] st = "Connect" ->
           IF on("Helo") THEN Send(m, "Helo") ELSE ContinueFrom(m, "Helo")
      [] st = "Helo" ->
           IF on("EnvelopeFrom") THEN Send(m, "EnvelopeFrom")
           ELSE ContinueFrom(m, "EnvelopeFrom")
      [] st = "EnvelopeFrom" ->
           IF on("EnvelopeRecipient") THEN SendRecipient(m)
           ELSE ContinueFrom(m, "EnvelopeRecipient")
      [] st = "EnvelopeRecipient" ->
           IF on("EnvelopeRecipient") /\ m.rcpt > 0 THEN SendRecipient(m)
           ELSE IF on("Unknown") /\ SendUnknown THEN Send(m, "Unknown")
           ELSE ContinueFrom(m, "Unknown")
      [] st = "Unknown" ->
           IF on("Data") THEN Send(m, "Data") ELSE ContinueFrom(m, "Data")
      [] st = "Data" ->
           IF on("Header") THEN SendHeader(m) ELSE ContinueFrom(m, "Header")
      [] st = "Header" ->
           IF on("Header") /\ m.headers > 0 THEN SendHeader(m)
           ELSE IF on("EndOfHeader") THEN Send(m, "EndOfHeader")
           ELSE ContinueFrom(m, "EndOfHeader")
      [] st = "EndOfHeader" ->
           IF on("Body") THEN SendChunk(m) ELSE ContinueFrom(m, "Body")
      [] st = "Body" ->
           IF on("Body") /\ m.chunks > 0 THEN SendChunk(m)
           ELSE Send(m, "EndOfMessage")
      [] st = "EndOfMessage" -> SendQuit(m)
      [] OTHER -> SendAbort(m)

\* cb_progress (nothing), and cb_quarantine, cb_connection_failure,
\* cb_shutdown of the test server (send_abort).
TestServerNotify(m, sig) == IF sig = "Progress" THEN Out(m, <<>>) ELSE SendAbort(m)

\* cb_skip of the test server: the remaining body chunks are dropped and
\* cb_continue goes on.
TestServerOnSkip(m) == ContinueFrom([m EXCEPT !.chunks = 0], m.state)

\* The test server's handler for each signal the multiplexer emits
\* (cb_continue, cb_reply_code, cb_temporary_failure, cb_reject,
\* cb_accept, cb_discard, the modification callbacks).
TestServerReact(m, sig) ==
    CASE sig.sig \in {"Continue", "ReplyCode"} -> ContinueFrom(m, m.state)
      [] sig.sig \in {"TemporaryFailure", "Reject"} ->
           IF m.state = "EnvelopeRecipient" THEN ContinueFrom(m, m.state)
           ELSE SendAbort(m)
      [] sig.sig \in {"Accept", "Discard"} -> SendAbort(m)
      [] sig.sig = "Skip" -> TestServerOnSkip(m)
      [] sig.sig \in Notifications -> TestServerNotify(m, sig.sig)
      \* error and finished have no milter reply: the manager handles them,
      \* the MTA never sees them.
      [] sig.sig \in {"Error", "Finished"} -> Out(m, <<>>)
      [] sig.sig = "ReplaceBody" -> Out([m EXCEPT !.body = Append(@, sig.chunk)], <<>>)
      [] OTHER -> Out(m, <<>>)   \* modifications are recorded for printing

InitMta == [state |-> "Negotiate", rcpt |-> NRecipients, headers |-> NHeaders,
            chunks |-> NBodyChunks, done |-> FALSE, body |-> <<>>]

-----------------------------------------------------------------------------
\* Every backend has answered the negotiation: the children emitted
\* negotiate-reply and the test server (cb_negotiate_reply) went on.
Init ==
    /\ noStep \in NoStepChoices
    /\ milters = ChildOrder
    /\ quitted = {}
    /\ replyQueue = {}
    /\ cwq = <<>>
    /\ commandQueue = <<>>
    /\ currentState = "Negotiate"
    /\ replyStatuses = [s \in States |-> "NotChange"]
    /\ replyCode = FALSE
    /\ spool = [open |-> FALSE, data |-> <<>>, pos |-> 0]
    /\ sentBodyCount = 0
    /\ sentEndOfMessage = FALSE
    /\ replacedBody = FALSE
    /\ ctx = [c \in Child |-> [state |-> "Negotiate", inflight |-> <<>>,
                               skipBody |-> FALSE]]
    /\ received = [c \in Child |-> <<>>]
    /\ mods = <<>>
    /\ answered = 0
    /\ codeReplied = FALSE
    /\ toMta = <<>>
    /\ LET r == ContinueFrom(InitMta, "Negotiate")
       IN  mta = r.mta /\ toChildren = r.out

\* The manager hands the next MTA command to the children facade.
ChildrenReceive ==
    /\ toChildren # <<>>
    /\ LET m == Head(toChildren)
           w == [Cur EXCEPT !.answered = 0, !.codeReplied = FALSE]
       IN  Assign(CASE m.cmd \in PreDataStates -> ChildrenCommand(w, m.cmd)
                    [] m.cmd = "EndOfHeader" -> ChildrenEndOfHeader(w)
                    [] m.cmd = "Body" -> ChildrenBody(w, m.chunk)
                    [] m.cmd = "EndOfMessage" -> ChildrenEndOfMessage(w)
                    [] m.cmd = "Abort" -> ChildrenAbort(w)
                    [] OTHER -> ChildrenQuit(w))
    /\ toChildren' = Tail(toChildren)
    /\ UNCHANGED <<noStep, mta>>

\* The test server handles the next reply of the multiplexer.
TestServerReceive ==
    /\ ~mta.done
    /\ toMta # <<>>
    /\ LET r == TestServerReact(mta, Head(toMta))
       IN  /\ mta' = r.mta
           /\ toChildren' = toChildren \o r.out
    /\ toMta' = Tail(toMta)
    /\ UNCHANGED <<milters, quitted, replyQueue, cwq, commandQueue,
                   currentState, replyStatuses, replyCode, spool,
                   sentBodyCount, sentEndOfMessage, replacedBody, ctx,
                   received, mods, answered, codeReplied, noStep>>

\* A backend replies to its oldest pending request.  After anything but
\* CONTINUE it answers nothing else of the message.  It replies SKIP only
\* to a body chunk, as the protocol allows.
BackendReply(c, status) ==
    /\ c \in Live(Cur)
    /\ ctx[c].inflight # <<>>
    /\ status = "Skip" /\ ~ProtocolErrors => Head(ctx[c].inflight).cmd = "Body"
    /\ LET w == [Cur EXCEPT
                   !.ctx[c].inflight = IF status = "Continue" THEN Tail(@) ELSE <<>>,
                   !.ctx[c].skipBody = @ \/ (status = "Skip" /\ ctx[c].state = "Body"),
                   !.codeReplied = @ \/ status = "ReplyCode"]
       IN  Assign(CASE status = "Continue" -> OnContinue(w, c)
                    [] status = "TemporaryFailure" -> OnTemporaryFailure(w, c)
                    [] status = "Reject" -> OnReject(w, c)
                    [] status = "ReplyCode" -> OnReplyCode(w, c)
                    [] status = "Accept" -> OnAccept(w, c)
                    [] status = "Discard" -> OnDiscard(w, c)
                    [] OTHER -> OnSkip(w, c))
    /\ UNCHANGED <<noStep, toChildren, mta>>

\* The replacement body the backends have sent, in order.
ReplacementSent ==
    [i \in 1..Len(SelectSeq(mods, LAMBDA x : x.sig = "ReplaceBody")) |->
        SelectSeq(mods, LAMBDA x : x.sig = "ReplaceBody")[i].chunk]

\* While handling END-OF-MESSAGE a backend sends a modification.
BackendModify(c) ==
    /\ c \in Live(Cur)
    /\ ctx[c].inflight # <<>> /\ Head(ctx[c].inflight).cmd = "EndOfMessage"
    /\ Len(SelectSeq(mods, LAMBDA x : x.sig # "ReplaceBody")) < MaxModifications
    /\ Assign([OnModification(Cur) EXCEPT
                 !.mods = Append(@, Signal("AddHeader", NoChunk))])
    /\ UNCHANGED <<noStep, toChildren, mta>>

\* A backend handling END-OF-MESSAGE sends PROGRESS or QUARANTINE, which
\* the protocol allows only there; or it ends its pending request with
\* CONNECTION-FAILURE or SHUTDOWN.
BackendNotify(c, sig) ==
    /\ c \in Live(Cur)
    /\ ctx[c].inflight # <<>>
    /\ sig = "Progress" \/ (sig = "Quarantine" /\ ~ProtocolErrors) =>
          Head(ctx[c].inflight).cmd = "EndOfMessage"
    /\ sig \in {"Progress", "Quarantine"} =>
          Len(SelectSeq(mods, LAMBDA x : x.sig # "ReplaceBody")) < MaxModifications
    /\ LET w == IF sig \in {"Progress", "Quarantine"}
               THEN [Cur EXCEPT !.mods = Append(@, Signal(sig, NoChunk))]
               ELSE [Cur EXCEPT !.ctx[c].inflight = <<>>]
       IN  Assign(CASE sig = "Progress" -> OnProgress(w, c)
                    [] sig = "Quarantine" -> OnQuarantine(w, c)
                    [] OTHER -> OnForward(w, sig))
    /\ UNCHANGED <<noStep, toChildren, mta>>

\* ... or a chunk of a replacement body.
BackendReplaceBody(c) ==
    /\ c \in Live(Cur)
    /\ ctx[c].inflight # <<>> /\ Head(ctx[c].inflight).cmd = "EndOfMessage"
    /\ LET k == Len(ReplacementSent)
       IN  /\ k < MaxReplaceBody
           /\ Assign([OnReplaceBody(Cur, ReplaceChunk(k + 1))
                        EXCEPT !.mods = Append(@, Signal("ReplaceBody",
                                                         ReplaceChunk(k + 1)))])
    /\ UNCHANGED <<noStep, toChildren, mta>>

\* A deadline of a pending request fires.
BackendTimeout(c) ==
    /\ BackendFailures
    /\ c \in Live(Cur)
    /\ ctx[c].inflight # <<>>
    /\ Assign(OnTimeout(Cur, c))
    /\ UNCHANGED <<noStep, toChildren, mta>>

\* The connection to a backend fails.
BackendError(c) ==
    /\ BackendFailures
    /\ c \in Live(Cur)
    /\ Assign(OnError(Cur, c))
    /\ UNCHANGED <<noStep, toChildren, mta>>

\* A backend closes its connection after QUIT ...
BackendFinished(c) ==
    /\ c \in Live(Cur)
    /\ ctx[c].state = "Quit"
    /\ Assign(OnFinished(Cur, c))
    /\ UNCHANGED <<noStep, toChildren, mta>>

\* ... or exits at any other time.
BackendExit(c) ==
    /\ BackendFailures
    /\ c \in Live(Cur)
    /\ ctx[c].state # "Quit"
    /\ Assign(OnFinished(Cur, c))
    /\ UNCHANGED <<noStep, toChildren, mta>>

\* The test server has quit and the manager has handled its last command.
Terminated ==
    /\ mta.done /\ toChildren = <<>>
    /\ UNCHANGED vars

Next ==
    \/ ChildrenReceive
    \/ TestServerReceive
    \/ \E c \in Child :
          \/ \E status \in ReplyChoices \ Notifications : BackendReply(c, status)
          \/ \E sig \in ReplyChoices \cap Notifications : BackendNotify(c, sig)
          \/ BackendModify(c)
          \/ BackendReplaceBody(c)
          \/ BackendTimeout(c)
          \/ BackendError(c)
          \/ BackendFinished(c)
          \/ BackendExit(c)
    \/ Terminated

Spec == Init /\ [][Next]_vars

\* The event loop dispatches every ready event; a live backend answers its
\* pending request (or its read timeout fires) and closes once quit.
Fairness ==
    /\ WF_vars(ChildrenReceive)
    /\ WF_vars(TestServerReceive)
    /\ \A c \in Child :
          /\ WF_vars(\E status \in ReplyChoices \ Notifications :
                        BackendReply(c, status))
          /\ WF_vars(BackendFinished(c))

FairSpec == Spec /\ Fairness

\* The part of Fairness that concerns the end of a session, assumed only
\* once the test server has quit: the manager handles its last command, and
\* a backend sent QUIT closes.
ShutdownFairness ==
    /\ WF_vars(mta.done /\ ChildrenReceive)
    /\ \A c \in Child : WF_vars(mta.done /\ BackendFinished(c))

ShutdownSpec == Spec /\ ShutdownFairness

-----------------------------------------------------------------------------
TypeOK ==
    /\ noStep \in [Child -> SUBSET StepFlags]
    /\ milters \in Seq(Child) /\ quitted \subseteq Child
    /\ replyQueue \subseteq Child /\ cwq \in Seq(Child)
    /\ commandQueue \in Seq(PostDataCommands)
    /\ currentState \in States
    /\ replyStatuses \in [States -> Statuses]
    /\ replyCode \in BOOLEAN
    /\ spool.open \in BOOLEAN /\ spool.data \in Seq(Chunks)
    /\ spool.pos \in 0..Len(spool.data)
    /\ sentBodyCount \in 0..(UIntModulus - 1)
    /\ sentEndOfMessage \in BOOLEAN /\ replacedBody \in BOOLEAN
    /\ \A c \in Child : ctx[c].state \in States /\ ctx[c].skipBody \in BOOLEAN
    /\ toMta \in Seq([sig : Verdicts \cup Modifications \cup Notifications
                                \cup {"Error", "Finished"},
                      chunk : Chunks \cup {NoChunk}])
    /\ mta.state \in States /\ mta.done \in BOOLEAN

-----------------------------------------------------------------------------
\* The order of the milter protocol's commands within one message.
StageRank(cmd) ==
    CASE cmd = "Connect" -> 1 [] cmd = "Helo" -> 2 [] cmd = "EnvelopeFrom" -> 3
      [] cmd = "EnvelopeRecipient" -> 4 [] cmd = "Unknown" -> 5
      [] cmd = "Data" -> 6 [] cmd = "Header" -> 7 [] cmd = "EndOfHeader" -> 8
      [] cmd = "Body" -> 9 [] OTHER -> 10

\* The commands of the message a backend received (ABORT and QUIT aside).
MessageCommands(c) == SelectSeq(received[c], LAMBDA m : m.cmd \notin {"Abort", "Quit"})

\* (I7, P3) A backend that negotiated "no X" is never sent X: neither in
\* the pre-DATA fan-out (the is_enable_step checks of the facade) nor by
\* the post-DATA sequencer, which hands phases from backend to backend and
\* replays the spooled body to late joiners (send_body_to_child).
StepFlagsRespected ==
    \A c \in Child : \A i \in 1..Len(received[c]) :
        received[c][i].cmd \notin noStep[c]

\* (I4, per backend) Every backend sees the commands of the message in
\* protocol order: no stage goes back, and only RCPT, HEADER and BODY
\* repeat.  The sequencer (send_first_command_to_next_child,
\* send_next_command, milter_manager_children_body) decides this order
\* after DATA.
BackendSeesProtocolOrder ==
    \A c \in Child :
        LET s == MessageCommands(c)
        IN  \A i \in 1..Len(s) - 1 :
               \/ StageRank(s[i].cmd) < StageRank(s[i + 1].cmd)
               \/ s[i].cmd = s[i + 1].cmd
                  /\ s[i].cmd \in {"EnvelopeRecipient", "Header", "Body"}

\* (P2) The multiplexer answers each MTA command with at most one verdict
\* (remove_child_from_queue, send_next_command, cb_continue in the body
\* phase, the end-of-message verdicts).
OneVerdictPerCommand == answered <= 1

\* (P5) The body the MTA is told to use instead of its own is exactly the
\* replacement the backends sent (cb_replace_body, write_to_body_file,
\* emit_replace_body_signal).
ReplacedBodyIsReplacement ==
    mta.done => mta.body \in {<<>>, ReplacementSent}

\* (I5) Once the body phase has begun, sent_body_count is the number of
\* body chunks the leading backend (the first waiting one that wants the
\* body, while it is still exchanging body chunks) has not yet answered:
\* it is what milter_manager_children_body, cb_continue and
\* send_body_to_child keep it at.
SentBodyCountTracksLeader ==
    LET l == GetFirstCommandWaitingChild(Cur, "Body")
    IN  ( /\ "Body" \in ToSet(commandQueue) /\ l # NoChild /\ l \in Live(Cur)
          /\ ctx[l].state = "Body" /\ ~ctx[l].skipBody )
            => sentBodyCount
                 = Len(SelectSeq(ctx[l].inflight, LAMBDA m : m.cmd = "Body"))

\* (B1) A reply-code signal answers the MTA command during which a backend
\* replied with a reply code: cb_reply_code records the code, and
\* remove_child_from_queue emits it whenever it is set.
ReplyCodeIsFresh ==
    [][\A i \in 1..Len(toMta') :
          i > Len(toMta) /\ toMta'[i].sig = "ReplyCode" => codeReplied']_vars

\* (P2, liveness) Every command the test server sends is eventually
\* answered, so the test server eventually quits.
TestServerFinishes == <>(mta.done)

\* (P3, liveness) Once the test server has quit, every backend connection
\* is eventually released: milter_manager_children_quit sends QUIT to every
\* live backend, and cb_finished expires each one (expire_child) as it
\* closes, whatever the state the session ended in: also when the test
\* server ended it with ABORT on a CONNECTION-FAILURE or SHUTDOWN, and when
\* backends time out, error or exit while QUIT is on its way.
SessionReleasesBackends == mta.done ~> (milters = <<>>)

\* A live backend is never sent a command while its answer to a different
\* command is still due: every callback (cb_continue, cb_reject, ...)
\* reads the reply as the answer to the context's current state, so a
\* reply still pending for an earlier command would be misread.  Only
\* body chunks are pipelined.
RepliesMatchState ==
    \A c \in Live(Cur) : \A i \in 1..Len(ctx[c].inflight) :
        ctx[c].inflight[i].cmd = ctx[c].state

=============================================================================
