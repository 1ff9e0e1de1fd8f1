# TLA+ models of milter-manager's children multiplexer

milter-manager sits between an MTA and several milter filters. The MTA talks to
the manager as if it were one milter. For every MTA command, the manager's
**children** object (`src/milter/manager/milter-manager-children.c`) forwards the
command to a set of backend filters, the "children". Each child is a
`MilterServerContext`. The children object collects the children's replies and
emits one reply signal back toward the MTA.

The repository's `src/tool/milter-test-server.c` is a small MTA. It drives a
milter through CONNECT … END-OF-MESSAGE and QUIT, reacting to every reply. In the
models it plays the MTA.

## Parts of the system and how they interact

| Part | Code | Role |
|---|---|---|
| Reply aggregator | `is_important_status`, `compile_reply_status`, `status_to_signal_name` (children.c 403-469, 1999-2054) | Folds the replies of all children in one state into one status (`reply_statuses`). |
| Pre-DATA facade | `milter_manager_children_connect` … `_header` (1597-1770) and `remove_child_from_queue` (537-577) | Sends a command to every child that did not opt out of it, and keeps each in `reply_queue`. When the queue empties it emits the compiled status. |
| Post-DATA sequencer | `end_of_header`, `body`, `end_of_message`, `send_next_command`, `send_first_command_to_next_child`, `cb_continue` (647-729, 1421-1542, 1772-1958) | After DATA the children are visited **one at a time**, in `command_waiting_child_queue`. The commands the MTA sent are remembered in `command_queue`. Body chunks are spooled to a file and replayed to each later child. |
| Body spool | `open_body_file`, `write_to_body_file`, `emit_replace_body_signal`, `cb_replace_body` (589-627, 962-976, 1791-1841) | One temporary file and its single read/write position. |
| Modification forwarding | `cb_add_header` … `cb_delete_recipient` (885-960) | Re-emits each child's modification toward the MTA. |
| Failure handling | `cb_*_timeout`, `cb_error`, `cb_finished`, `expire_child`, `expire_all_children` (504-535, 1033-1121) | Removes failed or finished children, and may resolve the stage they were holding. |
| Out-of-band replies | `cb_progress`, `cb_quarantine`, `cb_connection_failure`, `cb_shutdown` (977-1030) | Forwards PROGRESS and QUARANTINE at END-OF-MESSAGE only (an out-of-place QUARANTINE quits the child). Forwards CONNECTION-FAILURE and SHUTDOWN whatever the stage. |
| Negotiation and retry | `milter_manager_children_negotiate`, `child_establish_connection`, the `NegotiateData` attempts, `cb_ready`, `cb_connection_error`, `cb_connection_timeout`, `cb_negotiate_reply`, `remove_queue_in_negotiate` (471-502, 1159-1419, 1559-1596) | Connects to every child, retrying once after a failed connect, sends each one negotiate, and emits one `negotiate-reply` with the merged option when the negotiate queue empties. |
| MTA driver | test-server `cb_continue` (137-250), `cb_reject` … (270-348), `cb_progress` … `cb_shutdown` (480-509), `setup` (539-570) | Next command after "continue", with the switch fall-through; abort on a final verdict, quarantine, connection failure or shutdown. |
| MTA negotiation | test-server `send_abort` (101-113), `cb_negotiate_reply` (252-269), `negotiate`, `cb_ready` (572-619), `cb_connection_error` (620-628), `setup_context`, `start_process` (1346-1375) | Connects to the manager, sends OPTNEG once ready, takes the first `negotiate-reply` as the option, and aborts on a second ("duplicated negotiate"). |

A `MilterServerContext` (the client side of one child connection) lives outside
`src/`. Its behaviour is modelled from `spec.md`: a request sets its state, and
the request stays in flight until the child replies. A body chunk is dropped once
the child has replied SKIP. The definitions that model it are marked
`spec_modelled` in `PROJECT.json`.

## Modules

- **`MilterStatus`** holds the shared vocabulary: the `States` and `Statuses`
  sets, `IsImportantStatus` (the priority rule, as a CASE over the code's
  switch), `CompileReplyStatus` and `StatusToSignalName`.
- **`ReplyAggregation`** models one `reply_statuses` entry while up to
  `MaxReplies` children reply in any order. It is checked against the reference
  definitions `Rank` and `MostImportant`, which are the ranking the spec
  documents. `MCReplyAggregation` instantiates it.
- **`MilterChildren`** composes the children object, N server contexts (the
  backends), the two channels and the test-server MTA.
  - **State.** The variables are the fields of `MilterManagerChildrenPrivate`:
    `milters`, `quitted`, `replyQueue`, `cwq` (`command_waiting_child_queue`),
    `commandQueue`, `currentState`, `replyStatuses`, `replyCode`, `spool`,
    `sentBodyCount`, `sentEndOfMessage` and `replacedBody`. On top of these are
    the server contexts `ctx` and their negotiated `noStep`, the channels
    `toChildren` (MTA → children) and `toMta` (signals), the test server's
    `mta` globals, and the history variables `received`, `mods`, `answered` and
    `codeReplied`.
  - **Functions as operators.** Every C function is an operator that maps a
    record of all variables (`Cur`) to a new record. A handler that calls other
    functions is the composition of their operators, so a whole callback,
    including its trailing sends and emits, is one atomic step. `Assign` writes
    the record back.
  - **Actions.**
    - `ChildrenReceive`: the facade handles the MTA's next command.
    - `TestServerReceive`: the test server handles the next signal: a verdict
      or notification through its `cb_*` handler, SKIP through `cb_skip`
      (`TestServerOnSkip` drops the remaining chunks). `error`, which
      `cb_error` re-emits for a failed child, and `finished` have no milter
      reply. They go to the manager and never reach the MTA, so the test
      server passes over them.
    - `BackendReply(c, status)`: a child answers the head of its in-flight
      requests, and the matching `cb_*` callback runs.
    - `BackendModify` and `BackendReplaceBody`: a child sends a modification or
      a replacement body.
    - `BackendTimeout`, `BackendError` and `BackendExit`: a child fails.
    - `BackendFinished`: a child's connection closes after QUIT. `cb_finished`
      expires it and, before DATA, removes it from the reply queue; when the
      queue drains the children emit `finished` (`EmitFinishedIfDrained`).
    - `BackendNotify(c, sig)`: a child sends PROGRESS or QUARANTINE, or ends
      its pending request with CONNECTION-FAILURE or SHUTDOWN.
  - **`ProtocolErrors`** lets a child reply SKIP to any command and send
    QUARANTINE at any command, so `cb_skip` and `cb_quarantine` take their
    out-of-place branch (QUIT the child and compile nothing).
  - **`MCMilterChildren`** fixes two backends (model values `a1`, `a2`) and the
    step-flag choices each run enumerates.
- **`NegotiateChildren`** models negotiation, from the MTA's OPTNEG until
  every backend has answered, failed or given up. It uses the same
  record-transformer style as `MilterChildren`.
  - **State.**
    - `replyQueue` and `merged` are the negotiate reply queue and the
      backends whose option has been merged into `priv->option`.
    - `tryNegotiateIds` is the `try_negotiate_ids` hash table. It is a
      sequence of `NegotiateData(child, isRetry, timer)` records, because the
      code can hold two attempts for the same backend; `timer` says a retry
      timer is pending.
    - `conn`, `outstanding` and `wired` are each backend's connection, its
      unanswered negotiates, and how many copies of the children's handlers
      `setup_server_context_signals` has connected to it.
    - `replies`, `errors`, `finished`, `started` and `success` record what
      reaches the MTA side and what `negotiate` returned.
    - `mta` is milter-test-server: the state of its server context
      (`Connecting`, `Negotiate`, `Connect`, `Aborted`, `Failed`), whether
      `data->option` is set, and how many forwarded replies it has read.
  - **Signal emission.** A GLib signal runs every handler connected when it
    is emitted. `Ready`, `ConnectionError` and `ConnectionTimeout` therefore
    fold the handler over every `NegotiateData` of the backend (`DataOf`).
    `NegotiateReply` runs `cb_negotiate_reply` once per wiring. `cb_error`
    and the timeouts run at most once, because the first `expire_child`
    disconnects every copy (`TeardownServerContextSignals`).
  - **Actions.**
    - `TestServerReady`, `TestServerConnectionError`: the test server's own
      connection to the manager becomes ready (`cb_ready` sends OPTNEG) or
      fails (`cb_connection_error`).
    - `TestServerNegotiateReply`: the test server reads the next
      `negotiate-reply` the manager forwarded (`cb_negotiate_reply`). The
      manager's relay is outside the sources and is modelled from the spec: each
      signal reaches the test server, in order.
    - `Negotiate`: needs the test server's OPTNEG; then the whole of `milter_manager_children_negotiate`, with every
      outcome of each synchronous connect and child start.
    - `RetryFires(i)`: a retry timer fires (`retry_establish_connection`).
    - `Ready`, `ConnectionError`, `ConnectionTimeout`: a connecting backend
      settles.
    - `NegotiateReply`: a backend answers negotiate.
    - `NegotiateFailure`: a backend that was sent negotiate fails instead,
      through `cb_error`, `cb_reading_timeout` or `cb_finished`.
  - **`MCNegotiateChildren`** fixes three backends `b1`, `b2`, `b3`. The
    constants `Privilege`, `SyncFailures`, `StartFailures` and
    `PostReadyFailures` select the fault model of each run.
- **`NegotiationFanIn`** is the abstract specification of negotiation
  (spec section 4.6).
  - Negotiate enrols a set of backends as pending.
  - Each pending backend either answers, and its option is merged, or is
    withdrawn.
  - When the last one leaves, one reply carrying the merged option is
    emitted, provided something was merged.
  - `NegotiateChildren` instantiates it with `pending <- replyQueue`, and the
    other variables map to the variables of the same name.
  - `FanInSpec` (the abstract `Spec`) is checked as a temporal property. This
    shows that every step of the code is a step of the fan-in, or leaves its
    variables unchanged.

## Runs

Every MilterChildren run has one recipient (two in `reply_code`), one header,
and one or two body chunks. Every NegotiateChildren run has three backends.

| Run | Expect | Properties | What it shows |
|---|---|---|---|
| `reply_aggregation` | pass | AggregateIsMostImportant | Three replies in any order give the most important status. |
| `sequencer` | pass | StepFlagsRespected, SentBodyCountTracksLeader, OneVerdictPerCommand, RepliesMatchState, SessionReleasesBackends | Every choice of {NO_EOH, NO_BODY} per child in which some child takes END-OF-HEADER or BODY, and every reply, SKIP at any command included (`ProtocolErrors`). No child gets a step it opted out of. `sent_body_count` equals the leader's unanswered chunks. Each MTA command gets at most one verdict. No child is sent a command before answering its previous one. Once the test server has quit, every child is eventually released (liveness, under `ShutdownSpec`). |
| `failures` | pass | SessionReleasesBackends | Timeouts, errors, exits, PROGRESS, QUARANTINE, CONNECTION-FAILURE and SHUTDOWN, mixed with step flags, under `ShutdownSpec`. The test server ABORTs on the out-of-band replies, and failures race its ABORT and QUIT. Once it has quit, every child is still eventually released. No modifications (`MaxModifications = 0`): they do not touch the end of the session and would triple the graph. |
| `late_error` | violation | RepliesMatchState | Finding F2. |
| `protocol_order` | violation | BackendSeesProtocolOrder | Finding F3. |
| `replace_body` | violation | ReplacedBodyIsReplacement | Finding F4. |
| `reply_code` | violation | ReplyCodeIsFresh | Finding F5. |
| `hang` | violation | TestServerFinishes | Finding F6. |
| `negotiate` | pass | NegotiationNotAborted, WiredOnce, FanInSpec, NegotiationSettles | `Privilege` is TRUE but `SyncFailures` is FALSE, so the privilege branch at 1580-1583 is never taken (the `sync_retry` run takes it). Asynchronous connect errors, child start failures, retries and connect timeouts, and the test server composed. Negotiation implements the fan-in, the test server is never made to abort by a duplicated reply, each backend is wired once, and negotiation settles. |
| `negotiate_failures` | pass | NegotiationSettles | Without privilege, and with backends that also fail after being sent negotiate. The negotiate queue still empties. |
| `sync_retry` | violation | NegotiationNotAborted | Finding F7. |
| `late_failure` | violation | FanInSpec | Finding F8. |

The `sequencer` run leaves out the one step-flag choice in which every child
skips both END-OF-HEADER and BODY. Under that choice `OneVerdictPerCommand`
fails (observation F1 below), and the run would show nothing else.

### Findings

- **F1 (observed, kept as a hazard).** When every child skips both
  END-OF-HEADER and BODY, END-OF-MESSAGE is answered twice. `current_state` is
  still HEADER, so the sequencer's QUIT of the first child makes `cb_finished`
  re-resolve the HEADER stage.
- **F2.** `cb_error`, a timeout, or `cb_finished` before DATA re-emits the
  verdict when it runs after the stage was resolved. The MTA runs ahead and replies are read against the wrong state. One
  consequence is that `sent_body_count` wraps to 2^32-1.
- **F3.** `send_first_command_to_next_child` restarts the next child at
  `command_queue`'s first command. A child that already had END-OF-HEADER gets it
  again.
- **F4.** `end_of_message` rewinds the spool, and `cb_replace_body` overwrites
  the original in place. A shorter replacement reaches the MTA followed by the
  original's tail.
- **F5.** `reply_code` is never reset. Every later stage resolved by
  `remove_child_from_queue` emits the old reply code again.
- **F6.** A verdict at END-OF-HEADER or BODY only quits the child, and
  `cb_finished` returns early after DATA, so the MTA waits forever. Reject plus
  Accept at RCPT, a call with no eligible child, and SKIP followed by more chunks
  hang the same way.
- **F7.** In privilege mode, a backend whose connect fails at once gets two
  retry timers.
  - One timer comes from `child_establish_connection` (line 1412), the other
    from `milter_manager_children_negotiate` (line 1583).
  - Both `NegotiateData` are connected to the backend's `ready` signal, so
    `cb_ready` runs twice: the handlers are wired twice and negotiate is sent
    twice.
  - Its reply then runs `cb_negotiate_reply` twice, and `negotiate-reply` is
    emitted twice. The trace ends with milter-test-server reading the second
    reply and aborting the session on a "duplicated negotiate".
- **F8.** A backend that fails after it was sent negotiate leaves the queue
  through `cb_error` or `cb_reading_timeout`. These call
  `remove_child_from_queue`, which in state Negotiate emits nothing. If it was
  the last pending backend, the merged option of the others is never sent.
- **F9 (observed, kept as a hazard).** When every backend's connect times out,
  `cb_connection_timeout` only logs and clears the attempt. The MTA side gets
  neither `negotiate-reply` nor an error, although spec section 7 says a
  connect timeout surfaces as an error.
- **QUARANTINE out of place (observed, kept as a hazard).** With QUARANTINE
  allowed at CONNECT, `RepliesMatchState` fails in three steps: `cb_quarantine`
  sends QUIT while the child's CONNECT reply is still due. The passing runs
  allow QUARANTINE only at END-OF-MESSAGE.
- **`finished` mid-session (observed, kept as a hazard).** `cb_finished`
  emits `finished` whenever the reply queue drains. After one child ACCEPTs at
  CONNECT and closes, the children emit the verdict and `finished` while the
  other child is still live. The spec only says "`finished` when the queue
  drains", and its consumer is outside the sources.
- **Expired child still queued (observed, kept as a hazard).** `expire_child`
  leaves the backend in `command_waiting_child_queue`.
  - TLC finds BODY sent to an expired backend even without failures. The
    backend rejects a chunk, is sent QUIT and closes. `cb_finished` returns
    early in BODY, and the next chunk goes to the closed backend, which is
    the root of F6.

`PROJECT.json` lists the findings and the hazards, with the code lines they
come from.

Each property of a passing run has a mutant: a plausible bug in the operator it
depends on, which TLC must catch. The mutants are:

- Discard always beats Reject;
- `send_body_to_child` ignores NO_BODY;
- `sent_body_count` is not incremented;
- `cb_continue` emits in BODY without checking the count;
- `cb_finished` always calls `remove_child_from_queue`;
- `cb_skip` compiles SKIP whatever the child's state;
- `milter_manager_children_quit` queues the children without sending QUIT;
- a retry keeps retrying after a failed attempt;
- `cb_connection_error` keeps its attempt after scheduling a retry;
- `remove_queue_in_negotiate` emits without checking that the queue is empty;
- `cb_connection_timeout` keeps the backend in the queue;
- `cb_reading_timeout` expires the backend without removing it from the queue.

`milter_manager_children_quit` without its QUIT is also the mutant of
`SessionReleasesBackends` in the failures run.

## Bounds, and why they are enough

- **Two backends in MilterChildren.** Every hazard above needs two children:
  one leads and one follows, or one resolves while the other is late. A third
  adds only more orders of the same steps.
- **Three backends in NegotiateChildren.** Two reach only about fifty states,
  and the fan-in cases need a third: one answers, one fails, and one is still
  pending or retrying when the others settle.
- **One header, one or two body chunks.** Two chunks are the fewest for which
  pipelining (the count above 1), a replacement shorter than the original, and
  SKIP before the last chunk can occur.
- **The end of the session (`SessionReleasesBackends`).** The liveness
  property needs no bound of its own. The failures run adds the ABORT paths
  and failures during shutdown. Every other path to QUIT is already in the
  sequencer's bounds: the normal end, an abort after a verdict, and an early
  QUIT after a protocol error.
- **`MaxReplaceBody` and `MaxModifications` of 1 in the sequencer.** This is enough for a
  replacement to interleave with replies, and for one forwarded modification,
  PROGRESS or QUARANTINE (they share the bound) to do so.
- **One retry per attempt.** The code itself retries once: a failed retry is
  not retried again (`is_retry`), so no bound is needed.
- **`UIntModulus = 65536`.** `sent_body_count` is a `guint`. TLC's integers
  cannot hold 2^32, but any modulus larger than the number of chunks in flight
  gives the same wrap-around. At most two are in flight here, so the decrement
  below zero lands on the modulus minus one exactly as 2^32-1 would.
- **The spool.** It is kept in units of chunks. One position and an overwrite
  that does not truncate are all F4 depends on.

`CHECK_DEADLOCK FALSE` is set in the MilterChildren runs because the system
does stop:

- after QUIT the MTA is done and every child has closed;
- in the states that the `hang` run shows are real hangs of the code.

Progress is stated by the liveness property instead. The NegotiateChildren
runs check deadlock. Their `Terminated` step is enabled only once every attempt
has settled.

## Fairness

`MilterChildren!FairSpec` has weak fairness on:

- `ChildrenReceive` and `TestServerReceive`;
- every child's replies (∃ status : `BackendReply`);
- `BackendFinished`.

The event loop dispatches every readable channel, and a live filter eventually
answers what it was sent. Failures and out-of-band replies are not fair: a
child need never send them.

`MilterChildren!ShutdownSpec` assumes only the part of that fairness that
concerns the end of the session, and only once the test server has quit:
`ChildrenReceive` (the manager reads the last QUIT) and `BackendFinished` (a
child sent QUIT closes). `SessionReleasesBackends` holds under this weaker
assumption, so it holds under `FairSpec` too.

`NegotiateChildren!FairSpec` has weak fairness on:

- `TestServerReady` and `TestServerNegotiateReply` (the test server's loop
  dispatches its connection);
- `Negotiate`;
- the retry timers;
- each connecting backend being settled by ready, error or the connect
  timeout;
- each negotiating backend answering or failing.

The code justifies each one:

- a retry is a `g_timeout_add` that fires once the loop is idle;
- `milter_server_context_establish_connection` arms a connect timeout;
- the reading timeout bounds the wait for a negotiate answer.

## Not modelled, yet

- **What the MTA hears when negotiation yields nothing.** The manager's
  leader, which turns the children's signals into replies to the MTA, is
  outside the sources. So the test server's view of F8 and F9 (it waits in
  Negotiate) is not checked as a property.
- **The composition of the two phases.** `MilterChildren` starts after
  negotiation has succeeded, with `noStep` drawn from the flags a backend may
  negotiate. `NegotiateChildren` abstracts the option to the set of backends
  merged. Joining them would make `MergedStep` the output of the fan-in.
- **Macro requests** (`milter_macros_requests`) carried with
  `negotiate-reply`.
- **A NegotiateChildren run without privilege and with synchronous connect
  failures.** `NegotiationNotAborted` fails there too, but only after negotiate
  has returned FALSE to a caller outside the sources (see the hazard at line
  1412).
- **A fair run with failures.** Expired children left in the queues (spec I1)
  can leave the MTA waiting.
- **QUARANTINE out of place in a passing run.** It fails `RepliesMatchState`
  (see the observation above). The failures run, which does not check that
  property, grows past a practical size with it.
- **Not modelled by choice:**
  - the `MilterManagerHeaders` accumulator;
  - I/O errors of the spool;
  - object construction and disposal;
  - the event loop, which is stateless;
  - the Ruby binding and the client-context header;
  - option parsing and printing in the test server, and its record of the
    modifications (`cb_add_header` to `cb_delete_recipient`), which it keeps
    only to print the resulting message.

The reasons are given per component in `PROJECT.json`.
