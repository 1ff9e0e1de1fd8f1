------------------------- MODULE NegotiateChildren -------------------------
(***************************************************************************)
(* Negotiation, connection establishment and retry in                      *)
(* milter-manager-children.c: milter_manager_children_negotiate, the       *)
(* NegotiateData attempts kept in try_negotiate_ids, the handlers they      *)
(* connect to a backend (cb_ready, cb_connection_error,                    *)
(* cb_connection_timeout), the retry timer, and the fan-in of the          *)
(* backends' negotiate replies (cb_negotiate_reply,                       *)
(* remove_queue_in_negotiate).  The MTA side is milter-test-server: its    *)
(* cb_ready sends OPTNEG, and its cb_negotiate_reply reads the             *)
(* negotiate-reply signals the children emit, as the manager forwards      *)
(* them, and aborts the session on a second one.                           *)
(*                                                                         *)
(* A MilterServerContext (not in this repository's sources) is modelled    *)
(* from the spec: establish_connection succeeds or fails at once; a        *)
(* connecting backend then signals ready, error or connection-timeout; a   *)
(* backend sent negotiate answers each negotiate it got, or fails.  A      *)
(* signal runs every handler connected when it is emitted, one after       *)
(* another, as GLib does.                                                  *)
(***************************************************************************)
EXTENDS Naturals, Sequences, SequencesExt, FiniteSets

CONSTANTS
    ChildOrder,         \* priv->milters, in configuration order
    Privilege,          \* configuration: privilege mode
    SyncFailures,       \* establish_connection may fail at once
    StartFailures,      \* milter_manager_child_start may fail
    PostReadyFailures   \* a backend may fail after it was sent negotiate

Children == ToSet(ChildOrder)

VARIABLES
    replyQueue,         \* priv->reply_queue while negotiating
    merged,             \* backends merged into priv->option (NULL iff {})
    tryNegotiateIds,    \* priv->try_negotiate_ids: the NegotiateData
    conn,               \* each server context's connection
    outstanding,        \* negotiate requests a backend has not answered
    wired,              \* times setup_server_context_signals ran for it
    expired,            \* backends expire_child moved to quitted_milters
    replies,            \* negotiate-reply signals, with the option sent
    errors,             \* error signals the children emitted
    finished,           \* finished signals the children emitted
    started,            \* milter_manager_children_negotiate was called
    success,            \* and what it returned
    mta                 \* milter-test-server: its server context's state,
                        \* whether data->option is set, replies it has read

vars == <<replyQueue, merged, tryNegotiateIds, conn, outstanding, wired,
          expired, replies, errors, finished, started, success, mta>>

Cur == [replyQueue |-> replyQueue, merged |-> merged,
        tryNegotiateIds |-> tryNegotiateIds, conn |-> conn,
        outstanding |-> outstanding, wired |-> wired, expired |-> expired,
        replies |-> replies, errors |-> errors, finished |-> finished,
        started |-> started, success |-> success]

Assign(w) ==
    /\ replyQueue' = w.replyQueue /\ merged' = w.merged
    /\ tryNegotiateIds' = w.tryNegotiateIds /\ conn' = w.conn
    /\ outstanding' = w.outstanding /\ wired' = w.wired
    /\ expired' = w.expired /\ replies' = w.replies /\ errors' = w.errors
    /\ finished' = w.finished /\ started' = w.started
    /\ success' = w.success

ConnStates == {"idle", "connecting", "negotiating", "negotiated", "closed"}

\* Outcomes of the environment's calls.
EstablishOutcomes == IF SyncFailures THEN BOOLEAN ELSE {TRUE}
StartOutcomes == IF StartFailures THEN BOOLEAN ELSE {TRUE}

\* A NegotiateData: its child, is_retry, and whether a retry timer is
\* pending for it (prepare_retry_establish_connection) or it waits for the
\* connection (prepare_negotiate).  Equal records are interchangeable.
NegotiateData(c, isRetry, timer) ==
    [child |-> c, isRetry |-> isRetry, timer |-> timer]

\* negotiate_data_new + g_timeout_add + g_hash_table_insert.
PrepareRetryEstablishConnection(w, c, isRetry) ==
    [w EXCEPT !.tryNegotiateIds = Append(@, NegotiateData(c, isRetry, TRUE))]

\* negotiate_data_new + g_hash_table_insert without a timer.
PrepareNegotiate(w, c, isRetry) ==
    [w EXCEPT !.tryNegotiateIds = Append(@, NegotiateData(c, isRetry, FALSE))]

\* g_hash_table_remove: frees the data, disconnecting its handlers and
\* removing its timer.
RemoveData(w, d) == [w EXCEPT !.tryNegotiateIds = RemoveFirst(@, d)]

\* milter_manager_children_start_child: a failure is emitted as an error.
StartChild(w, ok) == IF ok THEN w ELSE [w EXCEPT !.errors = @ + 1]

\* child_establish_connection; ok is establish_connection's result.
ChildEstablishConnection(w, c, isRetry, ok) ==
    IF ok
    THEN PrepareNegotiate([w EXCEPT !.conn[c] = "connecting"], c, isRetry)
    ELSE LET failed == [w EXCEPT !.errors = @ + 1]
         IN  IF isRetry THEN failed
             ELSE PrepareRetryEstablishConnection(failed, c, TRUE)

\* Mutation of RemoveQueueInNegotiate: the queue is not checked for
\* emptiness.
RemoveQueueInNegotiateIgnoringQueue(w, c) ==
    LET removed == [w EXCEPT !.replyQueue = @ \ {c}]
    IN  IF removed.merged # {}
        THEN [removed EXCEPT !.replies = Append(@, removed.merged)]
        ELSE removed

\* remove_queue_in_negotiate: the last removal emits negotiate-reply if an
\* option was merged.
RemoveQueueInNegotiate(w, c) ==
    LET removed == [w EXCEPT !.replyQueue = @ \ {c}]
    IN  IF removed.replyQueue = {} /\ removed.merged # {}
        THEN [removed EXCEPT !.replies = Append(@, removed.merged)]
        ELSE removed

ClearTryNegotiateData(w, d) == RemoveData(RemoveQueueInNegotiate(w, d.child), d)

\* Mutation of RetryEstablishConnection: the timer callback keeps its data
\* (and its timer), as if it returned TRUE.
RetryEstablishConnectionRepeating(w, d, ok) ==
    ChildEstablishConnection(w, d.child, TRUE, ok)

\* retry_establish_connection: the retry timer fired.
RetryEstablishConnection(w, d, ok) ==
    RemoveData(ChildEstablishConnection(w, d.child, TRUE, ok), d)

\* milter_manager_children_negotiate.
NegotiateStep(w, c, ok, startOk) ==
    LET tried == ChildEstablishConnection(w, c, FALSE, ok)
    IN  CASE ok -> [tried EXCEPT !.replyQueue = @ \cup {c}]
          [] Privilege /\ startOk ->
                [PrepareRetryEstablishConnection(tried, c, FALSE)
                    EXCEPT !.replyQueue = @ \cup {c}]
          [] Privilege -> [StartChild(tried, FALSE) EXCEPT !.success = FALSE]
          [] OTHER -> [tried EXCEPT !.success = FALSE]

MilterManagerChildrenNegotiate(w, ok, startOk) ==
    FoldLeft(LAMBDA acc, c : NegotiateStep(acc, c, ok[c], startOk[c]),
             [w EXCEPT !.replyQueue = {}, !.started = TRUE, !.success = TRUE],
             ChildOrder)

-----------------------------------------------------------------------------
(* Handlers connected by a NegotiateData. *)

\* cb_ready: wire the children's callbacks, send negotiate, drop the data.
OnReady(w, d) ==
    LET c == d.child
    IN  RemoveData([w EXCEPT !.wired[c] = @ + 1,
                             !.outstanding[c] = @ + 1,
                             !.conn[c] = "negotiating"], d)

\* Mutation of OnConnectionTimeout: the data is dropped but the backend
\* stays in the reply queue.
OnConnectionTimeoutKeepingQueue(w, d) == RemoveData(w, d)

\* cb_connection_timeout.
OnConnectionTimeout(w, d) == ClearTryNegotiateData(w, d)

\* Mutation of OnConnectionError: the failed attempt's data stays
\* connected after the retry is scheduled.
OnConnectionErrorKeepingData(w, d, serverDomain, startOk) ==
    CASE ~serverDomain \/ d.isRetry ->
            ClearTryNegotiateData([w EXCEPT !.errors = @ + 1], d)
      [] ~startOk -> ClearTryNegotiateData(StartChild(w, FALSE), d)
      [] OTHER -> PrepareRetryEstablishConnection(w, d.child, TRUE)

\* cb_connection_error: a first failure of the server context's own kind
\* starts the backend and schedules a retry; anything else is fatal.
OnConnectionError(w, d, serverDomain, startOk) ==
    CASE ~serverDomain \/ d.isRetry ->
            ClearTryNegotiateData([w EXCEPT !.errors = @ + 1], d)
      [] ~startOk -> ClearTryNegotiateData(StartChild(w, FALSE), d)
      [] OTHER -> RemoveData(PrepareRetryEstablishConnection(w, d.child, TRUE), d)

(* Handlers connected by setup_server_context_signals. *)

\* cb_negotiate_reply: merge the option (milter_option_merge) and leave the
\* queue.
OnNegotiateReply(w, c) ==
    RemoveQueueInNegotiate([w EXCEPT !.merged = @ \cup {c}], c)

\* teardown_server_context_signals: g_signal_handlers_disconnect_by_func
\* disconnects every copy of each of the children's handlers at once.
TeardownServerContextSignals(w, c) == [w EXCEPT !.wired[c] = 0]

\* expire_child: tear the handlers down and move the backend to
\* quitted_milters.
ExpireChild(w, c) ==
    [TeardownServerContextSignals(w, c) EXCEPT !.expired = @ \cup {c}]

\* remove_child_from_queue with current_state Negotiate: the status of the
\* state is NotChange and reply_code is 0, so nothing is emitted.
RemoveChildFromQueue(w, c) == [w EXCEPT !.replyQueue = @ \ {c}]

\* Mutation of OnReadingTimeout: the backend is expired but left in the
\* reply queue.
OnReadingTimeoutExpireOnly(w, c) == ExpireChild(w, c)

\* cb_error, cb_reading_timeout and cb_finished (default branch).
OnError(w, c) ==
    RemoveChildFromQueue(ExpireChild([w EXCEPT !.errors = @ + 1], c), c)
OnReadingTimeout(w, c) == RemoveChildFromQueue(ExpireChild(w, c), c)
OnFinished(w, c) ==
    LET removed == RemoveChildFromQueue(ExpireChild(w, c), c)
    IN  IF removed.replyQueue = {}
        THEN [removed EXCEPT !.finished = @ + 1] ELSE removed

-----------------------------------------------------------------------------
(* Signal emission: every handler connected at emission time runs once.    *)
(* The copies of the children's handlers are all torn down by the first   *)
(* expire_child, so cb_error and the timeouts run at most once.           *)

DataOf(w, c) == SelectSeq(w.tryNegotiateIds, LAMBDA d : d.child = c)

\* The handlers the children connected to a backend run only while they
\* are wired (setup_server_context_signals to teardown): handled is the
\* state after the handler ran.
EmitToWired(w, c, handled) == IF w.wired[c] > 0 THEN handled ELSE w

\* negotiate-reply is not torn down: every copy of cb_negotiate_reply runs.
EmitNegotiateReply(w, c) ==
    FoldLeft(LAMBDA acc, i : OnNegotiateReply(acc, c), w,
             [i \in 1..w.wired[c] |-> i])

-----------------------------------------------------------------------------
(* milter-test-server, the MTA side. *)

MtaStates == {"Connecting", "Negotiate", "Connect", "Aborted", "Failed"}

\* send_abort: milter_server_context_abort, then send_quit
\* (milter_server_context_quit and milter_agent_shutdown).
SendAbort(m) == [m EXCEPT !.state = "Aborted"]

\* cb_ready: setup connects the reply handlers, the timer starts, and
\* negotiate sends OPTNEG.
TestServerOnReady(m) == [m EXCEPT !.state = "Negotiate"]

\* cb_negotiate_reply: a second reply is an error ("duplicated negotiate")
\* and aborts; the first is kept as data->option, and cb_continue in state
\* Negotiate sends the first command of the session (CONNECT, or a later
\* one the option's step flags do not skip, modelled in MilterChildren).
TestServerOnNegotiateReply(m) ==
    IF m.option THEN SendAbort(m)
    ELSE [m EXCEPT !.option = TRUE, !.state = "Connect"]

\* cb_connection_error (connected by setup_context) sets success to FALSE
\* and quits the main loop; once ready, cb_error (connected by setup) also
\* runs and sends abort on the broken connection.
TestServerOnConnectionError(m) == [m EXCEPT !.state = "Failed"]

-----------------------------------------------------------------------------
Init ==
    /\ replyQueue = {}
    /\ merged = {}
    /\ tryNegotiateIds = <<>>
    /\ conn = [c \in Children |-> "idle"]
    /\ outstanding = [c \in Children |-> 0]
    /\ wired = [c \in Children |-> 0]
    /\ expired = {}
    /\ replies = <<>>
    /\ errors = 0
    /\ finished = 0
    /\ started = FALSE
    /\ success = FALSE
    /\ mta = [state |-> "Connecting", option |-> FALSE, read |-> 0]

\* The test server's connection to the manager is ready.
TestServerReady ==
    /\ mta.state = "Connecting"
    /\ mta' = TestServerOnReady(mta)
    /\ UNCHANGED <<replyQueue, merged, tryNegotiateIds, conn, outstanding,
                   wired, expired, replies, errors, finished, started, success>>

\* The test server's connection to the manager fails.
TestServerConnectionError ==
    /\ mta.state \in {"Connecting", "Negotiate", "Connect"}
    /\ mta' = TestServerOnConnectionError(mta)
    /\ UNCHANGED <<replyQueue, merged, tryNegotiateIds, conn, outstanding,
                   wired, expired, replies, errors, finished, started, success>>

\* The test server reads the next negotiate reply the manager forwarded;
\* after send_quit its agent is shut down and reads nothing more.
TestServerNegotiateReply ==
    /\ mta.state \in {"Negotiate", "Connect"}
    /\ mta.read < Len(replies)
    /\ mta' = [TestServerOnNegotiateReply(mta) EXCEPT !.read = @ + 1]
    /\ UNCHANGED <<replyQueue, merged, tryNegotiateIds, conn, outstanding,
                   wired, expired, replies, errors, finished, started, success>>

\* The MTA's OPTNEG reaches the children.
Negotiate ==
    /\ ~started
    /\ mta.state = "Negotiate"
    /\ \E ok \in [Children -> EstablishOutcomes],
          startOk \in [Children -> StartOutcomes] :
          Assign(MilterManagerChildrenNegotiate(Cur, ok, startOk))
    /\ UNCHANGED mta

\* A retry timer fires.
RetryFires(i) ==
    /\ i \in DOMAIN tryNegotiateIds
    /\ tryNegotiateIds[i].timer
    /\ \E ok \in EstablishOutcomes :
          Assign(RetryEstablishConnection(Cur, tryNegotiateIds[i], ok))
    /\ UNCHANGED mta

\* A connecting backend's connection is ready.
Ready(c) ==
    /\ conn[c] = "connecting"
    /\ Assign(FoldLeft(OnReady, Cur, DataOf(Cur, c)))
    /\ UNCHANGED mta

\* A connecting backend signals error (connection refused, or an error of
\* another domain such as the backend process exiting).
ConnectionError(c) ==
    /\ conn[c] = "connecting"
    /\ \E serverDomain \in BOOLEAN, startOk \in StartOutcomes :
          LET closed == [Cur EXCEPT !.conn[c] = "closed"]
              handled == FoldLeft(LAMBDA acc, d :
                                    OnConnectionError(acc, d, serverDomain, startOk),
                                  closed, DataOf(closed, c))
          IN  Assign(EmitToWired(handled, c, OnError(handled, c)))
    /\ UNCHANGED mta

\* The connect timeout of a connecting backend expires.
ConnectionTimeout(c) ==
    /\ conn[c] = "connecting"
    /\ LET closed == [Cur EXCEPT !.conn[c] = "closed"]
       IN  Assign(FoldLeft(OnConnectionTimeout, closed, DataOf(closed, c)))
    /\ UNCHANGED mta

\* A backend answers one negotiate it was sent.
NegotiateReply(c) ==
    /\ conn[c] = "negotiating"
    /\ outstanding[c] > 0
    /\ LET answered == [Cur EXCEPT !.outstanding[c] = @ - 1,
                                   !.conn[c] = IF outstanding[c] = 1 THEN "negotiated"
                                               ELSE "negotiating"]
       IN  Assign(EmitNegotiateReply(answered, c))
    /\ UNCHANGED mta

\* A backend sent negotiate fails before answering: a transport error, the
\* reading timeout, or the connection closing (finished).
NegotiateFailure(c) ==
    /\ PostReadyFailures
    /\ conn[c] = "negotiating"
    /\ outstanding[c] > 0
    /\ LET closed == [Cur EXCEPT !.conn[c] = "closed", !.outstanding[c] = 0]
       IN  \/ Assign(EmitToWired(closed, c, OnError(closed, c)))
           \/ Assign(EmitToWired(closed, c, OnReadingTimeout(closed, c)))
           \/ Assign(EmitToWired(closed, c, OnFinished(closed, c)))
    /\ UNCHANGED mta

\* Nothing is left to happen: the test server failed before OPTNEG, or
\* every attempt is settled and the test server has read every reply (or
\* stopped reading).
Quiescent ==
    /\ started \/ mta.state = "Failed"
    /\ tryNegotiateIds = <<>>
    /\ \A c \in Children : conn[c] # "connecting" /\ outstanding[c] = 0
    /\ mta.read = Len(replies) \/ mta.state \in {"Aborted", "Failed"}

Terminated == Quiescent /\ UNCHANGED vars

Next ==
    \/ TestServerReady
    \/ TestServerConnectionError
    \/ TestServerNegotiateReply
    \/ Negotiate
    \/ \E i \in DOMAIN tryNegotiateIds : RetryFires(i)
    \/ \E c \in Children :
          \/ Ready(c) \/ ConnectionError(c) \/ ConnectionTimeout(c)
          \/ NegotiateReply(c) \/ NegotiateFailure(c)
    \/ Terminated

Spec == Init /\ [][Next]_vars

\* The test server's connection becomes ready and it reads what arrives;
\* the MTA's OPTNEG is handled; a pending retry timer fires; a connecting
\* backend is settled by ready, error or the connect timeout; a backend
\* that was sent negotiate answers or is timed out by the reading timeout.
Fairness ==
    /\ WF_vars(TestServerReady)
    /\ WF_vars(TestServerNegotiateReply)
    /\ WF_vars(Negotiate)
    /\ WF_vars(\E i \in DOMAIN tryNegotiateIds : RetryFires(i))
    /\ \A c \in Children :
          /\ WF_vars(Ready(c) \/ ConnectionError(c) \/ ConnectionTimeout(c))
          /\ WF_vars(NegotiateReply(c) \/ NegotiateFailure(c))

FairSpec == Spec /\ Fairness

-----------------------------------------------------------------------------
TypeOK ==
    /\ replyQueue \subseteq Children /\ merged \subseteq Children
    /\ tryNegotiateIds \in Seq([child : Children, isRetry : BOOLEAN,
                                timer : BOOLEAN])
    /\ conn \in [Children -> ConnStates]
    /\ outstanding \in [Children -> Nat] /\ wired \in [Children -> Nat]
    /\ expired \subseteq Children
    /\ replies \in Seq(SUBSET Children)
    /\ errors \in Nat /\ finished \in Nat
    /\ started \in BOOLEAN /\ success \in BOOLEAN
    /\ mta \in [state : MtaStates, option : BOOLEAN, read : Nat]

\* The test server never aborts the session over negotiation: the children
\* emit negotiate-reply once per call of milter_manager_children_negotiate,
\* so milter-test-server's cb_negotiate_reply never reads a "duplicated
\* negotiate", whatever the retries, ready signals and replies of the
\* backends, and however late the test server reads.
NegotiationNotAborted == mta.state # "Aborted"

\* Each backend's reply callbacks are connected at most once: a second
\* setup_server_context_signals (a second cb_ready) makes every later reply
\* of that backend be compiled and forwarded twice.
WiredOnce == \A c \in Children : wired[c] <= 1

\* The fan-in the spec promises (section 4.6): with the negotiate reply
\* queue as the pending set, the code's steps are steps of
\* NegotiationFanIn, so the merged option is emitted exactly when the
\* last enrolled backend has answered or been dropped.
FanIn == INSTANCE NegotiationFanIn WITH pending <- replyQueue

FanInSpec == FanIn!Spec

\* Once negotiate has been called the reply queue empties: every enrolled
\* backend's connect, retry and negotiate attempts come to an end
\* (retry timers, connect timeouts and reading timeouts bound them).
NegotiationSettles == started ~> (replyQueue = {})

=============================================================================
