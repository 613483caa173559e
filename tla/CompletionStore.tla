--------------------------- MODULE CompletionStore ---------------------------
(***************************************************************************)
(* The completion store of the private gateway                             *)
(* (internal/store/sqlite/sqlite.go) and the task state machine it         *)
(* enforces (internal/completion/state.go).  Every action is one SQLite    *)
(* transaction; its guard is what makes the call succeed, and a call that  *)
(* fails changes nothing.  Next lets any client call any operation with    *)
(* any arguments, so what Spec guarantees holds whatever the gateway does. *)
(*                                                                         *)
(* A task's routing identity (workspace, tier, dialect, harness, root) is  *)
(* a function of the task, revisions only order transactions that SQLite   *)
(* already serialises, and payloads are left out: a digest stands for the  *)
(* canonical request and an event for its id, digest and encoded wire.     *)
(***************************************************************************)
EXTENDS Naturals, Sequences, FiniteSets

CONSTANTS
    Tasks, Keys, Digests, Workers,
    Events,      \* worker and gateway events, by id
    ToolCalls,   \* tool call ids
    Sessions, SessionOf,  \* the harness session of a task, None without one
    None

ASSUME StoreAssumption ==
    /\ SessionOf \in [Tasks -> Sessions \cup {None}]
    /\ None \notin Tasks \cup Digests \cup Workers \cup Events \cup Sessions

Terminal == {"completed", "canceled", "rejected", "expired", "failed"}
Fresh == {"admitted", "reconciled"}
States ==
    Terminal \cup Fresh \cup
    {"leased", "awaiting_human", "responded", "awaiting_caller", "tools_dispatched",
     "awaiting_results"}

(* transitions and CanTransition.                                          *)
Transitions ==
    {<<"admitted", "leased">>, <<"leased", "awaiting_human">>,
     <<"awaiting_human", "responded">>, <<"responded", "completed">>,
     <<"responded", "awaiting_caller">>, <<"responded", "tools_dispatched">>,
     <<"awaiting_caller", "reconciled">>, <<"tools_dispatched", "awaiting_results">>,
     <<"awaiting_results", "reconciled">>, <<"reconciled", "leased">>}

CanTransition(from, to) ==
    /\ from \in States \ Terminal
    /\ to \in Terminal \ {"completed"} \/ <<from, to>> \in Transitions

(* httpStatusOK; the failures a request may end with.                      *)
OK == 200
Failures == {409, 500, 503, 504}
Statuses == {0, OK} \cup Failures

VARIABLES
    task,      \* completion_tasks: state "absent" until the row exists
    request,   \* completion_requests: task None until the row exists
    log,       \* completion_response_events, by request
    receipts,  \* completion_worker_event_receipts, by request
    tools      \* completion_tool_executions, by task and call

store == <<task, request, log, receipts, tools>>

NoTask == [state |-> "absent", owner |-> None, retry |-> None]
NoRequest ==
    [task |-> None, digest |-> None, stream |-> FALSE, status |-> 0, complete |-> FALSE,
     quarantined |-> FALSE, pruned |-> FALSE]

StoreInit ==
    /\ task = [t \in Tasks |-> NoTask]
    /\ request = [k \in Keys |-> NoRequest]
    /\ log = [k \in Keys |-> <<>>]
    /\ receipts = [k \in Keys |-> {}]
    /\ tools = [t \in Tasks |-> [c \in ToolCalls |-> "none"]]

Kinds == {"stream", "wire", "step", "applied"}
Row(kind, e) == [kind |-> kind, event |-> e]

StoreTypeOK ==
    /\ task \in [Tasks -> [state: States \cup {"absent"}, owner: Workers \cup {None},
                           retry: Digests \cup {None}]]
    /\ request \in [Keys -> [task: Tasks \cup {None}, digest: Digests \cup {None},
                             stream: BOOLEAN, status: Statuses, complete: BOOLEAN,
                             quarantined: BOOLEAN, pruned: BOOLEAN]]
    /\ log \in [Keys -> Seq([kind: Kinds, event: Events \cup {None}])]
    /\ receipts \in [Keys -> SUBSET Events]
    /\ tools \in [Tasks -> [ToolCalls -> {"none", "pending", "completed"}]]

Exists(k) == request[k].task # None
Open(k) == Exists(k) /\ ~request[k].complete

(* hasActiveRequestTx, and the index completion_requests_one_active_task.  *)
Active(t) == \E k \in Keys : request[k].task = t /\ ~request[k].complete

(* ListWorkerEventStages: the event has a row of this kind.                *)
Has(k, kind, e) == \E i \in 1..Len(log[k]) : log[k][i] = Row(kind, e)

Pending(t) == {c \in ToolCalls : tools[t][c] = "pending"}

(* FindOpenHarnessTask, and the index completion_tasks_open_affinity.      *)
OpenInSession(s) ==
    {t \in Tasks : s # None /\ SessionOf[t] = s /\ task[t].state \in States \ Terminal}

(* transitionTaskTx: entering leased binds the owner or needs it.          *)
Moved(t, to, w) ==
    [task[t] EXCEPT !.state = to, !.owner = IF to = "leased" THEN w ELSE @, !.retry = None]

CanMove(t, to, w) ==
    /\ CanTransition(task[t].state, to)
    /\ to = "leased" => w # None /\ task[t].owner \in {None, w}

TransitionTask(t, from, to, w) ==
    /\ task[t].state = from
    /\ CanMove(t, to, w)
    /\ task' = [task EXCEPT ![t] = Moved(t, to, w)]
    /\ UNCHANGED <<request, log, receipts, tools>>

(* reconcileToolResultsTx: every pending call must have a result.          *)
Reconciles(t, results) == Pending(t) # {} /\ Pending(t) \subseteq results
\* mutant: a task is continued while a request is at work on it
ContinuesBusy(t, d, results) ==
    \/ task[t].state = "awaiting_caller"
    \/ task[t].state = "awaiting_results" /\ Reconciles(t, results)
    \/ task[t].state \in Fresh /\ task[t].retry = d

(* BeginRequest on an existing task: awaiting its caller or its tool       *)
(* results, or holding the grant of an exact retry.                        *)
Continues(t, d, results) ==
    /\ ~Active(t)
    /\ \/ task[t].state = "awaiting_caller"
       \/ task[t].state = "awaiting_results" /\ Reconciles(t, results)
       \/ task[t].state \in Fresh /\ task[t].retry = d
(* BeginRequest on a new task.                                             *)
Creates(t) == task[t].state = "absent" /\ OpenInSession(SessionOf[t]) = {}

CanBegin(k, t, d, results) ==
    ~Exists(k) /\ (Creates(t) \/ Continues(t, d, results))
BeginRequest(k, t, d, stream, w, results) ==
    /\ CanBegin(k, t, d, results)
    /\ task' = [task EXCEPT ![t] =
          IF @.state = "absent" THEN [state |-> "admitted", owner |-> w, retry |-> None]
          ELSE IF @.state \in Fresh THEN [@ EXCEPT !.retry = None]
          ELSE Moved(t, "reconciled", None)]
    /\ tools' = IF task[t].state = "awaiting_results"
                THEN [tools EXCEPT ![t] = [c \in ToolCalls |->
                          IF @[c] = "pending" THEN "completed" ELSE @[c]]]
                ELSE tools
    /\ request' = [request EXCEPT ![k] =
          [NoRequest EXCEPT !.task = t, !.digest = d, !.stream = stream]]
    /\ UNCHANGED <<log, receipts>>

(* clearRetryRequestDigestTx of the task that owns the request.            *)
ClearRetry(k) == [task EXCEPT ![request[k].task].retry = None]

(* BeginResponse: commits 200 before a worker can see the assignment.      *)
CanBeginResponse(k) ==
    /\ Exists(k)
    /\ request[k].status \in {0, OK}
    /\ request[k].status = 0 => ~request[k].complete

BeginResponse(k) ==
    /\ CanBeginResponse(k)
    /\ request' = [request EXCEPT ![k].status = OK]
    /\ task' = ClearRetry(k)
    /\ UNCHANGED <<log, receipts, tools>>

(* CompleteRequest: closes a stream; a second call is a success.           *)
CompleteRequest(k) ==
    /\ Exists(k)
    /\ request[k].complete \/ request[k].status = OK
    /\ request' = [request EXCEPT ![k].complete = TRUE]
    /\ UNCHANGED <<task, log, receipts, tools>>

(* CompleteNonStreamingResponse: status and body in one transaction.       *)
CompleteNonStreaming(k, status) ==
    /\ Exists(k) /\ ~request[k].stream
    /\ \/ request[k].status = 0 /\ ~request[k].complete
       \/ request[k].status = status /\ request[k].complete
    /\ request' = [request EXCEPT ![k].status = status, ![k].complete = TRUE]
    /\ task' = ClearRetry(k)
    /\ UNCHANGED <<log, receipts, tools>>
(* FailRequest: ends a request before its response started and grants the  *)
(* exact same request one more admission under a new key.                  *)
FailRequest(k, expected) ==
    /\ Exists(k) /\ request[k].status = 0 /\ ~request[k].complete
    /\ expected \in Fresh
    /\ task[request[k].task].state = expected
    /\ request' = [request EXCEPT ![k].status = 500, ![k].complete = TRUE]
    /\ task' = [task EXCEPT ![request[k].task].retry = request[k].digest]
    /\ UNCHANGED <<log, receipts, tools>>

(* AppendResponseEvent: stream metadata and wire frames.                   *)
AppendResponseEvent(k, kind) ==
    /\ Open(k)
    /\ log' = [log EXCEPT ![k] = Append(@, Row(kind, None))]
    /\ UNCHANGED <<task, request, receipts, tools>>

(* AppendWorkerResponseEvent: one row per event and kind; the retry of a   *)
(* row that exists succeeds even when the response is complete.            *)
AppendWorkerResponseEvent(k, kind, e) ==
    /\ Exists(k)
    /\ Has(k, kind, e) \/ Open(k)
    /\ log' = IF Has(k, kind, e) THEN log
              ELSE [log EXCEPT ![k] = Append(@, Row(kind, e))]
    /\ UNCHANGED <<task, request, receipts, tools>>

RecordWorkerEventReceipt(k, e) ==
    /\ Exists(k)
    /\ receipts' = [receipts EXCEPT ![k] = @ \cup {e}]
    /\ UNCHANGED <<task, request, log, tools>>

(* BeginToolExecution: the retry of a call that exists keeps its status.   *)
BeginToolExecution(t, c) ==
    /\ task[t].state # "absent"
    /\ tools' = [tools EXCEPT ![t][c] = IF @ = "none" THEN "pending" ELSE @]
    /\ UNCHANGED <<task, request, log, receipts>>

(* A durable step whose receipt is missing keeps a request recoverable.    *)
Unacknowledged(k) ==
    \E i \in 1..Len(log[k]) : log[k][i].kind = "step" /\ log[k][i].event \notin receipts[k]

(* ListRecoverableRequests.                                                *)
Recoverable(k) ==
    /\ Exists(k) /\ ~request[k].quarantined
    /\ \/ Unacknowledged(k)
       \/ /\ ~request[k].complete
          /\ \/ task[request[k].task].state \notin Terminal
             \/ \E i \in 1..Len(log[k]) : log[k][i].kind = "step"
\* mutant: a stream that has begun is answered again
QuarantineWith500(k) ==
    LET t == request[k].task IN
    /\ Exists(k) /\ ~request[k].quarantined
    /\ request' = [request EXCEPT ![k].quarantined = TRUE, ![k].complete = TRUE,
                      ![k].status = 500]
    /\ task' = [task EXCEPT ![t] =
          IF @.state \notin Terminal
          THEN [state |-> "failed", owner |-> None, retry |-> None] ELSE @]
    /\ UNCHANGED <<log, receipts, tools>>

(* QuarantineRecoveryRequest: a finite answer for a request that can no    *)
(* longer be read, and a task that can be retried or has failed.           *)
QuarantineRecoveryRequest(k) ==
    LET r == request[k]
        t == r.task
        streaming == r.status = OK /\ ~r.complete
        decided == r.complete /\ r.status # 0 IN
    /\ Exists(k) /\ ~r.quarantined
    /\ log' = IF streaming THEN [log EXCEPT ![k] = Append(@, Row("wire", None))] ELSE log
    /\ request' = [request EXCEPT ![k].quarantined = TRUE, ![k].complete = TRUE,
                      ![k].status = IF streaming \/ decided THEN @ ELSE 500]
    /\ task' = [task EXCEPT ![t] =
          IF r.status = 0 /\ @.state \in Fresh THEN [@ EXCEPT !.retry = r.digest]
          ELSE IF @.state \notin Terminal
          THEN [state |-> "failed", owner |-> None, retry |-> None]
          ELSE @]
    /\ UNCHANGED <<receipts, tools>>

(* PurgeExpiredCompletionPayloads of the requests whose grace is over.     *)
Purgeable(k) ==
    Exists(k) /\ request[k].complete /\ ~request[k].pruned /\ ~Unacknowledged(k)

Purge(ks) ==
    /\ ks # {} /\ \A k \in ks : Purgeable(k)
    /\ request' = [k \in Keys |-> IF k \in ks THEN [request[k] EXCEPT !.pruned = TRUE]
                                  ELSE request[k]]
    /\ log' = [k \in Keys |-> IF k \in ks THEN <<>> ELSE log[k]]
    /\ UNCHANGED <<task, receipts, tools>>

StoreNext ==
    \/ \E k \in Keys, t \in Tasks, d \in Digests, stream \in BOOLEAN, w \in Workers,
          results \in SUBSET ToolCalls : BeginRequest(k, t, d, stream, w, results)
    \/ \E t \in Tasks, to \in States, w \in Workers \cup {None} :
          TransitionTask(t, task[t].state, to, w)
    \/ \E k \in Keys :
          \/ BeginResponse(k) \/ CompleteRequest(k) \/ QuarantineRecoveryRequest(k)
          \/ \E s \in {OK} \cup Failures : CompleteNonStreaming(k, s)
          \/ \E expected \in Fresh : FailRequest(k, expected)
          \/ \E kind \in {"stream", "wire"} : AppendResponseEvent(k, kind)
          \/ \E e \in Events :
                \/ \E kind \in {"step", "applied"} : AppendWorkerResponseEvent(k, kind, e)
                \/ RecordWorkerEventReceipt(k, e)
    \/ \E t \in Tasks, c \in ToolCalls : BeginToolExecution(t, c)
    \/ \E ks \in SUBSET Keys : Purge(ks)

StoreSpec == StoreInit /\ [][StoreNext]_store

-----------------------------------------------------------------------------

(* However requests race, a task has at most one request whose response is *)
(* open, so two completions never drive one task (BeginRequest checks for  *)
(* an active request before each way of continuing a task).                *)
OneActiveRequestPerTask ==
    \A j, k \in Keys :
        Open(j) /\ Open(k) /\ request[j].task = request[k].task => j = k

(* A harness session has at most one task that is not finished, although   *)
(* resumeOpenCodeTask looks for it before, and outside of, the insert.     *)
OneOpenTaskPerSession ==
    \A t, u \in Tasks :
        /\ SessionOf[t] # None /\ SessionOf[t] = SessionOf[u]
        /\ task[t].state \in States \ Terminal
        /\ task[u].state \in States \ Terminal
        => t = u

(* The retry grant of FailRequest exists only while nothing of that task   *)
(* is running and its turn has not started, so it can never admit a        *)
(* request next to another one or restart a turn that moved on.            *)
GrantIsIdle ==
    \A t \in Tasks : task[t].retry # None => ~Active(t) /\ task[t].state \in Fresh

(* An answer a caller may have read never changes: the HTTP status of a    *)
(* request is chosen once, a complete request stays complete, and apart    *)
(* from the purge nothing touches the log of a complete request.           *)
DecisionImmutable ==
    [][\A k \in Keys :
        /\ request[k].status # 0 => request'[k].status = request[k].status
        /\ request[k].complete =>
              /\ request'[k].complete
              /\ log'[k] = log[k] \/ request'[k].pruned]_store
=============================================================================
