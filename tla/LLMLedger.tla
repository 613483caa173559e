------------------------------ MODULE LLMLedger ------------------------------
(***************************************************************************)
(* What a HumanLLM Store promises: each operation of llm.Service seen as   *)
(* one indivisible change of the durable records.  The service itself      *)
(* reads in one transaction, computes outside any, and writes in another   *)
(* (LLMService); that its handlers nevertheless have exactly these effects *)
(* is the refinement LLMService => LLMLedger.                              *)
(*                                                                         *)
(* A request key names the request, its RequestID and the lease allocated  *)
(* for it: the service allocates all three together and never again for    *)
(* that key.                                                               *)
(***************************************************************************)
EXTENDS LLMEvents, Sequences, FiniteSets, Functions

CONSTANTS
    Tasks,      \* StoreTaskKey
    Requests,   \* StoreRequestKey
    Workers,    \* WorkerID
    EventIDs,   \* worker event ids
    ToolCalls,  \* ToolCallID
    None        \* no value

ASSUME NoneAssumption ==
    None \notin Tasks \cup Requests \cup Workers \cup EventIDs \cup ToolCalls

VARIABLES
    task,      \* StoreTaskRecord of every task
    request,   \* StoreRequestRecord of every request, with its response events
    receipt,   \* StoreWorkerReceiptRecords of every request
    tool       \* StoreToolExecutionRecord of every task's tool calls

vars == <<task, request, receipt, tool>>

(* A worker event as its receipt and its checkpoint record it: id, author  *)
(* and digest (the content, here its kind and the tool calls it carries).  *)
Events ==
    {event \in [id: EventIDs, worker: Workers, kind: Kinds, calls: SUBSET ToolCalls] :
       event.calls # {} <=> event.kind = "tool_calls"}

NoTask == [state |-> "absent", owner |-> None, lease |-> None, chat |-> FALSE]

TaskRecords ==
    [state: TaskStates \cup {"absent"}, owner: Workers \cup {None},
     lease: Requests \cup {None}, chat: BOOLEAN]

NoRequest ==
    [state |-> "absent", task |-> None, mode |-> "stream", decision |-> 0,
     quarantined |-> FALSE, pruned |-> FALSE, log |-> <<>>]

RequestRecords ==
    [state: {"absent", "open", "closed"}, task: Tasks \cup {None}, mode: Modes,
     decision: Statuses, quarantined: BOOLEAN, pruned: BOOLEAN, log: Seq(Events)]

Init ==
    /\ task = [t \in Tasks |-> NoTask]
    /\ request = [r \in Requests |-> NoRequest]
    /\ receipt = [r \in Requests |-> {}]
    /\ tool = [t \in Tasks |-> [c \in ToolCalls |-> "absent"]]

(* A stream commits its status when it is admitted, an aggregate response  *)
(* when it ends.                                                           *)
AdmittedRequest(t, mode) ==
    [state |-> "open", task |-> t, mode |-> mode, decision |-> IF mode = "stream" THEN 200 ELSE 0,
     quarantined |-> FALSE, pruned |-> FALSE, log |-> <<>>]

(* A first request opens a task and leases it to a worker.                 *)
AdmitNew(r, t, w, chat, mode) ==
    /\ request[r].state = "absent"
    /\ task[t].state = "absent"
    /\ task' = [task EXCEPT ![t] = [state |-> "leased", owner |-> w, lease |-> r, chat |-> chat]]
    /\ request' = [request EXCEPT ![r] = AdmittedRequest(t, mode)]
    /\ UNCHANGED <<receipt, tool>>

(* A task leased again, to the worker it has.                              *)
Leased(rec, r) == [rec EXCEPT !.state = "leased", !.lease = r]

(* A task continues only while it waits for its caller.                    *)
Continues(t) == task[t].state \in IdleStates

(* A continuation carries the results of all the calls its task waits for. *)
SettleResults(t) ==
    [c \in ToolCalls |-> IF tool[t][c] = "pending" THEN "completed" ELSE tool[t][c]]

(* A further request continues a task that waits for its caller.           *)
AdmitContinuation(r, t, mode) ==
    /\ request[r].state = "absent"
    /\ Continues(t)
    /\ task' = [task EXCEPT ![t] = Leased(@, r)]
    /\ request' = [request EXCEPT ![r] = AdmittedRequest(t, mode)]
    /\ tool' = [tool EXCEPT ![t] = SettleResults(t)]
    /\ UNCHANGED receipt

Superseded(rec) == [rec EXCEPT !.state = "closed"]

(* A resuming request takes over the task of an unanswered one, which is   *)
(* closed without an answer.                                               *)
AdmitPreempting(r, t, mode) ==
    /\ request[r].state = "absent"
    /\ task[t].state \in ActiveStates
    /\ task' = [task EXCEPT ![t] = Leased(@, r)]
    /\ request' = [request EXCEPT ![task[t].lease] = Superseded(@),
                                  ![r] = AdmittedRequest(t, mode)]
    /\ UNCHANGED <<receipt, tool>>

InState(rec, state) == [rec EXCEPT !.state = state]

(* The worker has the assignment in its own durable journal.               *)
AckAssignment(t) ==
    /\ task[t].state = "leased"
    /\ task' = [task EXCEPT ![t] = InState(@, "awaiting_human")]
    /\ UNCHANGED <<request, receipt, tool>>

(* commitWorkerEvent's conditions: the request is unanswered and holds its *)
(* task's lease, the event comes from the worker it was leased to, in a    *)
(* state that admits it, with an id and tool calls not seen before.        *)
AcceptsUnseen(r, event) ==
    LET t == request[r].task
    IN  /\ request[r].state = "open"
        /\ task[t].lease = r
        /\ task[t].owner = event.worker
        /\ EventAllowed(event.kind, task[t].state)
        /\ \A c \in event.calls : tool[t][c] = "absent"

Accepts(r, event) ==
    /\ AcceptsUnseen(r, event)
    /\ \A known \in receipt[r] : known.id # event.id

(* The request with the event appended; an ending event closes it.         *)
Answered(rec, event) ==
    [rec EXCEPT !.log = Append(@, event),
                !.state = IF EndsResponse(event.kind) THEN "closed" ELSE @,
                !.decision = IF EndsResponse(event.kind) /\ rec.mode = "aggregate"
                             THEN AggregateTerminalStatus(event.kind) ELSE @]

(* A worker event extends the response, together with its receipt.         *)
CommitEvent(r, event) ==
    LET t == request[r].task
    IN  /\ Accepts(r, event)
        /\ task' = [task EXCEPT ![t] = InState(@, EventState(event.kind, task[t].state, task[t].chat))]
        /\ request' = [request EXCEPT ![r] = Answered(@, event)]
        /\ receipt' = [receipt EXCEPT ![r] = @ \cup {event}]
        /\ tool' = IF task[t].chat THEN tool
                   ELSE [tool EXCEPT ![t] = [c \in ToolCalls |->
                           IF c \in event.calls THEN "pending" ELSE tool[t][c]]]

\* mutant: a closed response can be quarantined again
QuarantinesClosed(r) == request[r].state # "absent"

(* Only an unanswered request can turn out to be unrecoverable.            *)
Unrecoverable(r) == request[r].state = "open"

Quarantined(rec) ==
    [state |-> "closed", task |-> rec.task, mode |-> rec.mode,
     decision |-> IF rec.mode = "stream" THEN rec.decision ELSE 500,
     quarantined |-> TRUE, pruned |-> rec.pruned, log |-> rec.log]

(* An unrecoverable request is closed with a finite failure.               *)
Quarantine(r) ==
    LET t == request[r].task
    IN  /\ Unrecoverable(r)
        /\ request' = [request EXCEPT ![r] = Quarantined(@)]
        /\ task' = [task EXCEPT ![t] = InState(@, "failed")]
        /\ UNCHANGED <<receipt, tool>>

WithoutPayload(rec) == [rec EXCEPT !.pruned = TRUE, !.log = <<>>]

WithoutResults(t) ==
    [c \in ToolCalls |-> IF tool[t][c] = "completed" THEN "pruned" ELSE tool[t][c]]

(* Retention drops a closed response's payload and, once its task is over, *)
(* possibly the task's tool results; receipts stay.                        *)
Prune(r) ==
    LET t == request[r].task
    IN  /\ request[r].state = "closed"
        /\ ~request[r].pruned
        /\ request' = [request EXCEPT ![r] = WithoutPayload(@)]
        /\ \/ UNCHANGED tool
           \/ task[t].state \in TerminalStates /\ tool' = [tool EXCEPT ![t] = WithoutResults(t)]
        /\ UNCHANGED <<task, receipt>>

Next ==
    \/ \E r \in Requests, t \in Tasks, mode \in Modes :
         \/ \E w \in Workers, chat \in BOOLEAN : AdmitNew(r, t, w, chat, mode)
         \/ AdmitContinuation(r, t, mode)
         \/ AdmitPreempting(r, t, mode)
    \/ \E t \in Tasks : AckAssignment(t)
    \/ \E r \in Requests, event \in Events : CommitEvent(r, event)
    \/ \E r \in Requests : Quarantine(r) \/ Prune(r)

Spec == Init /\ [][Next]_vars
-----------------------------------------------------------------------------
(* The durable records have the shapes their Go types give them; in        *)
(* particular a decision is one of the HTTP statuses the service commits.  *)
TypeOK ==
    /\ task \in [Tasks -> TaskRecords]
    /\ request \in [Requests -> RequestRecords]
    /\ receipt \in [Requests -> SUBSET Events]
    /\ tool \in [Tasks -> [ToolCalls -> {"absent", "pending", "completed", "pruned"}]]

(* The lease names the one unanswered request: a task is active exactly    *)
(* while the request its lease was allocated for is open, and an open      *)
(* request always holds its task's lease.  Every handler's stale-lease     *)
(* check relies on it.                                                     *)
LeaseNamesOpenRequest ==
    /\ \A t \in Tasks : task[t].state \in ActiveStates =>
         /\ task[t].lease \in Requests
         /\ request[task[t].lease].state = "open"
         /\ request[task[t].lease].task = t
    /\ \A r \in Requests : request[r].state = "open" =>
         /\ request[r].task \in Tasks
         /\ task[request[r].task].state \in ActiveStates
         /\ task[request[r].task].lease = r

(* A worker event is applied exactly once: no two receipts of a request    *)
(* share an event id, and the retained response is made of exactly the     *)
(* receipted events, each once (recovery's validateRecoveryReceipts).      *)
AppliedExactlyOnce ==
    \A r \in Requests :
        /\ \A e1, e2 \in receipt[r] : e1.id = e2.id => e1 = e2
        /\ ~request[r].pruned =>
             /\ Range(request[r].log) = receipt[r]
             /\ IsInjective(request[r].log)

(* A response has at most one ending event: an open one has none, a        *)
(* superseded or quarantined one never gets one afterwards.                *)
AnsweredAtMostOnce ==
    \A r \in Requests :
        /\ \A e1, e2 \in receipt[r] :
             EndsResponse(e1.kind) /\ EndsResponse(e2.kind) => e1 = e2
        /\ request[r].state # "closed" => \A e \in receipt[r] : ~EndsResponse(e.kind)

(* Tool calls of a non-chat task are unsettled only while the task waits   *)
(* for exactly their results.                                              *)
PendingToolsAwaited ==
    \A t \in Tasks : (\E c \in ToolCalls : tool[t][c] = "pending") <=> task[t].state = "awaiting_results"

(* A step that leaves closed responses and committed statuses alone.       *)
FinalStep ==
    \A r \in Requests :
        /\ request[r].state = "closed" =>
             /\ request'[r].state = "closed"
             /\ request'[r].log \in {request[r].log, <<>>}
             /\ receipt'[r] = receipt[r]
        /\ request[r].decision # 0 => request'[r].decision = request[r].decision

(* A closed response is final: only retention may still touch it, and a    *)
(* committed HTTP status is never replaced.                                *)
ResponseFinal == [][FinalStep]_vars

(* The durable records are sound after every operation of the service.     *)
RecordsAreSound ==
    TypeOK /\ LeaseNamesOpenRequest /\ AppliedExactlyOnce /\ AnsweredAtMostOnce /\ PendingToolsAwaited

(* A key that was never admitted has left no trace.                        *)
BlankUntilAdmitted ==
    \A r \in Requests : request[r].state = "absent" => request[r] = NoRequest

(* A stream is decided by its admission, an aggregate by its ending.       *)
DecidedInTime ==
    \A r \in Requests : request[r].state = "open" =>
        request[r].decision = IF request[r].mode = "stream" THEN 200 ELSE 0

IInv ==
    /\ TypeOK
    /\ BlankUntilAdmitted
    /\ DecidedInTime
    /\ LeaseNamesOpenRequest
    /\ AppliedExactlyOnce
    /\ AnsweredAtMostOnce
    /\ PendingToolsAwaited
=============================================================================
