------------------------------ MODULE LLMService ------------------------------
(***************************************************************************)
(* llm.Service: the durable records of LLMLedger with the revisions the    *)
(* service compares, the memory it loses in a crash, and its handlers cut  *)
(* at every Store transaction and every critical section.                  *)
(*                                                                         *)
(* A handler reads snapshots in one View and writes whole records derived  *)
(* from them in a later Update; other handlers run in between.  An Update  *)
(* may be refused, or may end without the handler learning whether it      *)
(* committed (ErrStoreCommitUnknown): the handler then reads again to find *)
(* out.  The service may crash anywhere, keeping only the Store.           *)
(***************************************************************************)
EXTENDS LLMEvents, Sequences, FiniteSets

CONSTANTS
    Tasks, Requests, Workers, EventIDs, ToolCalls, None,  \* as in LLMLedger
    Expiry,        \* the id of a request's expiry event, and the expiry sweep
    Attempts,      \* concurrent calls of Admit
    Inputs,        \* the admission requests callers send
    WorkerEvents,  \* the events workers send
    HasRouter,     \* a WorkerRouter is configured
    Happens,       \* which of "expiry", "retention" and "detach" this instance has
    MaxFaults,     \* Store failures, known or of unknown outcome
    MaxCrashes     \* crashes of the process

VARIABLES
    task, request, receipt, tool,  \* the Store
    up,         \* the process runs and has recovered
    assigned,   \* Service.assignments, by request
    pending,    \* Service.pending: assignments still to be ACKed
    conn,       \* Service.connections
    sent,       \* serviceWorkerConnection.sent
    acked,      \* serviceWorkerConnection.acked
    detached,   \* Service.detached: the request whose caller has left
    adm,        \* every call of Admit in progress
    op,         \* every AckAssignment or CommitEvent in progress
    detaching,  \* DetachCaller calls that have found their request active
    faults, crashes

store == <<task, request, receipt, tool>>
links == <<conn, sent, acked>>
memory == <<assigned, pending, conn, sent, acked, detached>>
bounds == <<faults, crashes>>
vars == <<store, up, memory, adm, op, detaching, bounds>>

(* What a caller asks for: its idempotency key, the digest of the canonical *)
(* request, the task it names or None, the harness session that finds a    *)
(* task for it otherwise, and the tool results it carries.                 *)
InputRecords ==
    [key: Requests, digest: {1, 2}, task: Tasks \cup {None}, affinity: {1, 2},
     chat: BOOLEAN, mode: Modes, results: SUBSET ToolCalls]

ASSUME InputsAssumption ==
    Inputs \subseteq {input \in InputRecords : input.chat => input.task = None}

(* The worker that sends an event is the one its connection authenticated. *)
ASSUME WorkerEventsAssumption ==
    WorkerEvents \subseteq
        {event \in [id: EventIDs, worker: Workers, kind: Kinds \ {"expired"},
                    calls: SUBSET ToolCalls] :
           event.calls # {} <=> event.kind = "tool_calls"}

ASSUME ExpiryAssumption ==
    /\ Expiry \notin Workers \cup EventIDs \cup {None}
    /\ None \notin Tasks \cup Requests \cup Workers \cup EventIDs \cup ToolCalls

ASSUME NoneIsNoEvent ==
    None \notin [id: EventIDs \cup {Expiry}, worker: Workers, kind: Kinds, calls: SUBSET ToolCalls]

ASSUME BoundsAssumption == MaxFaults \in Nat /\ MaxCrashes \in Nat

NoTask ==
    [state |-> "absent", owner |-> None, lease |-> None, chat |-> FALSE,
     affinity |-> 1, rev |-> 0]

NoRequest ==
    [state |-> "absent", task |-> None, mode |-> "stream", decision |-> 0,
     quarantined |-> FALSE, pruned |-> FALSE, log |-> <<>>, digest |-> 1, rev |-> 0]

(* An Admit call: where it is, its input, which of the four passes over    *)
(* replayAdmission it makes, the admission plan with its snapshots, and    *)
(* the reply.                                                              *)
NoAttempt ==
    [pc |-> "idle", input |-> None, pass |-> "first", tid |-> None, plan |-> "none",
     worker |-> None, task |-> NoTask, req |-> NoRequest, victim |-> None,
     results |-> {}, reply |-> "none"]

NoOp ==
    [pc |-> "idle", r |-> None, event |-> None, task |-> NoTask, req |-> NoRequest,
     result |-> "none"]

Init ==
    /\ task = [t \in Tasks |-> NoTask]
    /\ request = [r \in Requests |-> NoRequest]
    /\ receipt = [r \in Requests |-> {}]
    /\ tool = [t \in Tasks |-> [c \in ToolCalls |-> "absent"]]
    /\ up = TRUE
    /\ assigned = {}
    /\ pending = {}
    /\ conn = [w \in Workers |-> FALSE]
    /\ sent = [w \in Workers |-> {}]
    /\ acked = [w \in Workers |-> {}]
    /\ detached = [t \in Tasks |-> None]
    /\ adm = [a \in Attempts |-> NoAttempt]
    /\ op = [c \in Workers \cup {Expiry} |-> NoOp]
    /\ detaching = {}
    /\ faults = 0
    /\ crashes = 0

Fault == faults < MaxFaults /\ faults' = faults + 1 /\ UNCHANGED crashes

(* FindActiveRequest: the one incomplete request of a task.                *)
Active(t) == {r \in Requests : request[r].state = "open" /\ request[r].task = t}
-----------------------------------------------------------------------------
(* Admit: replay, plan, commit, install.                                   *)

At(a, pc) == up /\ adm[a].pc = pc

Goto(a, pc) == adm' = [adm EXCEPT ![a].pc = pc]

Reply(a, reply) ==
    adm' = [adm EXCEPT ![a] = [NoAttempt EXCEPT !.pc = "done", !.input = adm[a].input, !.reply = reply]]

(* The snapshots of an earlier pass are not used again.                    *)
Restart(a, pc, pass, reply) ==
    adm' = [adm EXCEPT ![a] = [NoAttempt EXCEPT !.pc = pc, !.input = adm[a].input, !.pass = pass,
                                                !.reply = reply]]

AdmitBegin(a, input) ==
    /\ At(a, "idle")
    /\ adm' = [adm EXCEPT ![a] = [NoAttempt EXCEPT !.pc = "replay", !.input = input]]
    /\ UNCHANGED <<store, up, memory, op, detaching, bounds>>

AdmitReturn(a) ==
    /\ At(a, "done")
    /\ adm' = [adm EXCEPT ![a] = NoAttempt]
    /\ UNCHANGED <<store, up, memory, op, detaching, bounds>>

(* replayAdmission's lookups.  An absent key is admitted on the first pass *)
(* and is the commit's failure on a later one; an open request is rebuilt  *)
(* from a snapshot of its request and task.                                *)
ReplayRead(a) ==
    LET r == adm[a].input.key
        found == request[r]
    IN  /\ At(a, "replay")
        /\ \/ /\ found.state = "absent"
              /\ IF adm[a].pass = "first" THEN Goto(a, "locate")
                 ELSE Reply(a, IF adm[a].pass = "settle" THEN "error" ELSE adm[a].reply)
           \/ /\ found.state # "absent"
              /\ found.digest # adm[a].input.digest
              /\ Reply(a, "idempotency_conflict")
           \/ /\ found.state # "absent"
              /\ found.digest = adm[a].input.digest
              /\ \/ found.pruned /\ Reply(a, "replay_expired")
                 \/ ~found.pruned /\ found.state = "closed" /\ Goto(a, "read")
                 \/ /\ found.state = "open"
                    /\ adm' = [adm EXCEPT ![a].pc = "scan", ![a].req = found,
                                          ![a].task = task[found.task]]
        /\ UNCHANGED <<store, up, memory, op, detaching, bounds>>

(* recoverRequest scans the events of the snapshot's request in a View of  *)
(* its own and accepts them only if they are the history the snapshot      *)
(* ends.  Quarantine may have appended a terminal the scan trips over.     *)
RecoverScan(a) ==
    LET now == request[adm[a].input.key]
        intact == now.log = adm[a].req.log /\ ~now.pruned /\ adm[a].task.state \in ActiveStates
    IN  /\ At(a, "scan")
        /\ \/ intact /\ Goto(a, "add")
           \/ /\ ~intact \/ now.quarantined
              /\ Goto(a, IF adm[a].pass = "reconcile" THEN "quarantine" ELSE "recheck")
        /\ UNCHANGED <<store, up, memory, op, detaching, bounds>>

(* The head is read again before a failed recovery is reported.            *)
ReplayRecheck(a) ==
    /\ At(a, "recheck")
    /\ IF request[adm[a].input.key].state = "closed" THEN Goto(a, "read") ELSE Reply(a, "error")
    /\ UNCHANGED <<store, up, memory, op, detaching, bounds>>

(* addAssignment keeps what is already in memory.                          *)
AddAssignment(r, isPending) ==
    /\ assigned' = assigned \cup {r}
    /\ pending' = IF r \notin assigned /\ isPending THEN pending \cup {r} ELSE pending

RecoverAdd(a) ==
    /\ At(a, "add")
    /\ AddAssignment(adm[a].input.key, adm[a].task.state = "leased")
    /\ Restart(a, IF adm[a].pass = "reconcile" THEN "replay" ELSE "read",
                  IF adm[a].pass = "reconcile" THEN "settle" ELSE adm[a].pass, "none")
    /\ UNCHANGED <<store, up, links, detached, op, detaching, bounds>>

(* readResponse: the page a caller starts from is the request as it is now. *)
ReadResponse(a) ==
    LET now == request[adm[a].input.key]
    IN  /\ At(a, "read")
        /\ \/ now.pruned /\ Reply(a, "replay_expired")
           \/ /\ ~now.pruned
              /\ adm' = [adm EXCEPT ![a] = [NoAttempt EXCEPT
                   !.pc = IF adm[a].pass = "settle" THEN "clear" ELSE "done", !.pass = adm[a].pass,
                   !.input = adm[a].input, !.req = now, !.reply = "response"]]
        /\ UNCHANGED <<store, up, memory, op, detaching, bounds>>

(* clearDetached, after a preempting commit or a reconciled one.           *)
ClearDetached(a) ==
    /\ At(a, "clear")
    /\ detached' = [detached EXCEPT ![request[adm[a].input.key].task] = None]
    /\ Goto(a, IF adm[a].pass = "settle" THEN "done" ELSE "read")
    /\ UNCHANGED <<store, up, assigned, pending, links, op, detaching, bounds>>

(* A request that names no task continues the open task of its session, if *)
(* there is one; a chat never continues anything.                          *)
OpenTasks(affinity) ==
    {t \in Tasks : /\ task[t].state \in ActiveStates \cup IdleStates
                   /\ ~task[t].chat
                   /\ task[t].affinity = affinity}

(* Ids the IDSource has not handed out and no caller made up.              *)
FreshTasks ==
    {t \in Tasks : /\ task[t].state = "absent"
                   /\ \A a \in Attempts : adm[a].tid # t
                   /\ \A input \in Inputs : input.task # t}

LocateTask(a) ==
    LET input == adm[a].input
        open == IF input.chat THEN {} ELSE OpenTasks(input.affinity)
        candidates == IF input.task # None THEN {input.task}
                      ELSE IF open # {} THEN open ELSE FreshTasks
    IN  /\ At(a, "locate")
        /\ \/ \E t \in candidates : adm' = [adm EXCEPT ![a].pc = "plan", ![a].tid = t]
           \/ candidates = {} /\ Reply(a, "error")
        /\ UNCHANGED <<store, up, memory, op, detaching, bounds>>

(* routeAdmission for a new task: without a router the one connected       *)
(* worker, with one any worker, connected or not.                          *)
Routes ==
    LET connected == {w \in Workers : conn[w]}
    IN  IF HasRouter THEN Workers
        ELSE IF Cardinality(connected) = 1 THEN connected ELSE {}

(* A call with its plan and the snapshots the plan was made from.          *)
Planned(a, kind, w, victim, calls) ==
    [adm[a] EXCEPT !.pc = "commit", !.plan = kind, !.worker = w, !.task = task[adm[a].tid],
                   !.victim = victim, !.req = IF victim = None THEN NoRequest ELSE request[victim],
                   !.results = calls]

(* planAdmissionTask and routeAdmission.  Their Views are one step here:   *)
(* the commit checks again every revision they read.                       *)
PlanAdmission(a) ==
    LET input == adm[a].input
        t == adm[a].tid
        calls == {c \in ToolCalls : tool[t][c] = "pending"}
        new == input.chat \/ task[t].state = "absent"
        same == task[t].affinity = input.affinity /\ ~task[t].chat
        continues == /\ ~new
                     /\ same
                     /\ \/ task[t].state = "awaiting_caller"
                        \/ task[t].state = "awaiting_results" /\ calls # {} /\ calls \subseteq input.results
        preempts == ~new /\ same /\ task[t].state \in ActiveStates /\ detached[t] \in Active(t)
        Plan(kind, w, victim, results) ==
            adm' = [adm EXCEPT ![a] = Planned(a, kind, w, victim, results)]
    IN  /\ At(a, "plan")
        /\ \/ new /\ \E w \in Routes : Plan("new", w, None, {})
           \/ new /\ Routes = {} /\ Reply(a, "unavailable")
           \/ continues /\ Plan("continue", task[t].owner, None, calls)
           \/ preempts /\ Plan("preempt", task[t].owner, detached[t], {})
           \/ ~new /\ ~continues /\ ~preempts /\ Reply(a, "conflict")
        /\ UNCHANGED <<store, up, memory, op, detaching, bounds>>

\* mutant: the request key is not looked up again
AdmissionStandsUnkeyed(a) ==
    LET t == adm[a].tid
    IN  IF adm[a].plan = "new"
        THEN task[t].state = "absent" /\ (adm[a].input.chat \/ OpenTasks(adm[a].input.affinity) = {})
        ELSE task[t].rev = adm[a].task.rev

(* What the admission transaction finds when it checks the plan again, the *)
(* Store's uniqueness constraints included.                                *)
AdmissionStands(a) ==
    LET input == adm[a].input
        t == adm[a].tid
    IN  /\ request[input.key].state = "absent"
        /\ IF adm[a].plan = "new"
           THEN task[t].state = "absent" /\ (input.chat \/ OpenTasks(input.affinity) = {})
           ELSE task[t].rev = adm[a].task.rev /\ task[t].state = adm[a].task.state
        /\ adm[a].plan = "preempt" =>
             adm[a].victim \in Active(t) /\ request[adm[a].victim].rev = adm[a].req.rev
        /\ \A c \in adm[a].results : tool[t][c] = "pending"
        /\ Active(t) \subseteq {adm[a].victim}

AdmittedRequest(input, t) ==
    [NoRequest EXCEPT !.state = "open", !.task = t, !.mode = input.mode,
                      !.decision = IF input.mode = "stream" THEN 200 ELSE 0,
                      !.digest = input.digest, !.rev = 1]

Superseded(rec) == [rec EXCEPT !.state = "closed", !.rev = @ + 1]

(* The admission transaction: task, superseded request, tool results and   *)
(* the new request, written together from the plan's snapshots.            *)
AdmissionTxn(a) ==
    LET input == adm[a].input
        t == adm[a].tid
        leased == IF adm[a].plan = "new"
                  THEN [NoTask EXCEPT !.chat = input.chat, !.affinity = input.affinity]
                  ELSE adm[a].task
    IN  /\ task' = [task EXCEPT ![t] =
                      [leased EXCEPT !.state = "leased", !.owner = adm[a].worker,
                                     !.lease = input.key, !.rev = @ + 1]]
        /\ request' = [r \in Requests |->
             CASE r = input.key -> AdmittedRequest(input, t)
               [] r = adm[a].victim -> Superseded(request[r])
               [] OTHER -> request[r]]
        /\ tool' = [tool EXCEPT ![t] = [c \in ToolCalls |->
                      IF c \in adm[a].results THEN "completed" ELSE tool[t][c]]]
        /\ UNCHANGED receipt

(* A refused or failed transaction is answered from a second replay.       *)
AdmitCommit(a) ==
    LET Retry(reply) == Restart(a, "replay", "retry", reply) /\ UNCHANGED store
        Install == adm' = [adm EXCEPT ![a] = [NoAttempt EXCEPT
                     !.pc = "install", !.input = adm[a].input, !.plan = adm[a].plan]]
    IN  /\ At(a, "commit")
        /\ \/ AdmissionStands(a) /\ AdmissionTxn(a) /\ Install /\ UNCHANGED bounds
           \/ ~AdmissionStands(a) /\ Retry("conflict") /\ UNCHANGED bounds
           \/ Fault /\ Retry("error")
           \/ /\ Fault
              /\ AdmissionStands(a)
              /\ AdmissionTxn(a) \/ UNCHANGED store
              /\ Restart(a, "reconcile", "reconcile", "none")
        /\ UNCHANGED <<up, memory, op, detaching>>

\* mutant: a taking-over request is not put into memory
AdmitInstallNewOnly(a) ==
    /\ At(a, "install")
    /\ IF adm[a].plan = "preempt" THEN UNCHANGED <<assigned, pending>>
       ELSE AddAssignment(adm[a].input.key, TRUE)
    /\ Goto(a, IF adm[a].plan = "preempt" THEN "clear" ELSE "read")
    /\ UNCHANGED <<store, up, links, detached, op, detaching, bounds>>

(* The assignment becomes visible only after its admission is durable.     *)
AdmitInstall(a) ==
    /\ At(a, "install")
    /\ AddAssignment(adm[a].input.key, TRUE)
    /\ Goto(a, IF adm[a].plan = "preempt" THEN "clear" ELSE "read")
    /\ UNCHANGED <<store, up, links, detached, op, detaching, bounds>>

(* reconcileAdmissionCommit looks for the request the commit may have      *)
(* left behind.                                                            *)
Reconcile(a) ==
    LET found == request[adm[a].input.key]
    IN  /\ At(a, "reconcile")
        /\ \/ /\ found.state = "absent" \/ found.digest # adm[a].input.digest
              /\ Reply(a, "error")
           \/ /\ found.state = "open" /\ found.digest = adm[a].input.digest
              /\ adm' = [adm EXCEPT ![a].pc = "scan", ![a].req = found, ![a].task = task[found.task]]
           \/ /\ found.state = "closed" /\ found.digest = adm[a].input.digest
              /\ Restart(a, "replay", "settle", "none")
        /\ UNCHANGED <<store, up, memory, op, detaching, bounds>>

(* quarantineRecovery's transaction on a request and task snapshot.        *)
QuarantineTxn(r, snapshot, holder) ==
    /\ request' = [request EXCEPT ![r] =
         [snapshot EXCEPT !.state = "closed", !.quarantined = TRUE, !.rev = @ + 1,
                          !.decision = IF snapshot.mode = "stream" THEN @ ELSE 500]]
    /\ task' = [task EXCEPT ![snapshot.task] =
         [holder EXCEPT !.state = "failed", !.rev = @ + 1]]
    /\ UNCHANGED <<receipt, tool>>

(* A request that cannot be rebuilt after an unknown commit is closed with *)
(* a finite failure, unless it has moved on since the snapshot.            *)
AdmitQuarantine(a) ==
    LET r == adm[a].input.key
        unmoved == request[r].rev = adm[a].req.rev /\ task[request[r].task].rev = adm[a].task.rev
        Settle == Restart(a, "replay", "settle", "none")
    IN  /\ At(a, "quarantine")
        /\ \/ request[r].quarantined /\ Settle /\ UNCHANGED <<store, bounds>>
           \/ /\ ~request[r].quarantined
              /\ \/ unmoved /\ QuarantineTxn(r, adm[a].req, adm[a].task) /\ Settle /\ UNCHANGED bounds
                 \/ ~unmoved /\ Reply(a, "error") /\ UNCHANGED <<store, bounds>>
                 \/ /\ Fault
                    /\ \/ unmoved /\ QuarantineTxn(r, adm[a].req, adm[a].task) /\ Settle
                       \/ UNCHANGED store /\ Reply(a, "error")
        /\ UNCHANGED <<up, memory, op, detaching>>

(* A View fails, or a policy, id or sealing step refuses the call.         *)
AdmitFails(a) ==
    /\ up
    /\ Fault
    /\ \/ adm[a].pc \in {"replay", "recheck", "locate", "plan", "read", "reconcile"} /\ Reply(a, "error")
       \/ adm[a].pc = "scan" /\ Goto(a, IF adm[a].pass = "reconcile" THEN "quarantine" ELSE "recheck")
    /\ UNCHANGED <<store, up, memory, op, detaching>>
-----------------------------------------------------------------------------
(* The worker's side: connections, assignments, events.                    *)

OpenWorker(w) ==
    /\ up
    /\ ~conn[w]
    /\ conn' = [conn EXCEPT ![w] = TRUE]
    /\ UNCHANGED <<store, up, assigned, pending, sent, acked, detached, adm, op, detaching, bounds>>

(* The transport shuts a connection down from the loop that also runs its  *)
(* operations: none is in progress.                                        *)
CloseWorker(w) ==
    /\ up
    /\ conn[w]
    /\ op[w].pc = "idle"
    /\ conn' = [conn EXCEPT ![w] = FALSE]
    /\ sent' = [sent EXCEPT ![w] = {}]
    /\ acked' = [acked EXCEPT ![w] = {}]
    /\ UNCHANGED <<store, up, assigned, pending, detached, adm, op, detaching, bounds>>

Owner(r) == task[request[r].task].owner

(* dispatch: every pending assignment is sent once per connection.         *)
Dispatch(w, r) ==
    /\ up
    /\ conn[w]
    /\ r \in pending \ sent[w]
    /\ Owner(r) = w
    /\ sent' = [sent EXCEPT ![w] = @ \cup {r}]
    /\ UNCHANGED <<store, up, assigned, pending, conn, acked, detached, adm, op, detaching, bounds>>

OpAt(c, pc) == up /\ op[c].pc = pc

OpGoto(c, pc) ==
    op' = [op EXCEPT ![c] = [NoOp EXCEPT !.pc = pc, !.r = op[c].r, !.event = op[c].event]]

Result(c, result) ==
    op' = [op EXCEPT ![c] = [NoOp EXCEPT !.pc = "done", !.r = op[c].r, !.event = op[c].event,
                                         !.result = result]]

OpReturn(c) ==
    /\ OpAt(c, "done")
    /\ op' = [op EXCEPT ![c] = NoOp]
    /\ UNCHANGED <<store, up, memory, adm, detaching, bounds>>

(* The task of an ACKed assignment is in front of its human.               *)
AckTxn(t) ==
    /\ task' = [task EXCEPT ![t].state = "awaiting_human", ![t].rev = @ + 1]
    /\ UNCHANGED <<request, receipt, tool>>

(* ackAssignment up to its transaction: the delivery is one this           *)
(* connection was sent and the lease has not moved on.                     *)
AckAssignment(w, r) ==
    LET t == request[r].task
        Begin(pc, result) == op' = [op EXCEPT ![w] = [NoOp EXCEPT !.pc = pc, !.r = r, !.result = result]]
        known == r \in sent[w] \ acked[w] /\ r \in assigned
    IN  /\ OpAt(w, "idle")
        /\ conn[w]
        /\ request[r].state # "absent"
        /\ Owner(r) = w
        /\ \/ r \in acked[w] /\ Begin("done", "acked") /\ UNCHANGED <<store, bounds>>
           \/ /\ r \notin acked[w] /\ ~known
              /\ Begin("done", "failed") /\ UNCHANGED <<store, bounds>>
           \/ /\ known
              /\ \/ /\ task[t].lease # r \/ task[t].state \notin ActiveStates
                    /\ Begin("done", "failed") /\ UNCHANGED <<store, bounds>>
                 \/ /\ task[t].lease = r /\ task[t].state = "awaiting_human"
                    /\ Begin("acked", "none") /\ UNCHANGED <<store, bounds>>
                 \/ /\ task[t].lease = r /\ task[t].state = "leased"
                    /\ \/ AckTxn(t) /\ Begin("acked", "none") /\ UNCHANGED bounds
                       \/ Fault /\ UNCHANGED store /\ Begin("done", "failed")
                       \/ Fault /\ (AckTxn(t) \/ UNCHANGED store) /\ Begin("ackunknown", "none")
        /\ UNCHANGED <<up, memory, adm, detaching>>

(* After a commit of unknown outcome the task itself tells.                *)
AckReconcile(w) ==
    LET holder == task[request[op[w].r].task]
    IN  /\ OpAt(w, "ackunknown")
        /\ IF holder.lease = op[w].r /\ holder.state = "awaiting_human"
           THEN OpGoto(w, "acked") ELSE Result(w, "failed")
        /\ UNCHANGED <<store, up, memory, adm, detaching, bounds>>

(* The delivery leaves memory's pending set only once the ACK is durable.  *)
AckInstall(w) ==
    LET r == op[w].r
    IN  /\ OpAt(w, "acked")
        /\ sent' = [sent EXCEPT ![w] = @ \ {r}]
        /\ acked' = [acked EXCEPT ![w] = @ \cup {r}]
        /\ pending' = pending \ {r}
        /\ Result(w, "acked")
        /\ UNCHANGED <<store, up, assigned, conn, detached, adm, detaching, bounds>>

(* commitWorkerEvent begins with the receipt: an event applied before is   *)
(* acknowledged again, its id with other content refused.                  *)
CommitBegin(c, r, event) ==
    LET known == {e \in receipt[r] : e.id = event.id}
        Begin(pc, result) ==
            op' = [op EXCEPT ![c] = [NoOp EXCEPT !.pc = pc, !.r = r, !.event = event, !.result = result]]
    IN  /\ OpAt(c, "idle")
        /\ \/ known = {} /\ Begin("load", "none")
           \/ event \in known /\ Begin("settle", "none")
           \/ known # {} /\ event \notin known /\ Begin("done", "event_conflict")
        /\ UNCHANGED <<store, up, memory, adm, detaching, bounds>>

(* A worker speaks of requests that were admitted.                         *)
CommitEvent(w, r, event) ==
    /\ conn[w]
    /\ event.worker = w
    /\ request[r].state # "absent"
    /\ CommitBegin(w, r, event)

(* RunExpiry sends the event of a request it saw unanswered in the name of *)
(* the worker that holds the lease.                                        *)
ExpireRequest(r) ==
    /\ "expiry" \in Happens
    /\ request[r].state # "absent"
    /\ CommitBegin(Expiry, r,
         [id |-> Expiry, worker |-> Owner(r), kind |-> "expired", calls |-> {}])

(* The rejection planWorkerEvent and the checks before it decide on.       *)
Rejection(r, event) ==
    LET t == request[r].task
    IN  CASE request[r].state = "absent"                    -> "not_found"
          [] request[r].state = "closed"                    -> "response_closed"
          [] task[t].owner # event.worker                   -> "stale_lease"
          [] task[t].lease # r                              -> "stale_lease"
          [] \E c \in event.calls : tool[t][c] # "absent"   -> "tool_conflict"
          [] ~EventAllowed(event.kind, task[t].state)       -> "state_conflict"
          [] OTHER                                          -> "none"

(* The state an event is planned on; the codec or the tool authorizer may  *)
(* turn an otherwise acceptable event down for good.                       *)
CommitLoad(c) ==
    LET r == op[c].r
        rejection == Rejection(r, op[c].event)
    IN  /\ OpAt(c, "load")
        /\ \/ rejection # "none" /\ Result(c, rejection)
           \/ rejection = "none" /\ Result(c, "invalid")
           \/ /\ rejection = "none"
              /\ op' = [op EXCEPT ![c].pc = "txn", ![c].req = request[r],
                                  ![c].task = task[request[r].task]]
        /\ UNCHANGED <<store, up, memory, adm, detaching, bounds>>

(* The event transaction: response event, receipt, tool calls, task and    *)
(* request, written together from the snapshots.                           *)
EventTxn(c) ==
    LET r == op[c].r
        event == op[c].event
        t == op[c].req.task
        next == EventState(event.kind, op[c].task.state, op[c].task.chat)
        done == EndsResponse(event.kind)
    IN  /\ request' = [request EXCEPT ![r] = [op[c].req EXCEPT
             !.log = Append(@, event), !.rev = @ + 1,
             !.state = IF done THEN "closed" ELSE @,
             !.decision = IF done /\ op[c].req.mode = "aggregate"
                          THEN AggregateTerminalStatus(event.kind) ELSE @]]
        /\ task' = IF next = op[c].task.state THEN task
                   ELSE [task EXCEPT ![t] = [op[c].task EXCEPT !.state = next, !.rev = @ + 1]]
        /\ tool' = IF op[c].task.chat THEN tool
                   ELSE [tool EXCEPT ![t] = [k \in ToolCalls |->
                           IF k \in event.calls THEN "pending" ELSE tool[t][k]]]
        /\ receipt' = [receipt EXCEPT ![r] = @ \cup {event}]

\* mutant: only the lease is checked again
EventStandsOnLease(c) == task[op[c].req.task].lease = op[c].r

(* The snapshots are still current.                                        *)
EventStands(c) ==
    LET r == op[c].r
        t == op[c].req.task
    IN  /\ request[r].rev = op[c].req.rev
        /\ task[t].rev = op[c].task.rev
        /\ request[r].state # "closed"
        /\ task[t].owner = op[c].event.worker
        /\ task[t].lease = r
        /\ \A k \in op[c].event.calls : task[t].chat \/ tool[t][k] = "absent"

(* The event transaction; a receipt that is there by now decides.          *)
CommitTxn(c) ==
    LET known == {e \in receipt[op[c].r] : e.id = op[c].event.id}
        stands == known = {} /\ EventStands(c)
    IN  /\ OpAt(c, "txn")
        /\ \/ op[c].event \in known /\ OpGoto(c, "settle") /\ UNCHANGED <<store, bounds>>
           \/ op[c].event \notin known /\ ~stands /\ Result(c, "failed") /\ UNCHANGED <<store, bounds>>
           \/ stands /\ EventTxn(c) /\ OpGoto(c, "settle") /\ UNCHANGED bounds
           \/ Fault /\ UNCHANGED store /\ Result(c, "failed")
           \/ Fault /\ stands /\ (EventTxn(c) \/ UNCHANGED store) /\ OpGoto(c, "unknown")
        /\ UNCHANGED <<up, memory, adm, detaching>>

\* mutant: a commit of unknown outcome counts as done
CommitReconcileHopes(c) ==
    /\ OpAt(c, "unknown")
    /\ OpGoto(c, "settle")
    /\ UNCHANGED <<store, up, memory, adm, detaching, bounds>>

(* After a commit of unknown outcome the receipt tells.                    *)
CommitReconcile(c) ==
    /\ OpAt(c, "unknown")
    /\ IF op[c].event \in receipt[op[c].r] THEN OpGoto(c, "settle") ELSE Result(c, "failed")
    /\ UNCHANGED <<store, up, memory, adm, detaching, bounds>>

(* completeAssignment forgets the delivery of an answered request; a sweep *)
(* then drops the mark of the caller that left.                            *)
CommitSettle(c) ==
    LET r == op[c].r
        w == op[c].event.worker
    IN  /\ OpAt(c, "settle")
        /\ IF EndsResponse(op[c].event.kind)
           THEN /\ assigned' = assigned \ {r}
                /\ pending' = pending \ {r}
                /\ sent' = [sent EXCEPT ![w] = @ \ {r}]
                /\ acked' = [acked EXCEPT ![w] = @ \ {r}]
           ELSE UNCHANGED <<assigned, pending, sent, acked>>
        /\ detached' = IF c = Expiry THEN [detached EXCEPT ![request[r].task] = None] ELSE detached
        /\ Result(c, "acked")
        /\ UNCHANGED <<store, up, conn, adm, detaching, bounds>>

(* A View fails.                                                           *)
OpFails(c) ==
    /\ up
    /\ op[c].pc \in {"load", "unknown", "ackunknown"}
    /\ Fault
    /\ Result(c, "failed")
    /\ UNCHANGED <<store, up, memory, adm, detaching>>
-----------------------------------------------------------------------------
(* DetachCaller: the mark names the exact active request, found in a View  *)
(* before the mark is set.                                                 *)
DetachCheck(r) ==
    /\ up
    /\ "detach" \in Happens
    /\ request[r].state = "open"
    /\ detaching' = detaching \cup {r}
    /\ UNCHANGED <<store, up, memory, adm, op, bounds>>

DetachMark(r) ==
    /\ up
    /\ r \in detaching
    /\ detaching' = detaching \ {r}
    /\ detached' = [detached EXCEPT ![request[r].task] = r]
    /\ UNCHANGED <<store, up, assigned, pending, links, adm, op, bounds>>

(* pruneRetentionCandidate: one transaction, no memory.                    *)
PruneRequest(r) ==
    LET t == request[r].task
        Pruned == [c \in ToolCalls |-> IF tool[t][c] = "completed" THEN "pruned" ELSE tool[t][c]]
    IN  /\ up
        /\ "retention" \in Happens
        /\ request[r].state = "closed"
        /\ ~request[r].pruned
        /\ request' = [request EXCEPT ![r].pruned = TRUE, ![r].log = <<>>, ![r].rev = @ + 1]
        /\ \/ UNCHANGED tool
           \/ task[t].state \in TerminalStates /\ tool' = [tool EXCEPT ![t] = Pruned]
        /\ UNCHANGED <<task, receipt, up, memory, adm, op, detaching, bounds>>

Crash ==
    /\ up
    /\ crashes < MaxCrashes
    /\ crashes' = crashes + 1
    /\ up' = FALSE
    /\ assigned' = {}
    /\ pending' = {}
    /\ conn' = [w \in Workers |-> FALSE]
    /\ sent' = [w \in Workers |-> {}]
    /\ acked' = [w \in Workers |-> {}]
    /\ detached' = [t \in Tasks |-> None]
    /\ adm' = [a \in Attempts |-> NoAttempt]
    /\ op' = [c \in Workers \cup {Expiry} |-> NoOp]
    /\ detaching' = {}
    /\ UNCHANGED <<store, faults>>

(* recover closes a request it cannot rebuild, before the service accepts  *)
(* any call; the process may die between two of these transactions.        *)
RecoverQuarantine(r) ==
    /\ ~up
    /\ request[r].state = "open"
    /\ Fault
    /\ QuarantineTxn(r, request[r], task[request[r].task])
    /\ UNCHANGED <<up, memory, adm, op, detaching>>

(* Every other unanswered request gets its assignment back.                *)
Recover ==
    LET open == {r \in Requests : request[r].state = "open"}
    IN  /\ ~up
        /\ up' = TRUE
        /\ assigned' = open
        /\ pending' = {r \in open : task[request[r].task].state = "leased"}
        /\ UNCHANGED <<store, links, detached, adm, op, detaching, bounds>>

AdmitStep(a) ==
    \/ ReplayRead(a) \/ RecoverScan(a) \/ ReplayRecheck(a) \/ RecoverAdd(a)
    \/ ReadResponse(a) \/ ClearDetached(a) \/ LocateTask(a) \/ PlanAdmission(a)
    \/ AdmitCommit(a) \/ AdmitInstall(a) \/ Reconcile(a) \/ AdmitQuarantine(a)
    \/ AdmitFails(a) \/ AdmitReturn(a)

OpStep(c) ==
    \/ CommitLoad(c) \/ CommitTxn(c) \/ CommitReconcile(c) \/ CommitSettle(c)
    \/ OpFails(c)
    \/ c \in Workers /\ (AckReconcile(c) \/ AckInstall(c))

Next ==
    \/ \E a \in Attempts : AdmitStep(a) \/ \E input \in Inputs : AdmitBegin(a, input)
    \/ \E c \in Workers \cup {Expiry} : OpStep(c) \/ OpReturn(c)
    \/ \E w \in Workers : OpenWorker(w) \/ CloseWorker(w)
    \/ \E w \in Workers, r \in Requests :
         \/ Dispatch(w, r)
         \/ AckAssignment(w, r)
         \/ \E event \in WorkerEvents : CommitEvent(w, r, event)
    \/ \E r \in Requests : ExpireRequest(r) \/ DetachCheck(r) \/ DetachMark(r) \/ PruneRequest(r)
                          \/ RecoverQuarantine(r)
    \/ Crash
    \/ Recover

Spec == Init /\ [][Next]_vars
-----------------------------------------------------------------------------
(* Records and memory have their types; an assignment can only be pending  *)
(* while it is in memory, and what a connection has sent or seen           *)
(* acknowledged goes with the connection.                                  *)
TypeOK ==
    /\ \A t \in Tasks : /\ task[t].state \in TaskStates \cup {"absent"}
                        /\ task[t].rev \in Nat
                        /\ detached[t] \in Requests \cup {None}
    /\ \A r \in Requests : /\ request[r].state \in {"absent", "open", "closed"}
                           /\ request[r].rev \in Nat
                           /\ request[r].decision \in Statuses
    /\ pending \subseteq assigned
    /\ assigned \subseteq Requests
    /\ \A w \in Workers : sent[w] \cup acked[w] # {} => conn[w]
    /\ detaching \subseteq Requests
    /\ faults \in 0..MaxFaults
    /\ crashes \in 0..MaxCrashes

(* The records without what only the service compares.                     *)
LedgerTask ==
    [t \in Tasks |-> [state |-> task[t].state, owner |-> task[t].owner,
                      lease |-> task[t].lease, chat |-> task[t].chat]]

LedgerRequest ==
    [r \in Requests |->
       [state |-> request[r].state, task |-> request[r].task, mode |-> request[r].mode,
        decision |-> request[r].decision, quarantined |-> request[r].quarantined,
        pruned |-> request[r].pruned, log |-> request[r].log]]

Ledger == INSTANCE LLMLedger WITH
    task <- LedgerTask, request <- LedgerRequest, EventIDs <- EventIDs \cup {Expiry}

(* Whatever the interleaving of admissions, acknowledgements, events,      *)
(* expiry, retention, failed or half-known commits and crashes, the Store  *)
(* only ever changes by one of LLMLedger's operations: Ledger!Spec, with   *)
(* its stuttering steps recognised first.                                  *)
ImplementsLedger == Ledger!Init /\ [][UNCHANGED store \/ Ledger!Next]_(Ledger!vars)

(* Whenever a task is leased and its assignment is in memory, the          *)
(* assignment is still pending: an assignment that the worker's journal    *)
(* may not hold can always be sent again.                                  *)
DeliverableUntilAcked ==
    \A t \in Tasks :
        up /\ task[t].state = "leased" /\ task[t].lease \in assigned => task[t].lease \in pending

(* Without Store failures no admitted request is left out of memory: it is *)
(* assigned, or the attempt that admitted it is about to assign it.        *)
NoStrandedRequest ==
    \A r \in Requests :
        up /\ faults = 0 /\ request[r].state = "open" =>
            \/ r \in assigned
            \/ \E a \in Attempts : adm[a].pc = "install" /\ adm[a].input.key = r

(* What a worker is told of its event is true of the Store: an ACK proves  *)
(* the event applied, a NACK that it was not.                              *)
SettlementTruth ==
    \A w \in Workers :
        op[w].pc = "done" /\ op[w].event # None =>
            /\ op[w].result = "acked" => op[w].event \in receipt[op[w].r]
            /\ op[w].result \notin {"acked", "failed"} => op[w].event \notin receipt[op[w].r]

(* A snapshot that still has the current revision is the current record:   *)
(* what lets a transaction write whole records computed outside it.        *)
SnapshotsByRevision ==
    /\ \A c \in DOMAIN op : op[c].pc = "txn" =>
         LET r == op[c].r
             t == op[c].req.task
         IN  /\ request[r].rev = op[c].req.rev => request[r] = op[c].req
             /\ task[t].rev = op[c].task.rev => task[t] = op[c].task
    /\ \A a \in Attempts : adm[a].pc = "commit" /\ adm[a].plan # "new" =>
         /\ task[adm[a].tid].rev = adm[a].task.rev => task[adm[a].tid] = adm[a].task
         /\ adm[a].plan = "preempt" /\ request[adm[a].victim].rev = adm[a].req.rev =>
              request[adm[a].victim] = adm[a].req

(* Two first requests of one harness session never open two tasks, however *)
(* their lookups and commits interleave.                                   *)
OneOpenTaskPerSession ==
    \A t, u \in Tasks :
        t \in OpenTasks(task[u].affinity) /\ u \in OpenTasks(task[u].affinity) => t = u

(* Whatever commit was left in the dark and whenever the process died, an  *)
(* admitted request comes back into memory, to be delivered, or is closed. *)
OpenRequestsReachMemory ==
    \A r \in Requests :
        request[r].state = "open" ~> (r \in assigned \/ request[r].state = "closed")

(* What the handlers hold and tell is right, however they interleave: a    *)
(* worker is told the truth, an unacknowledged assignment stays            *)
(* deliverable, and a snapshot of the current revision is current.         *)
HandlersAreSound == TypeOK /\ SettlementTruth /\ DeliverableUntilAcked /\ SnapshotsByRevision

(* Concurrent admissions leave one open task for a session and no admitted *)
(* request that memory does not know.                                      *)
AdmissionsAreSound == OneOpenTaskPerSession /\ NoStrandedRequest
=============================================================================
