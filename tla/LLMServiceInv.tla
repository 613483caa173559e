---------------------------- MODULE LLMServiceInv ---------------------------
(***************************************************************************)
(* The inductive invariant of LLMService: the types of its records, what   *)
(* every call of Admit and every call of a worker holds between two steps, *)
(* and what the service's memory keeps of the Store; then what its steps   *)
(* may do to the responses callers read and to the workers' connections.   *)
(***************************************************************************)
EXTENDS LLMService

TaskRows ==
    [state: TaskStates \cup {"absent"}, owner: Workers \cup {None}, lease: Requests \cup {None},
     chat: BOOLEAN, affinity: {1, 2}, rev: Nat]

RequestRows ==
    [state: {"absent", "open", "closed"}, task: Tasks \cup {None}, mode: Modes, decision: Statuses,
     quarantined: BOOLEAN, pruned: BOOLEAN, log: Seq(Ledger!Events), digest: {1, 2}, rev: Nat]

RowTypes == task \in [Tasks -> TaskRows] /\ request \in [Requests -> RequestRows]

(* What is admitted has its task, and a task its worker; what is not has   *)
(* never been written.                                                     *)
Placed ==
    /\ \A t \in Tasks : IF task[t].state = "absent" THEN task[t].rev = 0 ELSE task[t].owner \in Workers
    /\ \A r \in Requests :
         IF request[r].state = "absent" THEN request[r].rev = 0
         ELSE request[r].task \in Tasks /\ task[request[r].task].state # "absent"

(* A chat has no tool calls of its own.                                    *)
ChatUntooled ==
    \A t \in Tasks : task[t].state = "absent" \/ task[t].chat => \A c \in ToolCalls : tool[t][c] = "absent"

StoreRows == RowTypes /\ Placed /\ ChatUntooled

StoreInv == StoreRows /\ Ledger!IInv

(* A record read earlier: of the current revision, it is the current one.  *)
Snap(old, now) == old.rev <= now.rev /\ (old.rev = now.rev => old = now)

PendingCalls(t) == {c \in ToolCalls : tool[t][c] = "pending"}

(* The assignment of a request that was admitted has been acknowledged, or *)
(* the request has lost its lease.                                         *)
Acknowledged(r) ==
    request[r].state # "absent" /\ \A t \in Tasks : task[t].lease = r => task[t].state # "leased"

AttemptFields ==
    {"pc", "input", "pass", "tid", "plan", "worker", "task", "req", "victim", "results", "reply"}

AdmitPcs ==
    {"idle", "replay", "scan", "recheck", "add", "read", "clear", "locate", "plan", "commit", "install",
     "reconcile", "quarantine", "done"}

(* What an Admit call rebuilds a request from.                             *)
RebuildOK(x) ==
    /\ x.req \in RequestRows /\ x.task \in TaskRows
    /\ x.req.state = "open" /\ x.req.task \in Tasks
    /\ request[x.input.key].state # "absent" /\ request[x.input.key].task = x.req.task
    /\ Snap(x.req, request[x.input.key]) /\ Snap(x.task, task[x.req.task])
    /\ x.task.state # "leased" => Acknowledged(x.input.key)

(* What an Admit call has planned to commit.                               *)
PlanOK(x) ==
    /\ x.plan \in {"new", "continue", "preempt"} /\ x.task \in TaskRows /\ x.worker \in Workers
    /\ x.plan # "preempt" => x.victim = None
    /\ x.plan # "continue" => x.results = {}
    /\ x.plan # "new" => x.worker = x.task.owner /\ Snap(x.task, task[x.tid])
    /\ x.plan = "continue" =>
         x.task.state \in IdleStates /\ (x.task.rev = task[x.tid].rev => x.results = PendingCalls(x.tid))
    /\ x.plan = "preempt" =>
         /\ x.task.state \in ActiveStates
         /\ x.victim \in Requests /\ x.req \in RequestRows /\ Snap(x.req, request[x.victim])

AttemptOK(x) ==
    /\ DOMAIN x = AttemptFields /\ x.pc \in AdmitPcs
    /\ x.pc # "idle" => x.input \in Inputs
    /\ x.pc \in {"plan", "commit"} => x.tid \in Tasks
    /\ x.pc \in {"scan", "add", "quarantine"} => RebuildOK(x)
    /\ x.pc = "commit" => PlanOK(x)
    /\ x.pc = "install" => request[x.input.key].state # "absent"

OpFields == {"pc", "r", "event", "task", "req", "result"}

OpPcs == {"idle", "ackunknown", "acked", "load", "txn", "unknown", "settle", "done"}

(* The events of a worker are its own; the sweep's have the sweep's id.    *)
EventOf(c, event) ==
    /\ event \in Ledger!Events
    /\ IF c = Expiry THEN event.id = Expiry ELSE event.id \in EventIDs /\ event.worker = c

(* What an event was planned on.                                           *)
EventPlanOK(y) ==
    /\ y.req \in RequestRows /\ y.task \in TaskRows
    /\ y.req.state = "open" /\ y.req.task \in Tasks
    /\ Snap(y.req, request[y.r]) /\ Snap(y.task, task[y.req.task])
    /\ EventAllowed(y.event.kind, y.task.state)

(* The outcome a worker is told, or is going to be told.                   *)
Applied(y) == y.pc = "settle" \/ (y.pc = "done" /\ y.result = "acked")
Refused(y) == y.pc = "load" \/ (y.pc = "done" /\ y.result \notin {"acked", "failed"})

OpOK(c, y) ==
    /\ DOMAIN y = OpFields /\ y.pc \in OpPcs
    /\ y.pc # "idle" => y.r \in Requests /\ request[y.r].state # "absent"
    /\ y.event # None => EventOf(c, y.event)
    /\ y.pc \in {"load", "txn", "unknown", "settle"} => y.event # None
    /\ y.pc \in {"acked", "ackunknown"} => y.event = None
    /\ y.pc = "acked" => Acknowledged(y.r)
    /\ y.event # None /\ Applied(y) => y.event \in receipt[y.r]
    /\ y.event # None /\ Refused(y) /\ c # Expiry => y.event \notin receipt[y.r]
    /\ y.pc = "txn" => EventPlanOK(y)

HandlersInv ==
    /\ DOMAIN adm = Attempts /\ \A a \in Attempts : AttemptOK(adm[a])
    /\ DOMAIN op = Workers \cup {Expiry} /\ \A c \in Workers \cup {Expiry} : OpOK(c, op[c])

MemoryInv ==
    /\ assigned \subseteq Requests /\ \A r \in assigned : request[r].state # "absent"
    /\ pending \subseteq assigned
    /\ DOMAIN conn = Workers /\ DOMAIN sent = Workers /\ DOMAIN acked = Workers
    /\ \A w \in Workers : sent[w] \cup acked[w] # {} \/ op[w].pc # "idle" => conn[w]
    /\ detaching \subseteq Requests
    /\ detached \in [Tasks -> Requests \cup {None}]
    /\ faults \in 0..MaxFaults /\ crashes \in 0..MaxCrashes
    /\ DeliverableUntilAcked

ServiceInv == StoreInv /\ HandlersInv /\ MemoryInv

-----------------------------------------------------------------------------
(* What a step of the service does, as its callers and workers see it.     *)

(* What becomes of a request that was admitted: until retention drops it,  *)
(* its response is only extended, and not even that once it is closed.     *)
Grown(old, now) ==
    /\ now.state # "absent" /\ now.mode = old.mode /\ (old.pruned => now.pruned)
    /\ ~now.pruned =>
         /\ Len(old.log) <= Len(now.log) /\ \A i \in 1..Len(old.log) : now.log[i] = old.log[i]
         /\ old.state = "closed" =>
              now.state = "closed" /\ now.log = old.log /\ now.decision = old.decision

(* What every step of the service keeps of the responses.                  *)
Grows ==
    /\ RowTypes'
    /\ \A r \in Requests : request[r].state # "absent" => Grown(request[r], request'[r])

(* The service is at work on an event.                                     *)
Busy(y) == y.pc # "idle" /\ y.event # None

(* What a step of the service may add to the receipts: of this worker, the *)
(* event it is at work on.                                                 *)
Adds(w, y, rec, new) ==
    \A r \in Requests :
        /\ rec[r] \subseteq new[r]
        /\ \A e \in new[r] \ rec[r] : e.worker = w /\ e.id # Expiry => Busy(y) /\ y.r = r /\ y.event = e

(* A function that changes at one argument at most.                        *)
Moves(f, g, w, e) == DOMAIN g = DOMAIN f /\ g[w] = e /\ \A v \in DOMAIN f : v # w => g[v] = f[v]

ServiceFns == DOMAIN conn = Workers /\ DOMAIN op = Workers \cup {Expiry}

(* A step of the service, seen from a worker: its connection stays, and so *)
(* does its call but for where it is.                                      *)
Quiet ==
    /\ conn' = conn
    /\ \A w \in Workers :
         /\ op'[w].r = op[w].r /\ op'[w].event = op[w].event /\ (op'[w].pc = "idle" <=> op[w].pc = "idle")
         /\ Adds(w, op[w], receipt, receipt')

(* No task comes before its human.                                         *)
NotAcked == \A t \in Tasks : task'[t].state = "awaiting_human" => task'[t] = task[t]

(* A leased task and its open request name each other, and a worker.       *)
Leases ==
    /\ \A t \in Tasks : task[t].state \in ActiveStates => request[task[t].lease].state = "open" /\ task[t].owner \in Workers
    /\ \A r \in Requests : request[r].state = "open" =>
         request[r].task \in Tasks /\ task[request[r].task].lease = r
    /\ \A t \in Tasks : task[t].state \in ActiveStates => task[t].lease \in Requests /\ request[task[t].lease].task = t

(* A call that failed closes the connection as it returns.                 *)
FailedReply(w) ==
    /\ OpAt(w, "done")
    /\ op' = [op EXCEPT ![w] = NoOp]
    /\ conn' = [conn EXCEPT ![w] = FALSE]
    /\ sent' = [sent EXCEPT ![w] = {}]
    /\ acked' = [acked EXCEPT ![w] = {}]
    /\ UNCHANGED <<store, up, assigned, pending, detached, adm, detaching, bounds>>
=============================================================================
