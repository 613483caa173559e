----------------------------- MODULE AgentLedger -----------------------------
(***************************************************************************)
(* The HumanAgent core (package agent): tasks that workers take under      *)
(* fenced leases, answer, and deliver with an immutable Artifact whose     *)
(* application to the caller's workspace is receipted.  Every command is   *)
(* one Store transaction.  It is executed once under its command id and    *)
(* replayed from its command record ever after, so that a caller whose     *)
(* answer was lost, or whose commit is unknown, can simply ask again.      *)
(* Callers and workers are not trusted to be up to date: a command carries *)
(* whatever revision, grant and base its sender has last seen.             *)
(*                                                                         *)
(* One authority is modelled; authorities share nothing.                   *)
(***************************************************************************)
EXTENDS Integers, Sequences

CONSTANTS
    Tasks,        \* TaskRef
    Workspaces,   \* WorkspaceRef
    WorkspaceOf,  \* the workspace part of a TaskRef
    Workers,      \* WorkerID
    Artifacts,    \* ArtifactID
    Bases,        \* workspace revisions no Artifact led to
    IDs,          \* command, message, submission and receipt ids
    Commands,     \* the commands that callers and workers may issue
    Watched,      \* the command ids whose answers are remembered
    MaxInt64,     \* math.MaxInt64, the last value of a counter
    None          \* no value

Revisions == Seq(Bases \cup Artifacts)

Decisions == {"success", "conflict", "rejected", "indeterminate"}

Kinds ==
    {"create_task", "accept_task", "reject_task", "request_input", "reply_task", "cancel_task",
     "fail_task", "complete_task", "freeze_artifact", "record_apply_receipt",
     "acquire_lease", "claim_lease", "fence_lease"}

(* A command as its intent digest distinguishes it.  ident is the id of    *)
(* the message, submission or receipt it brings.                           *)
CommandRecords ==
    [id: IDs, kind: Kinds, task: Tasks, worker: Workers, fence: Nat, revision: Nat,
     ident: IDs, artifact: Artifacts \cup {None}, base: Revisions, decision: Decisions]

TaskStates ==
    {"submitted", "working", "input_required", "completed", "rejected", "canceled", "failed"}

TerminalStates == {"completed", "rejected", "canceled", "failed"}

TaskRecords ==
    [state: TaskStates \cup {"absent"}, revision: 0..MaxInt64, messages: 0..MaxInt64,
     owner: Workers \cup {None}, fence: 0..MaxInt64, artifact: Artifacts \cup {None},
     fate: {"none", "frozen", "published", "discarded"}, submission: IDs \cup {None}]

ArtifactRecords ==
    [state: {"absent", "frozen", "published", "discarded"}, task: Tasks \cup {None},
     base: Revisions]

EventRecords == [kind: Kinds, by: IDs, fence: Nat, message: IDs \cup {None}]

GrantRecords == [worker: Workers, by: IDs]

ReceiptRecords == [id: IDs \cup {None}, decision: Decisions \cup {"none"}]

(* A command record: the intent, and the task or the receipt it left.      *)
Outcomes == [intent: CommandRecords, task: Tasks, result: TaskRecords \cup ReceiptRecords]

ASSUME AgentAssumption ==
    /\ WorkspaceOf \in [Tasks -> Workspaces]
    /\ Commands \subseteq CommandRecords
    /\ MaxInt64 \in Nat \ {0}
    /\ None \notin Tasks \cup Workers \cup Artifacts \cup IDs \cup Outcomes

VARIABLES
    task,      \* StoreTaskRecord of every task
    event,     \* the events of every task, in sequence
    grant,     \* the lease grants of every task, by fence
    artifact,  \* StoreArtifactRecord of every Artifact
    head,      \* the confirmed revision of every workspace
    origin,    \* the revision a workspace's head was initialized with
    receipt,   \* StoreApplyReceiptRecord of every Artifact
    command,   \* StoreCommandRecord of every command id
    answered   \* the answers that reached whoever asked, of watched commands

store == <<task, event, grant, artifact, head, origin, receipt>>

vars == <<store, command, answered>>

NoTask ==
    [state |-> "absent", revision |-> 0, messages |-> 0, owner |-> None, fence |-> 0,
     artifact |-> None, fate |-> "none", submission |-> None]

NoArtifact == [state |-> "absent", task |-> None, base |-> <<>>]

NoReceipt == [id |-> None, decision |-> "none"]

Init ==
    /\ task = [t \in Tasks |-> NoTask]
    /\ event = [t \in Tasks |-> <<>>]
    /\ grant = [t \in Tasks |-> <<>>]
    /\ artifact = [x \in Artifacts |-> NoArtifact]
    /\ head = [ws \in Workspaces |-> <<>>]
    /\ origin = [ws \in Workspaces |-> <<>>]
    /\ receipt = [x \in Artifacts |-> NoReceipt]
    /\ command = [id \in IDs |-> None]
    /\ answered = {}
-----------------------------------------------------------------------------
(* What the transitions do; allowed holds no terminal state.               *)
Change ==
    [accept_task   |-> [allowed |-> {"submitted"}, next |-> "working"],
     reject_task   |-> [allowed |-> {"submitted"}, next |-> "rejected"],
     request_input |-> [allowed |-> {"working"}, next |-> "input_required"],
     reply_task    |-> [allowed |-> {"input_required"}, next |-> "working"],
     cancel_task   |-> [allowed |-> {"submitted", "working", "input_required"}, next |-> "canceled"],
     fail_task     |-> [allowed |-> {"working", "input_required"}, next |-> "failed"],
     complete_task |-> [allowed |-> {"working"}, next |-> "completed"]]

WorkerKinds ==
    {"accept_task", "reject_task", "request_input", "fail_task", "complete_task", "freeze_artifact"}

MessageKinds == {"create_task", "request_input", "reply_task", "complete_task"}

(* A counter that can still be incremented.                                *)
Countable(n) == n < MaxInt64

(* An event as ReadEvents shows it, with the command and grant behind it.  *)
EventOf(c) ==
    [kind |-> c.kind, by |-> c.id, fence |-> IF c.kind \in WorkerKinds THEN c.fence ELSE 0,
     message |-> IF c.kind \in MessageKinds THEN c.ident ELSE None]

(* Message ids are unique within an authority, and so are submission ids.  *)
FreshMessage(c) == \A t \in Tasks : \A i \in 1..Len(event[t]) : event[t][i].message # c.ident

FreshSubmission(c) == \A t \in Tasks : task[t].submission # c.ident

\* mutant: a grant counts as long as it is in the history
LeaseInHistory(c) ==
    /\ c.fence \in 1..Len(grant[c.task])
    /\ grant[c.task][c.fence].worker = c.worker

(* requireCurrentLease: the grant exists and is the task's current one.    *)
CurrentLease(c) ==
    /\ c.fence \in 1..Len(grant[c.task])
    /\ grant[c.task][c.fence].worker = c.worker
    /\ task[c.task].owner = c.worker
    /\ task[c.task].fence = c.fence

Submitted ==
    [state |-> "submitted", revision |-> 1, messages |-> 1, owner |-> None, fence |-> 0,
     artifact |-> None, fate |-> "none", submission |-> None]

CreateTask(c) ==
    /\ c.kind = "create_task"
    /\ task[c.task].state = "absent"
    /\ FreshMessage(c)
    /\ task' = [task EXCEPT ![c.task] = Submitted]
    /\ event' = [event EXCEPT ![c.task] = <<EventOf(c)>>]
    /\ UNCHANGED <<grant, artifact, head, origin, receipt>>

(* What becomes of the task's Artifact.                                    *)
Fate(kind, fate) ==
    IF kind = "complete_task" /\ fate = "frozen" THEN "published"
    ELSE IF kind \in {"cancel_task", "fail_task"} /\ fate = "frozen" THEN "discarded"
    ELSE fate

Decided(rec, kind) == [rec EXCEPT !.state = Fate(kind, @)]

(* The task after a transition, and without its lease after the last one.  *)
AdvancedKeepsLease(rec, c) ==
    [rec EXCEPT !.state = Change[c.kind].next, !.revision = @ + 1,
                !.messages = IF c.kind \in MessageKinds THEN @ + 1 ELSE @,
                !.fate = Fate(c.kind, @),
                !.submission = IF c.kind = "complete_task" THEN c.ident ELSE @]

Advanced(rec, c) ==
    [AdvancedKeepsLease(rec, c) EXCEPT
        !.owner = IF Change[c.kind].next \in TerminalStates THEN None ELSE @]

(* The task's state machine.  A completion publishes exactly the Artifact  *)
(* that was frozen.                                                        *)
TransitionTask(c) ==
    LET now == task[c.task]
    IN  /\ c.kind \in DOMAIN Change
        /\ now.state # "absent"
        /\ c.kind \in WorkerKinds => CurrentLease(c)
        /\ now.revision = c.revision
        /\ now.state \in Change[c.kind].allowed
        /\ Countable(now.revision)
        /\ c.kind \in MessageKinds => FreshMessage(c)
        /\ c.kind = "complete_task" => c.artifact = now.artifact /\ FreshSubmission(c)
        /\ task' = [task EXCEPT ![c.task] = Advanced(@, c)]
        /\ event' = [event EXCEPT ![c.task] = Append(@, EventOf(c))]
        /\ artifact' = [x \in Artifacts |->
             IF x = now.artifact THEN Decided(artifact[x], c.kind) ELSE artifact[x]]
        /\ UNCHANGED <<grant, head, origin, receipt>>

\* mutant: a finished task can be leased
LeasableForever(t) == task[t].state \in TaskStates /\ task[t].owner = None

(* An unfinished task without an owner can be leased.                      *)
Leasable(t) == task[t].state \in TaskStates \ TerminalStates /\ task[t].owner = None

LeasedTo(rec, w) == [rec EXCEPT !.owner = w, !.fence = @ + 1]

(* It is leased under the next fence.                                      *)
GrantLease(c, t) ==
    /\ Leasable(t)
    /\ Countable(task[t].fence)
    /\ task' = [task EXCEPT ![t] = LeasedTo(@, c.worker)]
    /\ grant' = [grant EXCEPT ![t] = Append(@, [worker |-> c.worker, by |-> c.id])]
    /\ UNCHANGED <<event, artifact, head, origin, receipt>>

AcquireLease(c) == c.kind = "acquire_lease" /\ GrantLease(c, c.task)

(* Which claimable task is the oldest depends on the clock.                *)
ClaimLease(c) == c.kind = "claim_lease" /\ \E t \in Tasks : GrantLease(c, t)

(* The owner goes, the fence stays.                                        *)
Released(rec) == [rec EXCEPT !.owner = None]

FenceLease(c) ==
    /\ c.kind = "fence_lease"
    /\ CurrentLease(c)
    /\ task' = [task EXCEPT ![c.task] = Released(@)]
    /\ UNCHANGED <<event, grant, artifact, head, origin, receipt>>

(* A workspace's head is initialized by the first base it is given.        *)
HeadAdmits(ws, base) == head[ws] \in {<<>>, base}

NextRevision(base, x) == Append(base, x)

WithArtifact(rec, x) == [rec EXCEPT !.revision = @ + 1, !.artifact = x, !.fate = "frozen"]

FreezeArtifact(c) ==
    LET now == task[c.task]
        ws == WorkspaceOf[c.task]
    IN  /\ c.kind = "freeze_artifact"
        /\ CurrentLease(c)
        /\ now.revision = c.revision
        /\ now.state = "working"
        /\ now.artifact = None
        /\ Countable(now.revision)
        /\ HeadAdmits(ws, c.base)
        /\ c.base # <<>>
        /\ c.artifact # None
        /\ artifact[c.artifact].state = "absent"
        /\ head' = [head EXCEPT ![ws] = c.base]
        /\ origin' = [origin EXCEPT ![ws] = IF head[ws] = <<>> THEN c.base ELSE @]
        /\ artifact' = [artifact EXCEPT ![c.artifact] =
             [state |-> "frozen", task |-> c.task, base |-> c.base]]
        /\ task' = [task EXCEPT ![c.task] = WithArtifact(@, c.artifact)]
        /\ event' = [event EXCEPT ![c.task] = Append(@, EventOf(c))]
        /\ UNCHANGED <<grant, receipt>>

ReceiptOf(c) == [id |-> c.ident, decision |-> c.decision]

FreshReceipt(c) == \A x \in Artifacts : receipt[x].id # c.ident

Undecided(x) == receipt[x] = NoReceipt

\* mutant: a success receipt advances the head without comparing its base
AdvanceHeadBlindly(ws, base, x) == head' = [head EXCEPT ![ws] = NextRevision(base, x)]

(* CompareAndSwapWorkspaceHead                                             *)
AdvanceHead(ws, base, x) ==
    /\ head[ws] = base
    /\ head' = [head EXCEPT ![ws] = NextRevision(base, x)]

(* What the caller's own apply journal decided about a published Artifact: *)
(* decided once, and success only if the base is still confirmed.          *)
RecordApplyReceipt(c) ==
    LET x == c.artifact
        ws == WorkspaceOf[artifact[x].task]
    IN  /\ c.kind = "record_apply_receipt"
        /\ x # None
        /\ artifact[x].state = "published"
        /\ artifact[x].base = c.base
        /\ \/ receipt[x] = ReceiptOf(c) /\ UNCHANGED <<receipt, head>>
           \/ /\ Undecided(x)
              /\ FreshReceipt(c)
              /\ IF c.decision = "success" THEN AdvanceHead(ws, c.base, x) ELSE UNCHANGED head
              /\ receipt' = [receipt EXCEPT ![x] = ReceiptOf(c)]
        /\ UNCHANGED <<task, event, grant, artifact, origin>>

Execute(c) ==
    \/ CreateTask(c) \/ TransitionTask(c) \/ FreezeArtifact(c) \/ RecordApplyReceipt(c)
    \/ AcquireLease(c) \/ ClaimLease(c) \/ FenceLease(c)

(* The result a command records: the task as it left it, or the receipt it *)
(* brought.  A claim's names the task it found.                            *)
Outcome(c) ==
    LET t == IF c.kind = "claim_lease" THEN CHOOSE u \in Tasks : grant'[u] # grant[u] ELSE c.task
    IN  [intent |-> c, task |-> t,
         result |-> IF c.kind = "record_apply_receipt" THEN ReceiptOf(c) ELSE task'[t]]

Unused(c) == command[c.id] = None

Answer(outcome) ==
    answered' = IF outcome.intent.id \in Watched THEN answered \cup {outcome} ELSE answered

(* A command under a new id is executed and recorded in one transaction.   *)
(* Its answer may be lost: the connection breaks or the commit is unknown. *)
Perform(c) ==
    /\ Unused(c)
    /\ Execute(c)
    /\ command' = [command EXCEPT ![c.id] = Outcome(c)]
    /\ \/ UNCHANGED answered
       \/ Answer(command'[c.id])

(* A known id is answered from its record if the intent is the same, and   *)
(* refused otherwise.                                                      *)
Replay(c) ==
    /\ command[c.id] # None
    /\ command[c.id].intent = c
    /\ Answer(command[c.id])
    /\ UNCHANGED <<store, command>>

Next == \E c \in Commands : Perform(c) \/ Replay(c)

Spec == Init /\ [][Next]_vars
-----------------------------------------------------------------------------
(* The records have the shapes their Go types give them; no counter leaves *)
(* the int64 range of the store (the MaxInt64 guards of transition,        *)
(* FreezeArtifact, AcquireLease and ClaimLease).                           *)
TypeOK ==
    /\ task \in [Tasks -> TaskRecords]
    /\ event \in [Tasks -> Seq(EventRecords)]
    /\ grant \in [Tasks -> Seq(GrantRecords)]
    /\ artifact \in [Artifacts -> ArtifactRecords]
    /\ head \in [Workspaces -> Revisions]
    /\ origin \in [Workspaces -> Revisions]
    /\ receipt \in [Artifacts -> ReceiptRecords]
    /\ command \in [IDs -> Outcomes \cup {None}]

(* The lease pointer of a task is the head of its immutable grant history, *)
(* and only an unfinished task has an owner: what                          *)
(* validateLeaseHistoryHeadFromStore and validateStoreTaskRecord report as *)
(* a corrupt store otherwise.                                              *)
LeaseHeadsHistory ==
    \A t \in Tasks :
        /\ task[t].fence = Len(grant[t])
        /\ task[t].owner # None =>
             /\ task[t].fence # 0
             /\ task[t].owner = grant[t][task[t].fence].worker
             /\ task[t].state \in TaskStates \ TerminalStates

CountersAgree(t) ==
    /\ task[t].revision = Len(event[t])
    /\ task[t].messages <= task[t].revision
    /\ (task[t].state = "completed") <=> (task[t].submission # None)

ArtifactAgrees(t) ==
    LET now == task[t]
    IN  /\ (now.artifact = None) <=> (now.fate = "none")
        /\ now.fate = "frozen" => now.state \in {"working", "input_required"}
        /\ now.fate = "published" => now.state = "completed"
        /\ now.fate = "discarded" => now.state \in {"canceled", "failed"}
        /\ now.artifact # None => artifact[now.artifact].task = t
        /\ \A x \in Artifacts : artifact[x].task = t =>
             x = now.artifact /\ artifact[x].state = now.fate

(* The counters of a task count its events, and its Artifact is frozen     *)
(* while it is under way, published if it was completed and discarded if   *)
(* it was canceled or failed; the Artifact's own record agrees             *)
(* (validateStoredTask, validateStoreTaskRecord).                          *)
RecordsAgree == \A t \in Tasks : CountersAgree(t) /\ ArtifactAgrees(t)

(* Fencing: the events of a task never go back to a retired grant.  Once a *)
(* later grant has acted, nothing a former owner still sends is accepted,  *)
(* even when the same worker reconnects (FenceLease's comment).            *)
FencedOut ==
    \A t \in Tasks : \A i, j \in 1..Len(event[t]) :
        LET earlier == event[t][i]
            later == event[t][j]
        IN  i < j /\ earlier.kind \in WorkerKinds /\ later.kind \in WorkerKinds =>
              earlier.fence <= later.fence

Recorded(id, t) == command[id] # None /\ command[id].task = t

TracedOnce(t) ==
    /\ \A i \in 1..Len(event[t]) :
         /\ Recorded(event[t][i].by, t)
         /\ \A j \in 1..Len(event[t]) : event[t][i].by = event[t][j].by => i = j
         /\ \A j \in 1..Len(grant[t]) : event[t][i].by # grant[t][j].by
    /\ \A i \in 1..Len(grant[t]) :
         /\ Recorded(grant[t][i].by, t)
         /\ \A j \in 1..Len(grant[t]) : grant[t][i].by = grant[t][j].by => i = j

(* A command is executed at most once, however often it is sent: no two    *)
(* events or grants come from one command id, and each stands in its       *)
(* command record (replayJSONCommandFromStore).                            *)
ExecutedOnce == \A t \in Tasks : TracedOnce(t)

(* Every answer to a command is the same, before and after a retry and     *)
(* whatever happened to the task since.                                    *)
AnswersAgree ==
    \A a, b \in answered : a.intent.id = b.intent.id => a = b

(* A workspace moves along one chain: its confirmed head is its first base *)
(* and then exactly the Artifacts received with success, each once and     *)
(* each made for the revision before it (RecordApplyReceipt's compare and  *)
(* swap, FreezeArtifact's base).                                           *)
OneChain ==
    /\ \A ws \in Workspaces :
         /\ Len(origin[ws]) <= Len(head[ws])
         /\ origin[ws] = SubSeq(head[ws], 1, Len(origin[ws]))
         /\ \A i \in Len(origin[ws]) + 1 .. Len(head[ws]) :
              LET x == head[ws][i]
              IN  /\ x \in Artifacts
                  /\ receipt[x].decision = "success"
                  /\ artifact[x].base = SubSeq(head[ws], 1, i - 1)
                  /\ WorkspaceOf[artifact[x].task] = ws
    /\ \A x \in Artifacts : receipt[x].decision = "success" =>
         LET ws == WorkspaceOf[artifact[x].task]
         IN  /\ artifact[x].state = "published"
             /\ \E i \in Len(origin[ws]) + 1 .. Len(head[ws]) : head[ws][i] = x

(* A step that leaves finished tasks and decided Artifacts alone.          *)
FinalStep ==
    /\ \A t \in Tasks : task[t].state \in TerminalStates =>
         task'[t] = task[t] /\ event'[t] = event[t] /\ grant'[t] = grant[t]
    /\ \A x \in Artifacts :
         /\ artifact[x].state \in {"published", "discarded"} => artifact'[x] = artifact[x]
         /\ receipt[x] # NoReceipt => receipt'[x] = receipt[x]

(* A finished task is final: its record, its events and its grants never   *)
(* change, and neither does a decided Artifact or its receipt: transition  *)
(* and AcquireLease refuse terminal states, RecordApplyReceipt a second    *)
(* decision.                                                               *)
TasksFinal == [][FinalStep]_vars

(* Every command takes effect at most once and under the current grant, is *)
(* always answered alike, and leaves records that agree with each other.   *)
CommandsAreSound ==
    TypeOK /\ LeaseHeadsHistory /\ RecordsAgree /\ FencedOut /\ ExecutedOnce /\ AnswersAgree
=============================================================================
