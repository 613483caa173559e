------------------------ MODULE LLMServiceStoreProofs -----------------------
(***************************************************************************)
(* What the transactions of LLMService do to the Store: each is a step of  *)
(* LLMLedger on the records the service keeps, moves revisions forward, and *)
(* opens no second task for a session.                                     *)
(***************************************************************************)
EXTENDS LLMServiceInv, TLAPS

-----------------------------------------------------------------------------
(* The ledger's view of the records.                                       *)

(* The ledger's names for what both modules take from LLMEvents.           *)
LEMMA SameWords ==
    /\ Ledger!ActiveStates = ActiveStates /\ Ledger!IdleStates = IdleStates /\ Ledger!TerminalStates = TerminalStates
    /\ Ledger!TaskStates = TaskStates /\ Ledger!Modes = Modes /\ Ledger!Statuses = Statuses /\ Ledger!Kinds = Kinds
BY Zenon DEF Ledger!ActiveStates, ActiveStates, Ledger!IdleStates, IdleStates, Ledger!TerminalStates, TerminalStates, Ledger!TaskStates,
       TaskStates, Ledger!Modes, Modes, Ledger!Statuses, Statuses, Ledger!Kinds, Kinds

(* What the ledger's invariant says of the service's records.              *)
LEMMA LedgerFacts ==
    ASSUME StoreInv
    PROVE  /\ receipt \in [Requests -> SUBSET Ledger!Events]
           /\ tool \in [Tasks -> [ToolCalls -> {"absent", "pending", "completed", "pruned"}]]
           /\ \A t \in Tasks : task[t].state \in ActiveStates =>
                /\ task[t].lease \in Requests /\ request[task[t].lease].state = "open"
                /\ request[task[t].lease].task = t
           /\ \A r \in Requests : request[r].state = "open" =>
                /\ request[r].task \in Tasks /\ task[request[r].task].state \in ActiveStates
                /\ task[request[r].task].lease = r
           /\ \A r \in Requests : request[r].state # "closed" => \A e \in receipt[r] : ~EndsResponse(e.kind)
           /\ \A t \in Tasks : (\E c \in ToolCalls : tool[t][c] = "pending") <=> task[t].state = "awaiting_results"
<1>1. /\ receipt \in [Requests -> SUBSET Ledger!Events]
      /\ tool \in [Tasks -> [ToolCalls -> {"absent", "pending", "completed", "pruned"}]]
  BY Zenon DEF StoreInv, StoreRows, Ledger!IInv, Ledger!TypeOK
<1>2. /\ \A t \in Tasks : LedgerTask[t].state = task[t].state /\ LedgerTask[t].lease = task[t].lease
      /\ \A r \in Requests : LedgerRequest[r].state = request[r].state /\ LedgerRequest[r].task = request[r].task
  BY Zenon DEF LedgerTask, LedgerRequest
<1>3. /\ \A t \in Tasks : task[t].state \in ActiveStates =>
           /\ task[t].lease \in Requests /\ request[task[t].lease].state = "open"
           /\ request[task[t].lease].task = t
      /\ \A r \in Requests : request[r].state = "open" =>
           /\ request[r].task \in Tasks /\ task[request[r].task].state \in ActiveStates
           /\ task[request[r].task].lease = r
  BY <1>2, SameWords DEF StoreInv, StoreRows, Ledger!IInv, Ledger!LeaseNamesOpenRequest
<1>4. \A r \in Requests : request[r].state # "closed" => \A e \in receipt[r] : ~EndsResponse(e.kind)
  BY <1>2, Zenon DEF StoreInv, StoreRows, Ledger!IInv, Ledger!AnsweredAtMostOnce, Ledger!EndsResponse, EndsResponse
<1>5. \A t \in Tasks : (\E c \in ToolCalls : tool[t][c] = "pending") <=> task[t].state = "awaiting_results"
  BY <1>2, Zenon DEF StoreInv, StoreRows, Ledger!IInv, Ledger!PendingToolsAwaited
<1> QED
  BY <1>1, <1>3, <1>4, <1>5, Zenon

LTask(row) == [state |-> row.state, owner |-> row.owner, lease |-> row.lease, chat |-> row.chat]

LRequest(row) ==
    [state |-> row.state, task |-> row.task, mode |-> row.mode, decision |-> row.decision,
     quarantined |-> row.quarantined, pruned |-> row.pruned, log |-> row.log]

(* Rewriting a record rewrites the ledger's.                               *)
LEMMA MapTask ==
    ASSUME RowTypes, NEW t \in Tasks, NEW row, task' = [task EXCEPT ![t] = row]
    PROVE  LedgerTask' = [LedgerTask EXCEPT ![t] = LTask(row)]
BY Zenon DEF RowTypes, LedgerTask, LTask

(* Rewriting a request rewrites the ledger's.                              *)
LEMMA MapRequest ==
    ASSUME RowTypes, NEW r \in Requests, NEW row, request' = [request EXCEPT ![r] = row]
    PROVE  LedgerRequest' = [LedgerRequest EXCEPT ![r] = LRequest(row)]
BY Zenon DEF RowTypes, LedgerRequest, LRequest

(* A record left alone is left alone in the ledger.                        *)
LEMMA MapSame ==
    /\ task' = task => LedgerTask' = LedgerTask
    /\ request' = request => LedgerRequest' = LedgerRequest
BY Zenon DEF LedgerTask, LedgerRequest

(* An assignment is acknowledged.                                          *)
LEMMA AckImplements ==
    ASSUME RowTypes, NEW t \in Tasks, task[t].state = "leased", AckTxn(t)
    PROVE  Ledger!Next
<1>1. task' = [task EXCEPT ![t] = [task[t] EXCEPT !.state = "awaiting_human", !.rev = task[t].rev + 1]]
  BY Zenon DEF AckTxn
<1>2. PICK row : row = [task[t] EXCEPT !.state = "awaiting_human", !.rev = task[t].rev + 1]
  BY Zenon
<1>3. row.state = "awaiting_human" /\ row.owner = task[t].owner /\ row.lease = task[t].lease /\ row.chat = task[t].chat
  BY <1>2, Zenon DEF RowTypes, TaskRows
<1>4. LTask(row) = Ledger!InState(LedgerTask[t], "awaiting_human") /\ LedgerTask[t].state = "leased"
  BY <1>3 DEF LTask, Ledger!InState, LedgerTask
<1>5. LedgerTask' = [LedgerTask EXCEPT ![t] = LTask(row)]
  BY <1>1, <1>2, MapTask, Zenon
<1>6. Ledger!AckAssignment(t)
  BY <1>4, <1>5, MapSame, Zenon DEF Ledger!AckAssignment, AckTxn
<1> QED
  BY <1>6, Zenon DEF Ledger!Next

(* How a step by c may change the Store: every rewritten record has a new  *)
(* revision, a task is leased again only for a key that was unused, and    *)
(* pending calls change only with their task.                              *)
StoreMoves(c) ==
    /\ \A r \in Requests :
         /\ request'[r] = request[r] \/ request'[r].rev > request[r].rev
         /\ request[r].state # "absent" => request'[r].state # "absent" /\ request'[r].task = request[r].task
         /\ receipt[r] \subseteq receipt'[r]
         /\ \A e \in receipt'[r] \ receipt[r] : EventOf(c, e)
    /\ \A t \in Tasks :
         /\ task'[t] = task[t] \/ task'[t].rev > task[t].rev
         /\ task'[t].rev = task[t].rev => PendingCalls(t)' = PendingCalls(t)
         /\ task'[t].state = "leased" => task'[t] = task[t] \/ request[task'[t].lease].state = "absent"

(* Only these requests may be open that were not.                          *)
Opens(keys) == \A r \in Requests : request'[r].state = "open" => request[r].state = "open" \/ r \in keys

(* The task is one its session's next request would continue.              *)
Continuable(row) == row.state \in ActiveStates \cup IdleStates /\ ~row.chat

(* No session gets a second open task.                                     *)
SessionsKept == OneOpenTaskPerSession => OneOpenTaskPerSession'

(* Tasks that only close, or stay what they are, leave sessions alone.     *)
LEMMA SessionsStay ==
    ASSUME \A t \in Tasks : Continuable(task'[t]) => Continuable(task[t]) /\ task'[t].affinity = task[t].affinity
    PROVE  SessionsKept
BY Zenon DEF SessionsKept, OneOpenTaskPerSession, OpenTasks, Continuable

(* All a step by c does to the Store when it admits the keys.              *)
StoreStep(c, keys) == StoreMoves(c) /\ Opens(keys) /\ SessionsKept

(* A Store that is left alone.                                             *)
LEMMA StoreStays ==
    ASSUME StoreInv, UNCHANGED store, NEW c
    PROVE  StoreRows' /\ StoreStep(c, {})
<1>1. task' = task /\ request' = request /\ receipt' = receipt /\ tool' = tool
  BY Zenon DEF store
<1>4. RowTypes' /\ Placed' /\ ChatUntooled'
  BY <1>1, Zenon DEF StoreInv, StoreRows, RowTypes, Placed, ChatUntooled
<1>5. StoreMoves(c) /\ Opens({})
  BY <1>1, Zenon DEF StoreMoves, PendingCalls, Opens
<1>6. SessionsKept
  BY <1>1, SessionsStay, Zenon
<1> QED
  BY <1>4, <1>5, <1>6, Zenon DEF StoreRows, StoreStep

(* A task record with another state.                                       *)
Moved(x, s) == [x EXCEPT !.state = s, !.rev = x.rev + 1]

(* A task moved to a state keeps its other fields.                         *)
LEMMA MovedRow ==
    ASSUME NEW x \in TaskRows, NEW s \in TaskStates
    PROVE  /\ Moved(x, s) \in TaskRows /\ x.rev \in Nat
           /\ Moved(x, s).state = s /\ Moved(x, s).rev = x.rev + 1
           /\ Moved(x, s).owner = x.owner /\ Moved(x, s).lease = x.lease
           /\ Moved(x, s).chat = x.chat /\ Moved(x, s).affinity = x.affinity
<1>1. x.rev \in Nat /\ x.rev + 1 \in Nat
  BY DEF TaskRows
<1>2. Moved(x, s) \in TaskRows
  BY <1>1, Zenon DEF TaskRows, Moved
<1>3. Moved(x, s).state = s /\ Moved(x, s).rev = x.rev + 1
  BY Zenon DEF TaskRows, Moved
<1>4. /\ Moved(x, s).owner = x.owner /\ Moved(x, s).lease = x.lease
      /\ Moved(x, s).chat = x.chat /\ Moved(x, s).affinity = x.affinity
  BY Zenon DEF TaskRows, Moved
<1> QED
  BY <1>1, <1>2, <1>3, <1>4, Zenon

(* A request record that is quarantined.                                   *)
QuarantinedRow(x) ==
    [x EXCEPT !.state = "closed", !.quarantined = TRUE, !.rev = x.rev + 1,
              !.decision = IF x.mode = "stream" THEN x.decision ELSE 500]

(* A quarantined request is closed, with its task and its log.             *)
LEMMA QuarantinedFacts ==
    ASSUME NEW x \in RequestRows
    PROVE  /\ QuarantinedRow(x) \in RequestRows /\ x.rev \in Nat
           /\ QuarantinedRow(x).state = "closed" /\ QuarantinedRow(x).task = x.task
           /\ QuarantinedRow(x).mode = x.mode /\ QuarantinedRow(x).quarantined = TRUE
           /\ QuarantinedRow(x).decision = (IF x.mode = "stream" THEN x.decision ELSE 500)
           /\ QuarantinedRow(x).pruned = x.pruned /\ QuarantinedRow(x).log = x.log
           /\ QuarantinedRow(x).rev = x.rev + 1
<1>1. x.rev \in Nat /\ x.rev + 1 \in Nat
  BY DEF RequestRows
<1>2. PICK d \in Statuses : d = IF x.mode = "stream" THEN x.decision ELSE 500
  BY DEF RequestRows, Statuses
<1>3. QuarantinedRow(x) = [x EXCEPT !.state = "closed", !.quarantined = TRUE, !.rev = x.rev + 1, !.decision = d]
  BY <1>2 DEF QuarantinedRow
<1>4. QuarantinedRow(x) \in RequestRows
  BY <1>1, <1>3, Zenon DEF RequestRows
<1>5. /\ QuarantinedRow(x).state = "closed" /\ QuarantinedRow(x).task = x.task
      /\ QuarantinedRow(x).mode = x.mode /\ QuarantinedRow(x).decision = d
  BY <1>3, Zenon DEF RequestRows
<1>6. /\ QuarantinedRow(x).pruned = x.pruned /\ QuarantinedRow(x).log = x.log
      /\ QuarantinedRow(x).rev = x.rev + 1
  BY <1>3, Zenon DEF RequestRows
<1>7. QuarantinedRow(x).quarantined = TRUE
  BY <1>3, Zenon DEF RequestRows
<1> QED
  BY <1>1, <1>2, <1>4, <1>5, <1>6, <1>7

(* The Store after an assignment is acknowledged.                          *)
LEMMA AckStore ==
    ASSUME StoreInv, NEW t \in Tasks, task[t].state = "leased", AckTxn(t), NEW c
    PROVE  StoreRows' /\ StoreStep(c, {}) /\ Ledger!Next
<1>1. RowTypes /\ Ledger!Next
  BY AckImplements, Zenon DEF StoreInv, StoreRows
<1>2. task' = [task EXCEPT ![t] = [task[t] EXCEPT !.state = "awaiting_human", !.rev = task[t].rev + 1]]
      /\ request' = request /\ receipt' = receipt /\ tool' = tool
  BY Zenon DEF AckTxn
<1>3. /\ task'[t] \in TaskRows /\ task'[t].state = "awaiting_human" /\ task'[t].owner = task[t].owner
      /\ task'[t].chat = task[t].chat /\ task'[t].rev = task[t].rev + 1 /\ task[t].rev \in Nat
      /\ task'[t].affinity = task[t].affinity
      /\ \A u \in Tasks \ {t} : task'[u] = task[u]
  <2>1. task[t] \in TaskRows /\ "awaiting_human" \in TaskStates
    BY <1>1, Zenon DEF RowTypes, TaskStates, ActiveStates
  <2>2. task'[t] = Moved(task[t], "awaiting_human") /\ \A u \in Tasks \ {t} : task'[u] = task[u]
    BY <1>1, <1>2, Zenon DEF RowTypes, Moved
  <2> QED
    BY <2>1, <2>2, MovedRow
<1>4. RowTypes'
  BY <1>1, <1>2, <1>3, Zenon DEF RowTypes
<1>5. Placed' /\ ChatUntooled'
  BY <1>2, <1>3 DEF StoreInv, StoreRows, Placed, ChatUntooled
<1>6. StoreMoves(c) /\ Opens({})
  BY <1>2, <1>3 DEF StoreMoves, PendingCalls, Opens
<1>7. SessionsKept
  BY <1>3, SessionsStay, Zenon DEF Continuable, ActiveStates
<1> QED
  BY <1>1, <1>4, <1>5, <1>6, <1>7, Zenon DEF StoreRows, StoreStep

(* A request that cannot be rebuilt is closed.                             *)
LEMMA QuarantineStore ==
    ASSUME StoreInv, NEW r \in Requests, request[r].state = "open",
           QuarantineTxn(r, request[r], task[request[r].task]), NEW c
    PROVE  StoreRows' /\ StoreStep(c, {}) /\ Ledger!Next
<1>1. RowTypes
  BY Zenon DEF StoreInv, StoreRows
<1>2. PICK t \in Tasks : t = request[r].task /\ task[t].state \in ActiveStates /\ task[t].lease = r
  BY LedgerFacts
<1>3. PICK row : row = QuarantinedRow(request[r])
  BY Zenon
<1>4. PICK held : held = Moved(task[t], "failed")
  BY Zenon
<1>5. /\ request' = [request EXCEPT ![r] = row] /\ task' = [task EXCEPT ![t] = held]
      /\ receipt' = receipt /\ tool' = tool
  BY <1>2, <1>3, <1>4 DEF QuarantineTxn, QuarantinedRow, Moved
<1>6. /\ row \in RequestRows /\ row.state = "closed" /\ row.task = t /\ row.mode = request[r].mode
      /\ row.decision = (IF request[r].mode = "stream" THEN request[r].decision ELSE 500)
      /\ row.quarantined = TRUE /\ row.pruned = request[r].pruned /\ row.log = request[r].log
      /\ row.rev = request[r].rev + 1 /\ request[r].rev \in Nat
  <2>1. request[r] \in RequestRows
    BY <1>1, Zenon DEF RowTypes
  <2>2. row.quarantined = TRUE
    BY <1>3, <2>1, QuarantinedFacts, Zenon
  <2>3. row.pruned = request[r].pruned
    BY <1>3, <2>1, QuarantinedFacts, Zenon
  <2>4. row.decision = (IF request[r].mode = "stream" THEN request[r].decision ELSE 500)
    BY <1>3, <2>1, QuarantinedFacts, ZenonT(30)
  <2>5. /\ row \in RequestRows /\ row.state = "closed" /\ row.task = t /\ row.mode = request[r].mode
        /\ row.log = request[r].log /\ row.rev = request[r].rev + 1 /\ request[r].rev \in Nat
    BY <1>2, <1>3, <2>1, QuarantinedFacts, ZenonT(30)
  <2> QED
    BY <2>2, <2>3, <2>4, <2>5, Zenon
<1>7. /\ held \in TaskRows /\ held.state = "failed" /\ held.owner = task[t].owner /\ held.lease = task[t].lease
      /\ held.chat = task[t].chat /\ held.rev = task[t].rev + 1 /\ task[t].rev \in Nat
  <2>1. task[t] \in TaskRows /\ "failed" \in TaskStates
    BY <1>1, Zenon DEF RowTypes, TaskStates, TerminalStates
  <2> QED
    BY <1>4, <2>1, MovedRow, Zenon
<1>8. /\ request'[r] = row /\ \A q \in Requests \ {r} : request'[q] = request[q]
      /\ task'[t] = held /\ \A u \in Tasks \ {t} : task'[u] = task[u]
  BY <1>1, <1>5, Zenon DEF RowTypes
<1>9. RowTypes'
  BY <1>1, <1>5, <1>6, <1>7, Zenon DEF RowTypes
<1>10. Placed' /\ ChatUntooled'
  BY <1>2, <1>5, <1>6, <1>7, <1>8 DEF StoreInv, StoreRows, Placed, ChatUntooled, ActiveStates
<1>11. StoreMoves(c) /\ Opens({}) /\ SessionsKept
  <2>1. StoreMoves(c) /\ Opens({})
    BY <1>2, <1>5, <1>6, <1>7, <1>8 DEF StoreMoves, PendingCalls, Opens
  <2>2. SessionsKept
    BY <1>7, <1>8, SessionsStay, Zenon DEF Continuable, ActiveStates, IdleStates
  <2> QED
    BY <2>1, <2>2, Zenon
<1>12. Ledger!Quarantine(r)
  <2>1. LedgerTask' = [LedgerTask EXCEPT ![t] = LTask(held)] /\ LedgerRequest' = [LedgerRequest EXCEPT ![r] = LRequest(row)]
    BY <1>1, <1>5, MapTask, MapRequest, Zenon
  <2>2. LTask(held) = Ledger!InState(LedgerTask[t], "failed")
    BY <1>7 DEF LTask, Ledger!InState, LedgerTask
  <2>3. LRequest(row) = Ledger!Quarantined(LedgerRequest[r])
    BY <1>2, <1>6, ZenonT(30) DEF LRequest, Ledger!Quarantined, LedgerRequest
  <2>4. LedgerRequest[r].task = t /\ LedgerRequest[r].state = "open"
    BY <1>2, Zenon DEF LedgerRequest
  <2> QED
    BY <1>5, <2>1, <2>2, <2>3, <2>4, Zenon DEF Ledger!Quarantine, Ledger!Unrecoverable
<1> QED
  BY <1>9, <1>10, <1>11, <1>12, Zenon DEF StoreRows, Ledger!Next, StoreStep

(* A request record without its payload.                                   *)
PrunedRow(x) == [x EXCEPT !.pruned = TRUE, !.log = <<>>, !.rev = x.rev + 1]

(* A pruned request keeps all but its log.                                 *)
LEMMA PrunedFacts ==
    ASSUME NEW x \in RequestRows
    PROVE  /\ PrunedRow(x) \in RequestRows /\ x.rev \in Nat
           /\ PrunedRow(x).state = x.state /\ PrunedRow(x).task = x.task
           /\ PrunedRow(x).mode = x.mode /\ PrunedRow(x).quarantined = x.quarantined
           /\ PrunedRow(x).decision = x.decision
           /\ PrunedRow(x).pruned = TRUE /\ PrunedRow(x).log = <<>>
           /\ PrunedRow(x).rev = x.rev + 1
<1>1. x.rev \in Nat /\ x.rev + 1 \in Nat
  BY DEF RequestRows
<1>2. <<>> \in Seq(Ledger!Events)
  OBVIOUS
<1>3. PrunedRow(x) \in RequestRows
  BY <1>1, <1>2, Zenon DEF RequestRows, PrunedRow
<1>4. /\ PrunedRow(x).state = x.state /\ PrunedRow(x).task = x.task
      /\ PrunedRow(x).mode = x.mode /\ PrunedRow(x).quarantined = x.quarantined
      /\ PrunedRow(x).decision = x.decision
  BY Zenon DEF RequestRows, PrunedRow
<1>5. PrunedRow(x).log = <<>> /\ PrunedRow(x).rev = x.rev + 1
  BY Zenon DEF RequestRows, PrunedRow
<1>6. PrunedRow(x).pruned = TRUE
  BY Zenon DEF RequestRows, PrunedRow
<1> QED
  BY <1>1, <1>3, <1>4, <1>5, <1>6, Zenon

(* The ledger's record without its payload.                                *)
LEMMA WithoutPayloadRecord ==
    ASSUME NEW x \in Ledger!RequestRecords
    PROVE  Ledger!WithoutPayload(x) =
             [state |-> x.state, task |-> x.task, mode |-> x.mode, decision |-> x.decision,
              quarantined |-> x.quarantined, pruned |-> TRUE, log |-> <<>>]
<1>1. PICK y : y = [x EXCEPT !.pruned = TRUE, !.log = <<>>]
  BY Zenon
<1>2. y.pruned = TRUE
  BY <1>1, Zenon DEF Ledger!RequestRecords
<1>3. /\ y.log = <<>> /\ y.state = x.state /\ y.task = x.task /\ y.mode = x.mode /\ y.decision = x.decision
  BY <1>1, Zenon DEF Ledger!RequestRecords
<1>4. y.quarantined = x.quarantined
  BY <1>1, Zenon DEF Ledger!RequestRecords
<1>5. y = [state |-> y.state, task |-> y.task, mode |-> y.mode, decision |-> y.decision,
           quarantined |-> y.quarantined, pruned |-> y.pruned, log |-> y.log]
  BY <1>1, Zenon DEF Ledger!RequestRecords
<1> QED
  BY <1>1, <1>2, <1>3, <1>4, <1>5, Zenon DEF Ledger!WithoutPayload

(* Retention drops a payload.                                              *)
LEMMA PruneStore ==
    ASSUME StoreInv, NEW r \in Requests, PruneRequest(r), NEW c
    PROVE  StoreRows' /\ StoreStep(c, {}) /\ Ledger!Next
<1>1. RowTypes
  BY Zenon DEF StoreInv, StoreRows
<1>2. /\ request[r].state = "closed" /\ ~request[r].pruned
      /\ request' = [request EXCEPT ![r] = PrunedRow(request[r])]
      /\ task' = task /\ receipt' = receipt
  BY Zenon DEF PruneRequest, PrunedRow
<1>3. PICK t \in Tasks : t = request[r].task
  BY <1>2, Zenon DEF StoreInv, StoreRows, Placed
<1>4. \/ tool' = tool
      \/ /\ task[t].state \in TerminalStates
         /\ tool' = [tool EXCEPT ![t] = [k \in ToolCalls |-> IF tool[t][k] = "completed" THEN "pruned" ELSE tool[t][k]]]
  BY <1>3, Zenon DEF PruneRequest
<1>5. PICK row : row = PrunedRow(request[r])
  BY Zenon
<1>6. /\ row \in RequestRows /\ row.state = "closed" /\ row.task = t /\ row.mode = request[r].mode
      /\ row.decision = request[r].decision /\ row.quarantined = request[r].quarantined
      /\ row.pruned = TRUE /\ row.log = <<>> /\ row.rev = request[r].rev + 1 /\ request[r].rev \in Nat
  <2>1. request[r] \in RequestRows
    BY <1>1, Zenon DEF RowTypes
  <2> QED
    BY <1>2, <1>3, <1>5, <2>1, PrunedFacts, Zenon
<1>7. request'[r] = row /\ \A q \in Requests \ {r} : request'[q] = request[q]
  BY <1>1, <1>2, <1>5, Zenon DEF RowTypes
<1>8. RowTypes'
  BY <1>1, <1>2, <1>5, <1>6, Zenon DEF RowTypes
<1>9. Placed'
  BY <1>2, <1>3, <1>6, <1>7 DEF StoreInv, StoreRows, Placed
<1>10. /\ \A u \in Tasks, k \in ToolCalls : tool[u][k] = "absent" => tool'[u][k] = "absent"
       /\ \A u \in Tasks, k \in ToolCalls : tool[u][k] = "pending" <=> tool'[u][k] = "pending"
  BY <1>4, LedgerFacts
<1>11. ChatUntooled'
  BY <1>2, <1>10 DEF StoreInv, StoreRows, ChatUntooled
<1>12. StoreMoves(c) /\ Opens({}) /\ SessionsKept
  <2>1. \A u \in Tasks : PendingCalls(u)' = PendingCalls(u)
    BY <1>10, Zenon DEF PendingCalls
  <2>2. StoreMoves(c)
    BY <1>2, <1>3, <1>6, <1>7, <2>1 DEF StoreMoves
  <2>3. Opens({})
    BY <1>6, <1>7, Zenon DEF Opens
  <2>4. SessionsKept
    BY <1>2, SessionsStay, Zenon
  <2> QED
    BY <2>2, <2>3, <2>4, Zenon
<1>13. Ledger!Prune(r)
  <2>1. LedgerTask' = LedgerTask /\ LedgerRequest' = [LedgerRequest EXCEPT ![r] = LRequest(row)]
    BY <1>1, <1>2, <1>5, MapSame, MapRequest, Zenon
  <2>2. LRequest(row) = Ledger!WithoutPayload(LedgerRequest[r])
    <3>1. LedgerRequest[r] \in Ledger!RequestRecords
      BY Zenon DEF StoreInv, StoreRows, Ledger!IInv, Ledger!TypeOK
    <3>2. Ledger!WithoutPayload(LedgerRequest[r]) =
            [state |-> LedgerRequest[r].state, task |-> LedgerRequest[r].task, mode |-> LedgerRequest[r].mode,
             decision |-> LedgerRequest[r].decision, quarantined |-> LedgerRequest[r].quarantined,
             pruned |-> TRUE, log |-> <<>>]
      BY <3>1, WithoutPayloadRecord, Zenon
    <3>3. /\ LedgerRequest[r].state = row.state /\ LedgerRequest[r].task = row.task
          /\ LedgerRequest[r].mode = row.mode /\ LedgerRequest[r].decision = row.decision
          /\ LedgerRequest[r].quarantined = row.quarantined
      BY <1>2, <1>3, <1>6, Zenon DEF LedgerRequest
    <3> QED
      BY <1>6, <3>2, <3>3, Zenon DEF LRequest
  <2>3. LedgerRequest[r].task = t /\ LedgerRequest[r].state = "closed" /\ ~LedgerRequest[r].pruned
    BY <1>2, <1>3, Zenon DEF LedgerRequest
  <2>4. LedgerTask[t].state = task[t].state
    BY Zenon DEF LedgerTask
  <2> QED
    BY <1>2, <1>4, <2>1, <2>2, <2>3, <2>4, SameWords, Zenon DEF Ledger!Prune, Ledger!WithoutResults
<1> QED
  BY <1>8, <1>9, <1>11, <1>12, <1>13, Zenon DEF StoreRows, Ledger!Next, StoreStep
(* What planWorkerEvent decides is the same in both modules.               *)
LEMMA SamePlan ==
    ASSUME NEW kind, NEW state, NEW chat
    PROVE  /\ Ledger!EventState(kind, state, chat) = EventState(kind, state, chat)
           /\ Ledger!EventAllowed(kind, state) <=> EventAllowed(kind, state)
           /\ Ledger!EndsResponse(kind) <=> EndsResponse(kind)
           /\ Ledger!AggregateTerminalStatus(kind) = AggregateTerminalStatus(kind)
<1>1. Ledger!EventState(kind, state, chat) = EventState(kind, state, chat)
  BY Zenon DEF Ledger!EventState, EventState
<1>2. (Ledger!EventAllowed(kind, state) <=> EventAllowed(kind, state)) /\ (Ledger!EndsResponse(kind) <=> EndsResponse(kind))
  BY Zenon DEF Ledger!EventAllowed, EventAllowed, Ledger!EndsResponse, EndsResponse
<1>3. Ledger!AggregateTerminalStatus(kind) = AggregateTerminalStatus(kind)
  BY Zenon DEF Ledger!AggregateTerminalStatus, AggregateTerminalStatus
<1> QED
  BY <1>1, <1>2, <1>3, Zenon

(* An accepted event ends the response exactly when it moves the task on.  *)
LEMMA PlanFacts ==
    ASSUME NEW kind \in Kinds, NEW state \in ActiveStates, NEW chat \in BOOLEAN
    PROVE  /\ EventState(kind, state, chat) \in TaskStates
           /\ ~EndsResponse(kind) => EventState(kind, state, chat) = state
           /\ EndsResponse(kind) => EventState(kind, state, chat) \notin ActiveStates
           /\ AggregateTerminalStatus(kind) \in Statuses
<1>1. /\ EventState(kind, state, chat) \in TaskStates
      /\ ~EndsResponse(kind) => EventState(kind, state, chat) = state
      /\ EndsResponse(kind) => EventState(kind, state, chat) \notin ActiveStates
  BY Zenon DEF EventState, EndsResponse, Kinds, TaskStates, ActiveStates, IdleStates, TerminalStates
<1>2. AggregateTerminalStatus(kind) \in Statuses
  BY DEF AggregateTerminalStatus, Statuses, Kinds
<1> QED
  BY <1>1, <1>2, Zenon

(* A request record with one more event.                                   *)
AnsweredState(x, event) == IF EndsResponse(event.kind) THEN "closed" ELSE x.state
AnsweredDecision(x, event) ==
    IF EndsResponse(event.kind) /\ x.mode = "aggregate" THEN AggregateTerminalStatus(event.kind) ELSE x.decision
AnsweredRow(x, event) ==
    [x EXCEPT !.log = Append(x.log, event), !.rev = x.rev + 1, !.state = AnsweredState(x, event),
              !.decision = AnsweredDecision(x, event)]

(* An answered request keeps its task, and grows in revision.              *)
LEMMA AnsweredFacts ==
    ASSUME NEW x \in RequestRows, NEW event \in Ledger!Events, AggregateTerminalStatus(event.kind) \in Statuses
    PROVE  /\ AnsweredRow(x, event) \in RequestRows /\ x.rev \in Nat
           /\ AnsweredRow(x, event).state = AnsweredState(x, event)
           /\ AnsweredRow(x, event).decision = AnsweredDecision(x, event)
           /\ AnsweredRow(x, event).task = x.task /\ AnsweredRow(x, event).mode = x.mode
           /\ AnsweredRow(x, event).quarantined = x.quarantined /\ AnsweredRow(x, event).pruned = x.pruned
           /\ AnsweredRow(x, event).log = Append(x.log, event)
           /\ AnsweredRow(x, event).rev = x.rev + 1
<1>1. x.rev \in Nat /\ x.rev + 1 \in Nat /\ Append(x.log, event) \in Seq(Ledger!Events)
  BY DEF RequestRows
<1>2. AnsweredState(x, event) \in {"absent", "open", "closed"} /\ AnsweredDecision(x, event) \in Statuses
  BY Zenon DEF RequestRows, AnsweredState, AnsweredDecision
<1>3. AnsweredRow(x, event) \in RequestRows
  BY <1>1, <1>2, Zenon DEF RequestRows, AnsweredRow
<1>4. /\ AnsweredRow(x, event).state = AnsweredState(x, event)
      /\ AnsweredRow(x, event).decision = AnsweredDecision(x, event)
      /\ AnsweredRow(x, event).task = x.task /\ AnsweredRow(x, event).mode = x.mode
  BY Zenon DEF RequestRows, AnsweredRow
<1>5. AnsweredRow(x, event).quarantined = x.quarantined /\ AnsweredRow(x, event).pruned = x.pruned
  BY Zenon DEF RequestRows, AnsweredRow
<1>6. AnsweredRow(x, event).log = Append(x.log, event) /\ AnsweredRow(x, event).rev = x.rev + 1
  BY Zenon DEF RequestRows, AnsweredRow
<1> QED
  BY <1>1, <1>3, <1>4, <1>5, <1>6, Zenon

(* The ledger's record with one more event.                                *)
LEMMA AnsweredRecord ==
    ASSUME NEW x \in Ledger!RequestRecords, NEW event
    PROVE  Ledger!Answered(x, event) =
             [state |-> AnsweredState(x, event), task |-> x.task, mode |-> x.mode,
              decision |-> AnsweredDecision(x, event),
              quarantined |-> x.quarantined, pruned |-> x.pruned, log |-> Append(x.log, event)]
<1>1. PICK y : y = [x EXCEPT !.log = Append(x.log, event), !.state = AnsweredState(x, event),
                             !.decision = AnsweredDecision(x, event)]
  BY Zenon
<1>2. Ledger!Answered(x, event) = y
  BY <1>1, SamePlan, Zenon DEF Ledger!Answered, AnsweredState, AnsweredDecision
<1>3. /\ y.log = Append(x.log, event) /\ y.state = AnsweredState(x, event) /\ y.task = x.task
      /\ y.mode = x.mode /\ y.decision = AnsweredDecision(x, event)
  BY <1>1, Zenon DEF Ledger!RequestRecords
<1>4. y.quarantined = x.quarantined /\ y.pruned = x.pruned
  BY <1>1, Zenon DEF Ledger!RequestRecords
<1>5. y = [state |-> y.state, task |-> y.task, mode |-> y.mode, decision |-> y.decision,
           quarantined |-> y.quarantined, pruned |-> y.pruned, log |-> y.log]
  BY <1>1, Zenon DEF Ledger!RequestRecords
<1> QED
  BY <1>2, <1>3, <1>4, <1>5, Zenon

(* A worker event, or the sweep's, is applied.                             *)
LEMMA EventStore ==
    ASSUME StoreInv, NEW c, OpOK(c, op[c]), op[c].pc = "txn", EventStands(c), EventTxn(c),
           \A e \in receipt[op[c].r] : e.id # op[c].event.id
    PROVE  StoreRows' /\ StoreStep(c, {}) /\ Ledger!Next /\ op[c].event \in receipt'[op[c].r]
<1>1. RowTypes
  BY Zenon DEF StoreInv, StoreRows
<1>2. PICK r \in Requests, e \in Ledger!Events, x \in RequestRows, k \in TaskRows, t \in Tasks :
        /\ r = op[c].r /\ e = op[c].event /\ x = op[c].req /\ k = op[c].task /\ t = x.task
        /\ EventOf(c, e) /\ Snap(x, request[r]) /\ Snap(k, task[t])
        /\ EventAllowed(e.kind, k.state)
  BY Zenon DEF OpOK, EventPlanOK, EventOf
<1>3. x = request[r] /\ k = task[t] /\ t = request[r].task
  BY <1>2, Zenon DEF Snap, EventStands
<1>4. /\ request[r].state = "open" /\ task[t].state \in ActiveStates /\ task[t].lease = r
      /\ task[t].owner = e.worker /\ task[t].chat \in BOOLEAN
      /\ \A i \in e.calls : tool[t][i] = "absent"
  <2>1. x.state = "open"
    BY <1>2, Zenon DEF OpOK, EventPlanOK
  <2>2. request[r].state = "open" /\ task[t].state \in ActiveStates /\ task[t].lease = r
    <3>1. request[r].state = "open" /\ t = request[r].task
      BY <1>3, <2>1, Zenon
    <3> QED
      BY <3>1, LedgerFacts, Zenon
  <2>3. task[t].owner = e.worker /\ \A i \in e.calls : task[t].chat \/ tool[t][i] = "absent"
    BY <1>2, <1>3, Zenon DEF EventStands
  <2>4. e.calls \subseteq ToolCalls
    BY Zenon DEF Ledger!Events
  <2>5. \A i \in e.calls : tool[t][i] = "absent"
    BY <2>3, <2>4, Zenon DEF StoreInv, StoreRows, ChatUntooled
  <2>6. task[t].chat \in BOOLEAN
    BY <1>1, Zenon DEF RowTypes, TaskRows
  <2> QED
    BY <2>2, <2>3, <2>5, <2>6, Zenon
<1>5. PICK next : next = EventState(e.kind, task[t].state, task[t].chat)
  BY Zenon
<1>6. /\ next \in TaskStates /\ AggregateTerminalStatus(e.kind) \in Statuses
      /\ next = task[t].state => ~EndsResponse(e.kind)
      /\ next # task[t].state => next \notin ActiveStates
      /\ ~EndsResponse(e.kind) => e.calls = {}
  <2>1. e.kind \in Kinds /\ (e.calls # {} <=> e.kind = "tool_calls")
    BY SameWords, Zenon DEF Ledger!Events
  <2>2. ~EndsResponse(e.kind) => e.calls = {}
    BY <2>1, Zenon DEF EndsResponse
  <2> QED
    BY <1>4, <1>5, <2>1, <2>2, PlanFacts, Zenon
<1>7. PICK row : row = AnsweredRow(request[r], e)
  BY Zenon
<1>8. PICK held : held = IF next = task[t].state THEN task[t] ELSE Moved(task[t], next)
  BY Zenon
<1>9. /\ request' = [request EXCEPT ![r] = row]
      /\ receipt' = [receipt EXCEPT ![r] = receipt[r] \cup {e}]
      /\ tool' = IF task[t].chat THEN tool
                 ELSE [tool EXCEPT ![t] = [i \in ToolCalls |-> IF i \in e.calls THEN "pending" ELSE tool[t][i]]]
  BY <1>2, <1>3, <1>7, Zenon DEF EventTxn, AnsweredRow, AnsweredState, AnsweredDecision
<1>10. task' = [task EXCEPT ![t] = held]
  <2>1. task' = IF next = task[t].state THEN task ELSE [task EXCEPT ![t] = Moved(task[t], next)]
    BY <1>2, <1>3, <1>5, Zenon DEF EventTxn, Moved
  <2>2. [task EXCEPT ![t] = task[t]] = task
    BY <1>1, Zenon DEF RowTypes
  <2> QED
    BY <1>8, <2>1, <2>2, Zenon
<1>11. /\ row \in RequestRows /\ row.state = AnsweredState(request[r], e) /\ row.task = t
       /\ row.decision = AnsweredDecision(request[r], e) /\ row.mode = request[r].mode
       /\ row.log = Append(request[r].log, e) /\ row.rev = request[r].rev + 1 /\ request[r].rev \in Nat
       /\ row.quarantined = request[r].quarantined /\ row.pruned = request[r].pruned
  <2>1. request[r] \in RequestRows
    BY <1>1, Zenon DEF RowTypes
  <2>2. row.quarantined = request[r].quarantined /\ row.pruned = request[r].pruned
    BY <1>6, <1>7, <2>1, AnsweredFacts, Zenon
  <2>3. /\ row \in RequestRows /\ row.state = AnsweredState(request[r], e) /\ row.task = t
        /\ row.decision = AnsweredDecision(request[r], e) /\ row.mode = request[r].mode
        /\ row.log = Append(request[r].log, e) /\ row.rev = request[r].rev + 1 /\ request[r].rev \in Nat
    BY <1>3, <1>6, <1>7, <2>1, AnsweredFacts, Zenon
  <2> QED
    BY <2>2, <2>3, Zenon
<1>12. /\ held \in TaskRows /\ held.state = next /\ held.owner = task[t].owner /\ held.lease = task[t].lease
       /\ task[t].rev \in Nat /\ held.rev \in Nat
       /\ held = task[t] \/ (next # task[t].state /\ held.rev > task[t].rev)
       /\ held.chat = task[t].chat /\ held.affinity = task[t].affinity
  <2>1. task[t] \in TaskRows
    BY <1>1, Zenon DEF RowTypes
  <2>2. task[t].rev \in Nat
    BY <2>1, Zenon DEF TaskRows
  <2>3. CASE next = task[t].state
    BY <1>8, <2>1, <2>2, <2>3, Zenon
  <2>4. CASE next # task[t].state
    <3>1. held = Moved(task[t], next)
      BY <1>8, <2>4, Zenon
    <3>2. /\ held \in TaskRows /\ held.state = next /\ held.owner = task[t].owner /\ held.lease = task[t].lease
          /\ held.rev = task[t].rev + 1 /\ held.chat = task[t].chat /\ held.affinity = task[t].affinity
      BY <1>6, <2>1, <3>1, MovedRow, ZenonT(30)
    <3> QED
      BY <2>2, <2>4, <3>2
  <2> QED
    BY <2>3, <2>4, Zenon
<1>13. /\ request'[r] = row /\ \A q \in Requests \ {r} : request'[q] = request[q]
       /\ task'[t] = held /\ \A u \in Tasks \ {t} : task'[u] = task[u]
       /\ receipt'[r] = receipt[r] \cup {e} /\ \A q \in Requests \ {r} : receipt'[q] = receipt[q]
  BY <1>1, <1>9, <1>10, LedgerFacts DEF RowTypes
<1>14. /\ \A u \in Tasks \ {t} : tool'[u] = tool[u]
       /\ task[t].chat => tool' = tool
       /\ e.calls = {} => \A i \in ToolCalls : tool'[t][i] = tool[t][i]
  BY <1>9, LedgerFacts
<1>15. RowTypes'
  BY <1>1, <1>9, <1>10, <1>11, <1>12, Zenon DEF RowTypes
<1>16. Placed'
  <2>1. row.state # "absent" /\ held.state # "absent"
    BY <1>4, <1>6, <1>11, <1>12, Zenon DEF AnsweredState, TaskStates, ActiveStates, IdleStates, TerminalStates
  <2>2. held.owner \in Workers /\ \A u \in Tasks : task[u].state # "absent" => task'[u].state # "absent"
    BY <1>4, <1>12, <1>13, <2>1 DEF Ledger!Events
  <2> QED
    BY <1>11, <1>13, <2>1, <2>2, SMTT(30) DEF StoreInv, StoreRows, Placed
<1>17. ChatUntooled'
  <2>1. held.state # "absent"
    BY <1>6, <1>12, Zenon DEF TaskStates, ActiveStates, IdleStates, TerminalStates
  <2> QED
    BY <1>12, <1>13, <1>14, <2>1 DEF StoreInv, StoreRows, ChatUntooled
<1>18. StoreMoves(c)
  <2>1. \A u \in Tasks : task'[u].rev = task[u].rev => PendingCalls(u)' = PendingCalls(u)
    BY <1>6, <1>12, <1>13, <1>14 DEF PendingCalls
  <2>2. \A u \in Tasks : task'[u].state = "leased" => task'[u] = task[u]
    BY <1>6, <1>12, <1>13, Zenon DEF ActiveStates
  <2>3. \A u \in Tasks : task'[u] = task[u] \/ task'[u].rev > task[u].rev
    BY <1>12, <1>13, Zenon
  <2>4. \A q \in Requests :
          /\ request'[q] = request[q] \/ request'[q].rev > request[q].rev
          /\ request[q].state # "absent" => request'[q].state # "absent" /\ request'[q].task = request[q].task
    BY <1>3, <1>4, <1>11, <1>13, SMTT(30) DEF AnsweredState
  <2>5. \A q \in Requests : receipt[q] \subseteq receipt'[q] /\ \A i \in receipt'[q] \ receipt[q] : EventOf(c, i)
    BY <1>2, <1>13
  <2> QED
    BY <2>1, <2>2, <2>3, <2>4, <2>5, Zenon DEF StoreMoves
<1>19. Ledger!CommitEvent(r, e)
  <2>1. LedgerTask' = [LedgerTask EXCEPT ![t] = LTask(held)] /\ LedgerRequest' = [LedgerRequest EXCEPT ![r] = LRequest(row)]
    BY <1>1, <1>9, <1>10, MapTask, MapRequest, Zenon
  <2>2. /\ LedgerTask[t].state = task[t].state /\ LedgerTask[t].owner = task[t].owner
        /\ LedgerTask[t].lease = task[t].lease /\ LedgerTask[t].chat = task[t].chat
    BY Zenon DEF LedgerTask
  <2>3. LTask(held) = Ledger!InState(LedgerTask[t], next)
    BY <1>12 DEF LTask, Ledger!InState, LedgerTask
  <2>4. LRequest(row) = Ledger!Answered(LedgerRequest[r], e)
    <3>1. LedgerRequest[r] \in Ledger!RequestRecords
      BY Zenon DEF StoreInv, StoreRows, Ledger!IInv, Ledger!TypeOK
    <3>2. /\ LedgerRequest[r].state = request[r].state /\ LedgerRequest[r].task = row.task
          /\ LedgerRequest[r].mode = row.mode /\ LedgerRequest[r].decision = request[r].decision
          /\ LedgerRequest[r].log = request[r].log
          /\ LedgerRequest[r].quarantined = row.quarantined /\ LedgerRequest[r].pruned = row.pruned
      BY <1>3, <1>11, Zenon DEF LedgerRequest
    <3>3. /\ AnsweredState(LedgerRequest[r], e) = row.state
          /\ AnsweredDecision(LedgerRequest[r], e) = row.decision
      BY <1>11, <3>2, Zenon DEF AnsweredState, AnsweredDecision
    <3> QED
      BY <1>11, <3>1, <3>2, <3>3, AnsweredRecord, Zenon DEF LRequest
  <2>5. LedgerRequest[r].task = t /\ LedgerRequest[r].state = "open"
    BY <1>3, <1>4, Zenon DEF LedgerRequest
  <2>6. Ledger!Accepts(r, e)
    BY <1>2, <1>3, <1>4, <2>2, <2>5, SamePlan, Zenon DEF Ledger!Accepts, Ledger!AcceptsUnseen
  <2>7. Ledger!EventState(e.kind, LedgerTask[t].state, LedgerTask[t].chat) = next
    BY <1>5, <2>2, SamePlan
  <2> QED
    BY <1>9, <2>1, <2>2, <2>3, <2>4, <2>5, <2>6, <2>7, Zenon DEF Ledger!CommitEvent
<1>20. Opens({})
  BY <1>4, <1>13, Zenon DEF Opens
<1>21. SessionsKept
  BY <1>4, <1>12, <1>13, SessionsStay, Zenon DEF Continuable
<1> QED
  BY <1>2, <1>13, <1>15, <1>16, <1>17, <1>18, <1>19, <1>20, <1>21, Zenon DEF StoreRows, Ledger!Next, StoreStep

-----------------------------------------------------------------------------
(* The records an admission writes                                         *)

(* A task record leased to a worker for a request.                         *)
LeasedRow(x, w, r) == [x EXCEPT !.state = "leased", !.owner = w, !.lease = r, !.rev = x.rev + 1]

(* A leased task is the worker's, and keeps its chat and its session.      *)
LEMMA LeasedFacts ==
    ASSUME NEW x \in TaskRows, NEW w \in Workers, NEW r \in Requests
    PROVE  /\ LeasedRow(x, w, r) \in TaskRows /\ x.rev \in Nat
           /\ LeasedRow(x, w, r).state = "leased" /\ LeasedRow(x, w, r).owner = w
           /\ LeasedRow(x, w, r).lease = r /\ LeasedRow(x, w, r).rev = x.rev + 1
           /\ LeasedRow(x, w, r).chat = x.chat /\ LeasedRow(x, w, r).affinity = x.affinity
<1>1. x.rev \in Nat /\ x.rev + 1 \in Nat
  BY DEF TaskRows
<1>2. LeasedRow(x, w, r) \in TaskRows
  BY <1>1, Zenon DEF TaskRows, LeasedRow, TaskStates, ActiveStates
<1>3. /\ LeasedRow(x, w, r).state = "leased" /\ LeasedRow(x, w, r).owner = w
      /\ LeasedRow(x, w, r).lease = r /\ LeasedRow(x, w, r).rev = x.rev + 1
      /\ LeasedRow(x, w, r).affinity = x.affinity
  BY Zenon DEF TaskRows, LeasedRow
<1>4. LeasedRow(x, w, r).chat = x.chat
  BY Zenon DEF TaskRows, LeasedRow
<1> QED
  BY <1>1, <1>2, <1>3, <1>4, Zenon

(* The record a new task starts from.                                      *)
FirstRow(chat, affinity) == [NoTask EXCEPT !.chat = chat, !.affinity = affinity]

(* A new task has its chat and its session, and revision 0.                *)
LEMMA FirstFacts ==
    ASSUME NEW chat \in BOOLEAN, NEW affinity \in {1, 2}
    PROVE  /\ FirstRow(chat, affinity) \in TaskRows /\ FirstRow(chat, affinity).rev = 0
           /\ FirstRow(chat, affinity).chat = chat /\ FirstRow(chat, affinity).affinity = affinity
<1>1. NoTask \in TaskRows /\ NoTask.rev = 0
  BY Zenon DEF NoTask, TaskRows
<1>2. FirstRow(chat, affinity) \in TaskRows
  BY <1>1, Zenon DEF TaskRows, FirstRow
<1>3. FirstRow(chat, affinity).rev = 0 /\ FirstRow(chat, affinity).affinity = affinity
  BY <1>1, Zenon DEF TaskRows, FirstRow
<1>4. FirstRow(chat, affinity).chat = chat
  BY <1>1, Zenon DEF TaskRows, FirstRow
<1> QED
  BY <1>2, <1>3, <1>4, Zenon

(* The record of an admitted request.                                      *)
LEMMA AdmittedFacts ==
    ASSUME NEW t \in Tasks, NEW input \in InputRecords
    PROVE  /\ AdmittedRequest(input, t) \in RequestRows
           /\ AdmittedRequest(input, t).state = "open" /\ AdmittedRequest(input, t).task = t
           /\ AdmittedRequest(input, t).rev = 1
           /\ LRequest(AdmittedRequest(input, t)) = Ledger!AdmittedRequest(t, input.mode)
<1>1. PICK mode \in Modes, digest \in {1, 2}, d \in Statuses :
        mode = input.mode /\ digest = input.digest /\ d = IF mode = "stream" THEN 200 ELSE 0
  BY DEF InputRecords, Statuses
<1>2. NoRequest \in RequestRows
  BY DEF NoRequest, RequestRows, Modes, Statuses
<1>3. NoRequest.quarantined = FALSE /\ NoRequest.pruned = FALSE /\ NoRequest.log = <<>>
  BY Zenon DEF NoRequest
<1>4. AdmittedRequest(input, t) =
        [NoRequest EXCEPT !.state = "open", !.task = t, !.mode = mode, !.decision = d, !.digest = digest, !.rev = 1]
  BY <1>1, Zenon DEF AdmittedRequest
<1>5. AdmittedRequest(input, t) \in RequestRows
  <2>1. "open" \in {"absent", "open", "closed"} /\ t \in Tasks \cup {None} /\ 1 \in Nat
    BY Zenon
  <2> QED
    BY <1>2, <1>4, <2>1, Zenon DEF RequestRows
<1>6. /\ AdmittedRequest(input, t).state = "open" /\ AdmittedRequest(input, t).task = t
      /\ AdmittedRequest(input, t).rev = 1 /\ AdmittedRequest(input, t).mode = mode
      /\ AdmittedRequest(input, t).decision = d
  BY <1>2, <1>4, Zenon DEF RequestRows
<1>7. AdmittedRequest(input, t).log = <<>>
  BY <1>2, <1>3, <1>4, Zenon DEF RequestRows
<1>8. AdmittedRequest(input, t).quarantined = FALSE
  BY <1>2, <1>3, <1>4, Zenon DEF RequestRows
<1>9. AdmittedRequest(input, t).pruned = FALSE
  BY <1>2, <1>3, <1>4, Zenon DEF RequestRows
<1>10. LRequest(AdmittedRequest(input, t)) = Ledger!AdmittedRequest(t, input.mode)
  BY <1>1, <1>6, <1>7, <1>8, <1>9, Zenon DEF LRequest, Ledger!AdmittedRequest
<1> QED
  BY <1>5, <1>6, <1>10, Zenon

(* A request record that another request has taken over from.              *)
LEMMA SupersededFacts ==
    ASSUME NEW x \in RequestRows
    PROVE  /\ Superseded(x) \in RequestRows /\ x.rev \in Nat
           /\ Superseded(x).state = "closed" /\ Superseded(x).task = x.task
           /\ Superseded(x).rev = x.rev + 1
           /\ LRequest(Superseded(x)) = Ledger!Superseded(LRequest(x))
<1>1. x.rev \in Nat /\ x.rev + 1 \in Nat
  BY DEF RequestRows
<1>2. Superseded(x) \in RequestRows
  BY <1>1, Zenon DEF RequestRows, Superseded
<1>3. /\ Superseded(x).state = "closed" /\ Superseded(x).task = x.task
      /\ Superseded(x).rev = x.rev + 1 /\ Superseded(x).mode = x.mode
      /\ Superseded(x).decision = x.decision /\ Superseded(x).log = x.log
  BY Zenon DEF RequestRows, Superseded
<1>4. Superseded(x).quarantined = x.quarantined /\ Superseded(x).pruned = x.pruned
  BY Zenon DEF RequestRows, Superseded
<1>5. LRequest(Superseded(x)) =
        [state |-> "closed", task |-> x.task, mode |-> x.mode, decision |-> x.decision,
         quarantined |-> x.quarantined, pruned |-> x.pruned, log |-> x.log]
  BY <1>3, <1>4, Zenon DEF LRequest
<1>6. Ledger!Superseded(LRequest(x)) =
        [state |-> "closed", task |-> x.task, mode |-> x.mode, decision |-> x.decision,
         quarantined |-> x.quarantined, pruned |-> x.pruned, log |-> x.log]
  BY SMTT(30) DEF LRequest, Ledger!Superseded
<1> QED
  BY <1>1, <1>2, <1>3, <1>5, <1>6, Zenon
(* The record an admission leases its task from.                           *)
BaseRow(a) == IF adm[a].plan = "new" THEN FirstRow(adm[a].input.chat, adm[a].input.affinity) ELSE task[adm[a].tid]

(* The Store an admission leaves, whatever was planned.                    *)
LEMMA AdmissionWrites ==
    ASSUME StoreInv, NEW a, AttemptOK(adm[a]), adm[a].pc = "commit", AdmissionStands(a), AdmissionTxn(a),
           NEW input, NEW r, NEW t, NEW w, NEW x, NEW row,
           input = adm[a].input, r = input.key, t = adm[a].tid, w = adm[a].worker, x = BaseRow(a),
           row = AdmittedRequest(input, t)
    PROVE  /\ input \in InputRecords /\ r \in Requests /\ t \in Tasks /\ w \in Workers /\ PlanOK(adm[a])
           /\ x \in TaskRows /\ x.rev = task[t].rev
           /\ x = IF adm[a].plan = "new" THEN FirstRow(input.chat, input.affinity) ELSE task[t]
           /\ row \in RequestRows
           /\ request[r].state = "absent" /\ request[r].rev = 0 /\ r # adm[a].victim
           /\ task' = [task EXCEPT ![t] = LeasedRow(x, w, r)]
           /\ request' = [q \in Requests |-> IF q = r THEN row
                                             ELSE IF q = adm[a].victim THEN Superseded(request[q])
                                             ELSE request[q]]
           /\ tool' = [tool EXCEPT ![t] = [c \in ToolCalls |->
                         IF c \in adm[a].results THEN "completed" ELSE tool[t][c]]]
           /\ receipt' = receipt
<1>1. RowTypes
  BY Zenon DEF StoreInv, StoreRows
<1>2. input \in InputRecords /\ t \in Tasks /\ w \in Workers /\ PlanOK(adm[a])
  BY InputsAssumption, Zenon DEF AttemptOK, PlanOK
<1>3. r \in Requests
  BY <1>2, Zenon DEF InputRecords
<1>4. input.chat \in BOOLEAN /\ input.affinity \in {1, 2} /\ input.mode \in Modes /\ input.digest \in {1, 2}
  BY <1>2, Zenon DEF InputRecords
<1>5. row \in RequestRows
  BY <1>2, <1>4, AdmittedFacts, Zenon
<1>6. request[r].state = "absent" /\ request[r].rev = 0
  BY <1>3, Zenon DEF AdmissionStands, StoreInv, StoreRows, Placed
<1>7. x = IF adm[a].plan = "new" THEN FirstRow(input.chat, input.affinity) ELSE task[t]
  BY Zenon DEF BaseRow
<1>8. x \in TaskRows /\ x.rev = task[t].rev
  <2>1. CASE adm[a].plan = "new"
    <3>1. task[t].state = "absent"
      BY <1>2, <2>1, Zenon DEF AdmissionStands
    <3>2. task[t].rev = 0
      BY <1>2, <3>1, Zenon DEF StoreInv, StoreRows, Placed
    <3> QED
      BY <1>4, <1>7, <2>1, <3>2, FirstFacts
  <2>2. CASE adm[a].plan # "new"
    BY <1>1, <1>2, <1>7, <2>2, Zenon DEF RowTypes
  <2> QED
    BY <2>1, <2>2, Zenon
<1>9. adm[a].plan # "new" => adm[a].task = task[t]
  BY <1>2, Zenon DEF PlanOK, AdmissionStands, Snap
<1>10. task' = [task EXCEPT ![t] = LeasedRow(x, w, r)]
  <2>1. CASE adm[a].plan = "new"
    BY <1>2, <1>3, <1>7, <2>1, Zenon DEF AdmissionTxn, LeasedRow, FirstRow
  <2>2. CASE adm[a].plan # "new"
    BY <1>2, <1>3, <1>7, <1>9, <2>2, Zenon DEF AdmissionTxn, LeasedRow
  <2> QED
    BY <2>1, <2>2, Zenon
<1>11. r # adm[a].victim
  <2>1. CASE adm[a].plan = "preempt"
    BY <1>6, <2>1, Zenon DEF AdmissionStands, Active
  <2>2. CASE adm[a].plan # "preempt"
    BY <1>2, <1>3, <2>2, ExpiryAssumption, Zenon DEF PlanOK
  <2> QED
    BY <2>1, <2>2, Zenon
<1>12. request' = [q \in Requests |-> IF q = r THEN row
                                      ELSE IF q = adm[a].victim THEN Superseded(request[q])
                                      ELSE request[q]]
  <2>1. request' = [q \in Requests |-> request'[q]]
    BY DEF AdmissionTxn
  <2>2. ASSUME NEW q \in Requests, q = r
        PROVE  request'[q] = row
    BY <1>11, <2>2, Zenon DEF AdmissionTxn
  <2>3. ASSUME NEW q \in Requests, q = adm[a].victim
        PROVE  request'[q] = Superseded(request[q])
    BY <1>11, <2>3, Zenon DEF AdmissionTxn
  <2>4. ASSUME NEW q \in Requests, q # r, q # adm[a].victim
        PROVE  request'[q] = request[q]
    BY <2>4, Zenon DEF AdmissionTxn
  <2> QED
    BY <1>11, <2>1, <2>2, <2>3, <2>4, Zenon
<1>13. /\ tool' = [tool EXCEPT ![t] = [c \in ToolCalls |->
                     IF c \in adm[a].results THEN "completed" ELSE tool[t][c]]]
       /\ receipt' = receipt
  BY <1>2, Zenon DEF AdmissionTxn
<1> QED
  BY <1>2, <1>3, <1>5, <1>6, <1>7, <1>8, <1>10, <1>11, <1>12, <1>13, SMTT(30)

(* What a stands for when its transaction commits: its input, its key, its *)
(* task, its worker, and the records written for them.                     *)
Admission(a, input, r, t, w, x, row, held) ==
    /\ input = adm[a].input /\ r = input.key /\ t = adm[a].tid /\ w = adm[a].worker
    /\ input \in InputRecords /\ r \in Requests /\ t \in Tasks /\ w \in Workers
    /\ PlanOK(adm[a]) /\ AdmissionStands(a)
    /\ x = IF adm[a].plan = "new" THEN FirstRow(input.chat, input.affinity) ELSE task[t]
    /\ held \in TaskRows /\ held.state = "leased" /\ held.owner = w /\ held.lease = r
    /\ held.rev = task[t].rev + 1 /\ task[t].rev \in Nat /\ held.chat = x.chat /\ held.affinity = x.affinity
    /\ row \in RequestRows /\ row.state = "open" /\ row.task = t /\ row.rev = 1
    /\ LRequest(row) = Ledger!AdmittedRequest(t, input.mode)
    /\ request[r].state = "absent" /\ request[r].rev = 0 /\ r # adm[a].victim

(* What the transaction of a writes.                                       *)
AdmissionWritten(a, r, t, row, held) ==
    /\ task' = [task EXCEPT ![t] = held] /\ receipt' = receipt
    /\ request' = [q \in Requests |-> IF q = r THEN row
                                      ELSE IF q = adm[a].victim THEN Superseded(request[q])
                                      ELSE request[q]]
    /\ tool' = [tool EXCEPT ![t] = [k \in ToolCalls |-> IF k \in adm[a].results THEN "completed" ELSE tool[t][k]]]
    /\ task'[t] = held /\ \A u \in Tasks \ {t} : task'[u] = task[u]
    /\ request'[r] = row
    /\ \A q \in Requests \ {r} : request'[q] = IF q = adm[a].victim THEN Superseded(request[q]) ELSE request[q]

(* Every committing admission has these records.                           *)
LEMMA AdmissionForms ==
    ASSUME StoreInv, NEW a, AttemptOK(adm[a]), adm[a].pc = "commit", AdmissionStands(a), AdmissionTxn(a)
    PROVE  \E input, r, t, w, x, row, held :
             Admission(a, input, r, t, w, x, row, held) /\ AdmissionWritten(a, r, t, row, held)
<1>1. RowTypes
  BY Zenon DEF StoreInv, StoreRows
<1>2. PICK input, r, t, w, x, row :
        /\ input = adm[a].input /\ r = input.key /\ t = adm[a].tid /\ w = adm[a].worker /\ x = BaseRow(a)
        /\ row = AdmittedRequest(input, t)
  BY Zenon
<1>3. input \in InputRecords /\ r \in Requests /\ t \in Tasks /\ w \in Workers /\ PlanOK(adm[a])
  BY <1>2, AdmissionWrites
<1>4. /\ x \in TaskRows /\ x.rev = task[t].rev
      /\ x = IF adm[a].plan = "new" THEN FirstRow(input.chat, input.affinity) ELSE task[t]
  BY <1>2, AdmissionWrites
<1>5. row \in RequestRows /\ request[r].state = "absent" /\ request[r].rev = 0 /\ r # adm[a].victim
  BY <1>2, AdmissionWrites
<1>6. PICK held : held = LeasedRow(x, w, r)
  BY Zenon
<1>7. /\ task' = [task EXCEPT ![t] = held] /\ receipt' = receipt
      /\ request' = [q \in Requests |-> IF q = r THEN row
                                        ELSE IF q = adm[a].victim THEN Superseded(request[q])
                                        ELSE request[q]]
      /\ tool' = [tool EXCEPT ![t] = [k \in ToolCalls |-> IF k \in adm[a].results THEN "completed" ELSE tool[t][k]]]
  BY <1>2, <1>6, AdmissionWrites
<1>8. /\ held \in TaskRows /\ held.state = "leased" /\ held.owner = w /\ held.lease = r
      /\ held.rev = task[t].rev + 1 /\ task[t].rev \in Nat /\ held.chat = x.chat /\ held.affinity = x.affinity
  BY <1>3, <1>4, <1>6, LeasedFacts
<1>9. /\ row.state = "open" /\ row.task = t /\ row.rev = 1
      /\ LRequest(row) = Ledger!AdmittedRequest(t, input.mode)
  BY <1>2, <1>3, AdmittedFacts, Zenon
<1>10. /\ task'[t] = held /\ \A u \in Tasks \ {t} : task'[u] = task[u]
       /\ request'[r] = row
       /\ \A q \in Requests \ {r} : request'[q] = IF q = adm[a].victim THEN Superseded(request[q]) ELSE request[q]
  BY <1>1, <1>3, <1>7, Zenon DEF RowTypes
<1>11. Admission(a, input, r, t, w, x, row, held)
  BY <1>2, <1>3, <1>4, <1>5, <1>8, <1>9, Zenon DEF Admission
<1>12. AdmissionWritten(a, r, t, row, held)
  BY <1>7, <1>10, Zenon DEF AdmissionWritten
<1> QED
  BY <1>11, <1>12, Zenon

(* What an admission does to the requests before it.                       *)
LEMMA AdmissionOthers ==
    ASSUME StoreInv, NEW a, NEW r, NEW t, NEW row, NEW held, AdmissionWritten(a, r, t, row, held),
           NEW q \in Requests, q # r
    PROVE  /\ request'[q] \in RequestRows
           /\ request'[q] = request[q] \/ request'[q].rev > request[q].rev
           /\ request[q].state # "absent" => request'[q].state # "absent"
           /\ request'[q].state = "open" => request[q].state = "open"
           /\ request'[q].task = request[q].task
           /\ request'[q] # request[q] => q = adm[a].victim
<1>1. request[q] \in RequestRows /\ request[q].rev \in Nat
  BY Zenon DEF StoreInv, StoreRows, RowTypes, RequestRows
<1>2. request'[q] = IF q = adm[a].victim THEN Superseded(request[q]) ELSE request[q]
  BY Zenon DEF AdmissionWritten
<1>3. CASE q = adm[a].victim
  <2>1. request'[q] = Superseded(request[q])
    BY <1>2, <1>3, Zenon
  <2>2. /\ request'[q] \in RequestRows /\ request'[q].rev = request[q].rev + 1
        /\ request'[q].state = "closed" /\ request'[q].task = request[q].task
    BY <1>1, <2>1, SupersededFacts
  <2> QED
    BY <1>1, <1>3, <2>2
<1>4. CASE q # adm[a].victim
  BY <1>1, <1>2, <1>4, Zenon
<1> QED
  BY <1>3, <1>4, Zenon

(* An admission keeps the records' types and places.                       *)
LEMMA AdmissionPlaced ==
    ASSUME StoreInv, NEW a, NEW input, NEW r, NEW t, NEW w, NEW x, NEW row, NEW held,
           Admission(a, input, r, t, w, x, row, held), AdmissionWritten(a, r, t, row, held)
    PROVE  RowTypes' /\ Placed'
<1>1. r \in Requests /\ t \in Tasks /\ w \in Workers /\ PlanOK(adm[a]) /\ AdmissionStands(a)
  BY Zenon DEF Admission
<1>2. held \in TaskRows /\ held.state = "leased" /\ held.owner = w
  BY Zenon DEF Admission
<1>3. row \in RequestRows /\ row.state = "open" /\ row.task = t
  BY Zenon DEF Admission
<1>4. task'[t] = held /\ (\A u \in Tasks \ {t} : task'[u] = task[u]) /\ request'[r] = row
  BY Zenon DEF AdmissionWritten
<1>5. RowTypes'
  <2>1. task' \in [Tasks -> TaskRows]
    BY <1>1, <1>2, Zenon DEF StoreInv, StoreRows, RowTypes, AdmissionWritten
  <2>2. request' = [q \in Requests |-> request'[q]]
    BY Zenon DEF AdmissionWritten
  <2>3. \A q \in Requests : request'[q] \in RequestRows
    BY <1>3, <1>4, AdmissionOthers
  <2> QED
    BY <2>1, <2>2, <2>3, Zenon DEF RowTypes
<1>6. \A u \in Tasks : IF task'[u].state = "absent" THEN task'[u].rev = 0 ELSE task'[u].owner \in Workers
  BY <1>1, <1>2, <1>4, Zenon DEF StoreInv, StoreRows, Placed
<1>7. task'[t].state # "absent" /\ \A u \in Tasks : task[u].state # "absent" => task'[u].state # "absent"
  BY <1>2, <1>4, Zenon
<1>8. ASSUME NEW q \in Requests
      PROVE  IF request'[q].state = "absent" THEN request'[q].rev = 0
             ELSE request'[q].task \in Tasks /\ task'[request'[q].task].state # "absent"
  <2>1. CASE q = r
    BY <1>1, <1>3, <1>4, <1>7, <2>1
  <2>2. CASE q # r /\ request'[q] = request[q]
    BY <1>7, <2>2, Zenon DEF StoreInv, StoreRows, Placed
  <2>3. CASE q # r /\ request'[q] # request[q]
    <3>1. q = adm[a].victim
      BY <2>3, AdmissionOthers, Zenon
    <3>2. adm[a].plan = "preempt"
      BY <1>1, <3>1, ExpiryAssumption, Zenon DEF PlanOK
    <3>3. request[q].state = "open"
      BY <1>1, <3>1, <3>2, Zenon DEF AdmissionStands, Active
    <3>4. request'[q].state # "absent" /\ request'[q].task = request[q].task
      BY <2>3, <3>3, AdmissionOthers
    <3> QED
      BY <1>7, <3>3, <3>4, Zenon DEF StoreInv, StoreRows, Placed
  <2> QED
    BY <2>1, <2>2, <2>3
<1> QED
  BY <1>5, <1>6, <1>8, Zenon DEF Placed

(* The tool calls of other tasks stay, and no call appears.                *)
LEMMA AdmissionTools ==
    ASSUME StoreInv, NEW a, NEW input, NEW r, NEW t, NEW w, NEW x, NEW row, NEW held,
           Admission(a, input, r, t, w, x, row, held), AdmissionWritten(a, r, t, row, held)
    PROVE  /\ \A u \in Tasks \ {t} : tool'[u] = tool[u]
           /\ \A k \in ToolCalls : tool'[t][k] = IF k \in adm[a].results THEN "completed" ELSE tool[t][k]
           /\ ChatUntooled'
<1>1. t \in Tasks /\ AdmissionStands(a) /\ input = adm[a].input /\ t = adm[a].tid /\ task[t].rev \in Nat
  BY Zenon DEF Admission
<1>2. tool' = [tool EXCEPT ![t] = [k \in ToolCalls |-> IF k \in adm[a].results THEN "completed" ELSE tool[t][k]]]
  BY Zenon DEF AdmissionWritten
<1>3. /\ \A u \in Tasks \ {t} : tool'[u] = tool[u]
      /\ \A k \in ToolCalls : tool'[t][k] = IF k \in adm[a].results THEN "completed" ELSE tool[t][k]
  BY <1>1, <1>2, LedgerFacts
<1>4. \A k \in ToolCalls : tool[t][k] = "absent" => tool'[t][k] = "absent"
  BY <1>1, <1>3, LedgerFacts, Zenon DEF AdmissionStands
<1>5. /\ task'[t] = held /\ (\A u \in Tasks \ {t} : task'[u] = task[u])
      /\ held.state = "leased" /\ held.chat = x.chat
      /\ x = IF adm[a].plan = "new" THEN FirstRow(input.chat, input.affinity) ELSE task[t]
  BY Zenon DEF Admission, AdmissionWritten
<1>6. ASSUME held.chat PROVE \A k \in ToolCalls : tool'[t][k] = "absent"
  <2>1. task[t].state = "absent" \/ task[t].chat
    BY <1>1, <1>5, <1>6, Zenon DEF AdmissionStands
  <2> QED
    BY <1>1, <1>4, <2>1, Zenon DEF StoreInv, StoreRows, ChatUntooled
<1>7. ChatUntooled'
  BY <1>3, <1>5, <1>6 DEF StoreInv, StoreRows, ChatUntooled
<1> QED
  BY <1>3, <1>7, Zenon

(* An admission moves revisions forward and opens only its own key.        *)
LEMMA AdmissionMoves ==
    ASSUME StoreInv, NEW a, NEW input, NEW r, NEW t, NEW w, NEW x, NEW row, NEW held, NEW c,
           Admission(a, input, r, t, w, x, row, held), AdmissionWritten(a, r, t, row, held)
    PROVE  StoreMoves(c) /\ Opens({r})
<1>1. /\ r \in Requests /\ t \in Tasks /\ request[r].state = "absent" /\ request[r].rev = 0 /\ row.rev = 1
      /\ held.rev = task[t].rev + 1 /\ task[t].rev \in Nat /\ held.lease = r
  BY Zenon DEF Admission
<1>2. /\ task'[t] = held /\ (\A u \in Tasks \ {t} : task'[u] = task[u]) /\ request'[r] = row /\ receipt' = receipt
  BY Zenon DEF AdmissionWritten
<1>3. \A u \in Tasks : task'[u].rev = task[u].rev => PendingCalls(u)' = PendingCalls(u)
  <2>1. \A u \in Tasks \ {t} : tool'[u] = tool[u]
    BY AdmissionTools
  <2> QED
    BY <1>1, <1>2, <2>1 DEF PendingCalls
<1>4. \A u \in Tasks : /\ task'[u] = task[u] \/ task'[u].rev > task[u].rev
                       /\ task'[u].state = "leased" => task'[u] = task[u] \/ request[task'[u].lease].state = "absent"
  BY <1>1, <1>2
<1>5. \A q \in Requests :
        /\ request'[q] = request[q] \/ request'[q].rev > request[q].rev
        /\ request[q].state # "absent" => request'[q].state # "absent" /\ request'[q].task = request[q].task
        /\ request'[q].state = "open" => request[q].state = "open" \/ q \in {r}
  BY <1>1, <1>2, AdmissionOthers
<1> QED
  BY <1>2, <1>3, <1>4, <1>5, Zenon DEF StoreMoves, Opens

(* The ledger's view of an admission.                                      *)
LEMMA AdmissionViews ==
    ASSUME StoreInv, NEW a, NEW input, NEW r, NEW t, NEW w, NEW x, NEW row, NEW held,
           Admission(a, input, r, t, w, x, row, held), AdmissionWritten(a, r, t, row, held)
    PROVE  /\ LedgerTask' = [LedgerTask EXCEPT ![t] = LTask(held)]
           /\ LedgerTask[t].state = task[t].state /\ LedgerTask[t].lease = task[t].lease
           /\ LedgerRequest[r].state = "absent" /\ input.mode \in Modes
           /\ adm[a].victim = None => LedgerRequest' = [LedgerRequest EXCEPT ![r] = LRequest(row)]
           /\ adm[a].results = {} => tool' = tool
<1>1. RowTypes
  BY Zenon DEF StoreInv, StoreRows
<1>2. input \in InputRecords /\ r \in Requests /\ t \in Tasks /\ request[r].state = "absent"
  BY Zenon DEF Admission
<1>3. /\ task' = [task EXCEPT ![t] = held]
      /\ request' = [q \in Requests |-> IF q = r THEN row
                                        ELSE IF q = adm[a].victim THEN Superseded(request[q])
                                        ELSE request[q]]
      /\ tool' = [tool EXCEPT ![t] = [k \in ToolCalls |-> IF k \in adm[a].results THEN "completed" ELSE tool[t][k]]]
  BY Zenon DEF AdmissionWritten
<1>4. LedgerTask' = [LedgerTask EXCEPT ![t] = LTask(held)]
  BY <1>1, <1>2, <1>3, MapTask, Zenon
<1>5. /\ LedgerTask[t].state = task[t].state /\ LedgerTask[t].lease = task[t].lease
      /\ LedgerRequest[r].state = "absent" /\ input.mode \in Modes
  BY <1>2, Zenon DEF LedgerTask, LedgerRequest, InputRecords
<1>6. ASSUME adm[a].victim = None PROVE LedgerRequest' = [LedgerRequest EXCEPT ![r] = LRequest(row)]
  <2>1. request' = [request EXCEPT ![r] = row]
    BY <1>1, <1>2, <1>3, <1>6, ExpiryAssumption, Zenon DEF RowTypes
  <2> QED
    BY <1>1, <1>2, <2>1, MapRequest, Zenon
<1>7. ASSUME adm[a].results = {} PROVE tool' = tool
  BY <1>2, <1>3, <1>7, LedgerFacts
<1> QED
  BY <1>4, <1>5, <1>6, <1>7, Zenon

(* An admission to a new task is the ledger's.                             *)
LEMMA NewImplements ==
    ASSUME StoreInv, NEW a, NEW input, NEW r, NEW t, NEW w, NEW x, NEW row, NEW held,
           Admission(a, input, r, t, w, x, row, held), AdmissionWritten(a, r, t, row, held), adm[a].plan = "new"
    PROVE  Ledger!Next
<1>1. /\ input \in InputRecords /\ r \in Requests /\ t \in Tasks /\ w \in Workers
      /\ PlanOK(adm[a]) /\ AdmissionStands(a) /\ t = adm[a].tid
      /\ LRequest(row) = Ledger!AdmittedRequest(t, input.mode)
  BY Zenon DEF Admission
<1>2. /\ held.state = "leased" /\ held.owner = w /\ held.lease = r /\ held.chat = x.chat
      /\ x = FirstRow(input.chat, input.affinity)
  BY Zenon DEF Admission
<1>3. adm[a].victim = None /\ adm[a].results = {} /\ task[t].state = "absent"
  BY <1>1, Zenon DEF PlanOK, AdmissionStands
<1>4. held.chat = input.chat /\ input.chat \in BOOLEAN
  BY <1>1, <1>2, FirstFacts, Zenon DEF InputRecords
<1>5. LTask(held) = [state |-> "leased", owner |-> w, lease |-> r, chat |-> input.chat]
  BY <1>2, <1>4, Zenon DEF LTask
<1>6. receipt' = receipt
  BY Zenon DEF AdmissionWritten
<1>7. /\ LedgerTask' = [LedgerTask EXCEPT ![t] = LTask(held)]
      /\ LedgerTask[t].state = task[t].state
      /\ LedgerRequest[r].state = "absent" /\ input.mode \in Modes
      /\ LedgerRequest' = [LedgerRequest EXCEPT ![r] = LRequest(row)] /\ tool' = tool
  BY <1>3, AdmissionViews
<1>8. Ledger!AdmitNew(r, t, w, input.chat, input.mode)
  BY <1>1, <1>3, <1>5, <1>6, <1>7, Zenon DEF Ledger!AdmitNew
<1> QED
  BY <1>1, <1>4, <1>7, <1>8, SameWords, Zenon DEF Ledger!Next

(* The lease of a task that goes on is the ledger's.                       *)
LEMMA LeaseImplements ==
    ASSUME StoreInv, NEW a, NEW input, NEW r, NEW t, NEW w, NEW x, NEW row, NEW held,
           Admission(a, input, r, t, w, x, row, held), adm[a].plan \in {"continue", "preempt"}
    PROVE  LTask(held) = Ledger!Leased(LedgerTask[t], r)
<1>1. /\ t \in Tasks /\ PlanOK(adm[a]) /\ AdmissionStands(a) /\ t = adm[a].tid /\ w = adm[a].worker
      /\ held.state = "leased" /\ held.owner = w /\ held.lease = r /\ held.chat = x.chat
  BY Zenon DEF Admission
<1>2. x = task[t]
  BY Zenon DEF Admission
<1>3. w = task[t].owner
  BY <1>1, Zenon DEF PlanOK, AdmissionStands, Snap
<1>4. held.state = "leased" /\ held.owner = task[t].owner /\ held.lease = r /\ held.chat = task[t].chat
  BY <1>1, <1>2, <1>3, Zenon
<1>5. LTask(held) = [state |-> "leased", owner |-> task[t].owner, lease |-> r, chat |-> task[t].chat]
  BY <1>4, Zenon DEF LTask
<1>6. LedgerTask[t] = [state |-> task[t].state, owner |-> task[t].owner, lease |-> task[t].lease, chat |-> task[t].chat]
  BY <1>1, Zenon DEF LedgerTask
<1>7. LedgerTask[t] \in Ledger!TaskRecords
  BY <1>1, Zenon DEF StoreInv, Ledger!IInv, Ledger!TypeOK
<1>8. PICK y : y = [LedgerTask[t] EXCEPT !.state = "leased", !.lease = r]
  BY Zenon
<1>9. y.state = "leased" /\ y.lease = r /\ y.owner = LedgerTask[t].owner
  BY <1>7, <1>8, Zenon DEF Ledger!TaskRecords
<1>10. y.chat = LedgerTask[t].chat
  BY <1>7, <1>8, Zenon DEF Ledger!TaskRecords
<1>11. y = [state |-> y.state, owner |-> y.owner, lease |-> y.lease, chat |-> y.chat]
  BY <1>7, <1>8, ZenonT(30) DEF Ledger!TaskRecords
<1> QED
  BY <1>5, <1>6, <1>8, <1>9, <1>10, <1>11 DEF Ledger!Leased

(* An admission to a task that waits is the ledger's.                      *)
LEMMA ContinuationImplements ==
    ASSUME StoreInv, NEW a, NEW input, NEW r, NEW t, NEW w, NEW x, NEW row, NEW held,
           Admission(a, input, r, t, w, x, row, held), AdmissionWritten(a, r, t, row, held), adm[a].plan = "continue"
    PROVE  Ledger!Next
<1>1. /\ r \in Requests /\ t \in Tasks /\ PlanOK(adm[a]) /\ AdmissionStands(a) /\ t = adm[a].tid
      /\ LRequest(row) = Ledger!AdmittedRequest(t, input.mode)
  BY Zenon DEF Admission
<1>2. adm[a].victim = None /\ task[t].state \in IdleStates /\ adm[a].results = PendingCalls(t)
  BY <1>1, Zenon DEF PlanOK, AdmissionStands
<1>3. /\ tool' = [tool EXCEPT ![t] = [k \in ToolCalls |-> IF k \in adm[a].results THEN "completed" ELSE tool[t][k]]]
      /\ receipt' = receipt
  BY Zenon DEF AdmissionWritten
<1>4. tool' = [tool EXCEPT ![t] = Ledger!SettleResults(t)]
  BY <1>1, <1>2, <1>3, LedgerFacts, ZenonT(30) DEF Ledger!SettleResults, PendingCalls
<1>5. /\ LedgerTask' = [LedgerTask EXCEPT ![t] = LTask(held)]
      /\ LedgerTask[t].state = task[t].state
      /\ LedgerRequest[r].state = "absent" /\ input.mode \in Modes
      /\ LedgerRequest' = [LedgerRequest EXCEPT ![r] = LRequest(row)]
  BY <1>2, AdmissionViews
<1>6. LTask(held) = Ledger!Leased(LedgerTask[t], r)
  BY LeaseImplements
<1>7. Ledger!AdmitContinuation(r, t, input.mode)
  BY <1>1, <1>2, <1>3, <1>4, <1>5, <1>6, SameWords, Zenon DEF Ledger!AdmitContinuation, Ledger!Continues
<1> QED
  BY <1>1, <1>5, <1>7, SameWords DEF Ledger!Next

(* An admission that takes a task over is the ledger's.                    *)
LEMMA PreemptionImplements ==
    ASSUME StoreInv, NEW a, NEW input, NEW r, NEW t, NEW w, NEW x, NEW row, NEW held,
           Admission(a, input, r, t, w, x, row, held), AdmissionWritten(a, r, t, row, held), adm[a].plan = "preempt"
    PROVE  Ledger!Next
<1>1. /\ r \in Requests /\ t \in Tasks /\ PlanOK(adm[a]) /\ AdmissionStands(a) /\ t = adm[a].tid
      /\ LRequest(row) = Ledger!AdmittedRequest(t, input.mode) /\ r # adm[a].victim
  BY Zenon DEF Admission
<1>2. adm[a].results = {} /\ task[t].state \in ActiveStates /\ adm[a].victim \in Active(t)
  BY <1>1, ZenonT(30) DEF PlanOK, AdmissionStands
<1>3. PICK v \in Requests : v = adm[a].victim /\ v = task[t].lease /\ v # r
  BY <1>1, <1>2, LedgerFacts DEF Active
<1>4. RowTypes /\ receipt' = receipt
  BY Zenon DEF StoreInv, StoreRows, AdmissionWritten
<1>5. request' = [request EXCEPT ![v] = Superseded(request[v]), ![r] = row]
  BY <1>1, <1>3, <1>4, ZenonT(30) DEF RowTypes, AdmissionWritten
<1>6. LedgerRequest' = [LedgerRequest EXCEPT ![v] = LRequest(Superseded(request[v])), ![r] = LRequest(row)]
  <2>1. LedgerRequest' = [q \in Requests |-> LRequest(request'[q])] /\ LedgerRequest = [q \in Requests |-> LRequest(request[q])]
    BY Zenon DEF LedgerRequest, LRequest
  <2> QED
    BY <1>3, <1>4, <1>5, <2>1, Zenon DEF RowTypes
<1>7. LRequest(Superseded(request[v])) = Ledger!Superseded(LedgerRequest[v])
  <2>1. LedgerRequest[v] = LRequest(request[v]) /\ request[v] \in RequestRows
    BY <1>4, Zenon DEF LedgerRequest, LRequest, RowTypes
  <2> QED
    BY <2>1, SupersededFacts, Zenon
<1>8. /\ LedgerTask' = [LedgerTask EXCEPT ![t] = LTask(held)]
      /\ LedgerTask[t].state = task[t].state /\ LedgerTask[t].lease = v
      /\ LedgerRequest[r].state = "absent" /\ input.mode \in Modes /\ tool' = tool
  BY <1>2, <1>3, AdmissionViews, SMTT(30)
<1>9. LTask(held) = Ledger!Leased(LedgerTask[t], r)
  BY LeaseImplements
<1>10. Ledger!AdmitPreempting(r, t, input.mode)
  BY <1>1, <1>2, <1>4, <1>6, <1>7, <1>8, <1>9, SameWords, Zenon DEF Ledger!AdmitPreempting
<1> QED
  BY <1>1, <1>8, <1>10, SameWords, Zenon DEF Ledger!Next

(* An admission opens no second task for a session.                        *)
LEMMA AdmissionSessions ==
    ASSUME StoreInv, NEW a, NEW input, NEW r, NEW t, NEW w, NEW x, NEW row, NEW held,
           Admission(a, input, r, t, w, x, row, held), AdmissionWritten(a, r, t, row, held)
    PROVE  SessionsKept
<1>1. /\ input \in InputRecords /\ t \in Tasks /\ PlanOK(adm[a]) /\ AdmissionStands(a)
      /\ input = adm[a].input /\ t = adm[a].tid
      /\ held.state = "leased" /\ held.chat = x.chat /\ held.affinity = x.affinity
      /\ x = IF adm[a].plan = "new" THEN FirstRow(input.chat, input.affinity) ELSE task[t]
  BY Zenon DEF Admission
<1>2. task'[t] = held /\ \A u \in Tasks \ {t} : task'[u] = task[u]
  BY Zenon DEF AdmissionWritten
<1>3. ASSUME adm[a].plan # "new" PROVE SessionsKept
  <2>1. x = task[t] /\ task[t].state \in ActiveStates \cup IdleStates
    BY <1>1, <1>3, Zenon DEF PlanOK, AdmissionStands
  <2>2. Continuable(held) => Continuable(task[t]) /\ held.affinity = task[t].affinity
    BY <1>1, <2>1, Zenon DEF Continuable
  <2> QED
    BY <1>2, <2>2, SessionsStay, Zenon
<1>4. ASSUME adm[a].plan = "new" PROVE SessionsKept
  <2>1. held.chat = input.chat /\ held.affinity = input.affinity
    BY <1>1, <1>4, FirstFacts, Zenon DEF InputRecords
  <2>2. input.chat \/ OpenTasks(input.affinity) = {}
    BY <1>1, <1>4, Zenon DEF AdmissionStands
  <2>3. \A u \in Tasks \ {t} : Continuable(held) /\ Continuable(task'[u]) => task'[u].affinity # held.affinity
    BY <1>2, <2>1, <2>2, Zenon DEF Continuable, OpenTasks
  <2> QED
    BY <1>2, <2>3, Zenon DEF SessionsKept, OneOpenTaskPerSession, OpenTasks, Continuable
<1> QED
  BY <1>3, <1>4, Zenon

(* A request is admitted, to a new task, a waiting one or a taken-over one. *)
LEMMA AdmissionStore ==
    ASSUME StoreInv, NEW a, AttemptOK(adm[a]), adm[a].pc = "commit", AdmissionStands(a), AdmissionTxn(a), NEW c
    PROVE  /\ StoreRows' /\ StoreStep(c, {adm[a].input.key}) /\ Ledger!Next
           /\ request'[adm[a].input.key].state # "absent"
<1>1. PICK input, r, t, w, x, row, held :
        Admission(a, input, r, t, w, x, row, held) /\ AdmissionWritten(a, r, t, row, held)
  BY AdmissionForms, Zenon
<1>2. r = adm[a].input.key /\ PlanOK(adm[a]) /\ request'[r].state # "absent"
  BY <1>1, Zenon DEF Admission, AdmissionWritten
<1>3. StoreRows'
  BY <1>1, AdmissionPlaced, AdmissionTools, Zenon DEF StoreRows
<1>4. StoreMoves(c) /\ Opens({r}) /\ SessionsKept
  BY <1>1, AdmissionMoves, AdmissionSessions, Zenon
<1>5. Ledger!Next
  <2>1. adm[a].plan \in {"new", "continue", "preempt"}
    BY <1>2, Zenon DEF PlanOK
  <2> QED
    BY <1>1, <2>1, NewImplements, ContinuationImplements, PreemptionImplements, Zenon
<1> QED
  BY <1>2, <1>3, <1>4, <1>5, Zenon DEF StoreStep
=============================================================================
