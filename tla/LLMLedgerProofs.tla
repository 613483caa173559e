--------------------------- MODULE LLMLedgerProofs ---------------------------
(***************************************************************************)
(* Proofs that LLMLedger keeps its promises for any tasks, requests,       *)
(* workers, events and tool calls.  Every theorem follows from one         *)
(* inductive invariant, IInv.                                              *)
(***************************************************************************)
EXTENDS LLMLedger, TLAPS

-----------------------------------------------------------------------------
(* The operators                                                           *)

(* planWorkerEvent keeps the task active exactly when the response stays   *)
(* open, and makes it wait for results exactly after tool calls.           *)
LEMMA EventStateFacts ==
    ASSUME NEW kind \in Kinds, NEW state \in TaskStates, NEW chat \in BOOLEAN
    PROVE  /\ EventState(kind, state, chat) \in TaskStates
           /\ ~EndsResponse(kind) => EventState(kind, state, chat) = state
           /\ EndsResponse(kind) => EventState(kind, state, chat) \notin ActiveStates
           /\ state # "awaiting_results" =>
                (EventState(kind, state, chat) = "awaiting_results" <=> kind = "tool_calls" /\ ~chat)
BY Zenon DEF EventState, EndsResponse, Kinds, TaskStates, ActiveStates, IdleStates, TerminalStates

(* The status of a finished aggregate response is one the Store may hold.  *)
LEMMA StatusType ==
    ASSUME NEW kind \in Kinds
    PROVE  AggregateTerminalStatus(kind) \in Statuses
BY DEF AggregateTerminalStatus, Statuses, Kinds

(* A request as it is admitted.                                            *)
LEMMA AdmittedFacts ==
    ASSUME NEW t \in Tasks, NEW mode \in Modes
    PROVE  /\ AdmittedRequest(t, mode) \in RequestRecords
           /\ AdmittedRequest(t, mode).state = "open"
           /\ AdmittedRequest(t, mode).task = t
           /\ AdmittedRequest(t, mode).mode = mode
           /\ AdmittedRequest(t, mode).decision = IF mode = "stream" THEN 200 ELSE 0
           /\ ~AdmittedRequest(t, mode).pruned
           /\ AdmittedRequest(t, mode).log = <<>>
BY DEF AdmittedRequest, NoRequest, RequestRecords, Modes, Statuses

(* The other ways a record changes.                                        *)
LEMMA TaskRecordFacts ==
    ASSUME NEW rec \in TaskRecords
    PROVE  /\ \A r \in Requests : /\ Leased(rec, r) \in TaskRecords
                                  /\ Leased(rec, r).state = "leased"
                                  /\ Leased(rec, r).lease = r
           /\ \A state \in TaskStates : /\ InState(rec, state) \in TaskRecords
                                        /\ InState(rec, state).state = state
                                        /\ InState(rec, state).lease = rec.lease
BY Zenon DEF TaskRecords, Leased, InState, TaskStates, ActiveStates

(* Superseding only closes the request.                                    *)
LEMMA SupersededFacts ==
    ASSUME NEW rec \in RequestRecords
    PROVE  /\ Superseded(rec) \in RequestRecords
           /\ Superseded(rec).state = "closed"
           /\ Superseded(rec).mode = rec.mode
           /\ Superseded(rec).pruned = rec.pruned
           /\ Superseded(rec).log = rec.log
           /\ Superseded(rec).decision = rec.decision
BY Zenon DEF RequestRecords, Superseded

(* Quarantine closes the request and gives an aggregate its failure        *)
(* status.                                                                 *)
LEMMA QuarantinedFacts ==
    ASSUME NEW rec \in RequestRecords
    PROVE  /\ Quarantined(rec) \in RequestRecords
           /\ Quarantined(rec).state = "closed"
           /\ Quarantined(rec).mode = rec.mode
           /\ Quarantined(rec).pruned = rec.pruned
           /\ Quarantined(rec).log = rec.log
           /\ Quarantined(rec).decision = IF rec.mode = "stream" THEN rec.decision ELSE 500
BY DEF RequestRecords, Quarantined, Statuses

(* Pruning empties the log and marks it.                                   *)
LEMMA WithoutPayloadFacts ==
    ASSUME NEW rec \in RequestRecords
    PROVE  /\ WithoutPayload(rec) \in RequestRecords
           /\ WithoutPayload(rec).state = rec.state
           /\ WithoutPayload(rec).task = rec.task
           /\ WithoutPayload(rec).mode = rec.mode
           /\ WithoutPayload(rec).pruned
           /\ WithoutPayload(rec).log = <<>>
           /\ WithoutPayload(rec).decision = rec.decision
<1>1. <<>> \in Seq(Events)
  OBVIOUS
<1> QED
  BY <1>1, Zenon DEF RequestRecords, WithoutPayload

(* A request with one more event.                                          *)
LEMMA AnsweredFacts ==
    ASSUME NEW rec \in RequestRecords, NEW event \in Events
    PROVE  /\ Answered(rec, event) \in RequestRecords
           /\ Answered(rec, event).state = IF EndsResponse(event.kind) THEN "closed" ELSE rec.state
           /\ Answered(rec, event).task = rec.task
           /\ Answered(rec, event).mode = rec.mode
           /\ Answered(rec, event).pruned = rec.pruned
           /\ Answered(rec, event).quarantined = rec.quarantined
           /\ Answered(rec, event).log = Append(rec.log, event)
           /\ ~(EndsResponse(event.kind) /\ rec.mode = "aggregate") => Answered(rec, event).decision = rec.decision
<1>1. event.kind \in Kinds
  BY Zenon DEF Events
<1>2. AggregateTerminalStatus(event.kind) \in Statuses
  BY <1>1, StatusType, Zenon
<1>3. Append(rec.log, event) \in Seq(Events)
  BY DEF RequestRecords
<1> QED
  BY <1>2, <1>3, Zenon DEF Answered, RequestRecords
-----------------------------------------------------------------------------
(* Nothing is recorded in an empty Store.                                  *)
LEMMA InitIInv == Init => IInv
BY DEF Init, IInv, Range, IsInjective, TypeOK, BlankUntilAdmitted, DecidedInTime, LeaseNamesOpenRequest, AppliedExactlyOnce,
       AnsweredAtMostOnce, PendingToolsAwaited, NoTask, NoRequest, TaskRecords, RequestRecords,
       TaskStates, ActiveStates, IdleStates, TerminalStates, Modes, Statuses

(* What was never admitted was never receipted.                            *)
LEMMA UnreceiptedUntilAdmitted ==
    ASSUME IInv, NEW r \in Requests, request[r].state = "absent"
    PROVE  receipt[r] = {}
<1>1. request[r].log = <<>> /\ ~request[r].pruned /\ Range(<<>>) = {}
  BY DEF IInv, BlankUntilAdmitted, NoRequest, Range
<1>2. Range(request[r].log) = receipt[r]
  BY <1>1, Zenon DEF IInv, AppliedExactlyOnce
<1> QED
  BY <1>1, <1>2, Zenon

(* A first request: its task was absent, so no open request names it.      *)
LEMMA AdmitNewIInv ==
    ASSUME IInv, NEW r \in Requests, NEW t \in Tasks, NEW mode \in Modes, NEW w \in Workers,
           NEW chat \in BOOLEAN, AdmitNew(r, t, w, chat, mode)
    PROVE  IInv'
<1> USE DEF AdmitNew, IInv
<1>a. /\ AdmittedRequest(t, mode) \in RequestRecords
      /\ AdmittedRequest(t, mode).state = "open"
      /\ AdmittedRequest(t, mode).task = t
      /\ AdmittedRequest(t, mode).mode = mode
      /\ AdmittedRequest(t, mode).decision = IF mode = "stream" THEN 200 ELSE 0
      /\ AdmittedRequest(t, mode).log = <<>>
  BY AdmittedFacts
<1>b. receipt[r] = {}
  BY UnreceiptedUntilAdmitted, Zenon
<1>1. TypeOK'
  BY <1>a, Zenon DEF TypeOK, TaskRecords, TaskStates, ActiveStates
<1>2. BlankUntilAdmitted'
  BY <1>a, Zenon DEF TypeOK, BlankUntilAdmitted
<1>3. DecidedInTime'
  BY <1>a DEF TypeOK, DecidedInTime
<1>4. LeaseNamesOpenRequest'
  BY <1>a DEF TypeOK, LeaseNamesOpenRequest, ActiveStates
<1>5. AppliedExactlyOnce'
  BY <1>a, <1>b DEF TypeOK, AppliedExactlyOnce, Range, IsInjective
<1>6. AnsweredAtMostOnce'
  BY <1>a, <1>b, Zenon DEF TypeOK, AnsweredAtMostOnce
<1>7. PendingToolsAwaited'
  BY Zenon DEF TypeOK, PendingToolsAwaited
<1> QED
  BY <1>1, <1>2, <1>3, <1>4, <1>5, <1>6, <1>7, Zenon

(* A continuation: an idle task has no open request, and its awaited tool  *)
(* calls are settled by the step.                                          *)
LEMMA AdmitContinuationIInv ==
    ASSUME IInv, NEW r \in Requests, NEW t \in Tasks, NEW mode \in Modes, AdmitContinuation(r, t, mode)
    PROVE  IInv'
<1> USE DEF AdmitContinuation, IInv, Continues
<1>a. /\ AdmittedRequest(t, mode) \in RequestRecords
      /\ AdmittedRequest(t, mode).state = "open"
      /\ AdmittedRequest(t, mode).task = t
      /\ AdmittedRequest(t, mode).mode = mode
      /\ AdmittedRequest(t, mode).decision = IF mode = "stream" THEN 200 ELSE 0
      /\ AdmittedRequest(t, mode).log = <<>>
  BY AdmittedFacts
<1>b. receipt[r] = {}
  BY UnreceiptedUntilAdmitted, Zenon
<1>c. /\ Leased(task[t], r) \in TaskRecords
      /\ Leased(task[t], r).state = "leased"
      /\ Leased(task[t], r).lease = r
  BY TaskRecordFacts DEF TypeOK
<1>1. TypeOK'
  BY <1>a, <1>c, Zenon DEF TypeOK, SettleResults
<1>2. BlankUntilAdmitted'
  BY <1>a, Zenon DEF TypeOK, BlankUntilAdmitted
<1>3. DecidedInTime'
  BY <1>a DEF TypeOK, DecidedInTime
<1>4. LeaseNamesOpenRequest'
  BY <1>a, <1>c DEF TypeOK, LeaseNamesOpenRequest, ActiveStates, IdleStates
<1>5. AppliedExactlyOnce'
  BY <1>a, <1>b DEF TypeOK, AppliedExactlyOnce, Range, IsInjective
<1>6. AnsweredAtMostOnce'
  BY <1>a, <1>b, Zenon DEF TypeOK, AnsweredAtMostOnce
<1>7. PendingToolsAwaited'
  BY <1>c, Zenon DEF TypeOK, PendingToolsAwaited, SettleResults
<1> QED
  BY <1>1, <1>2, <1>3, <1>4, <1>5, <1>6, <1>7, Zenon

(* A takeover: the request closed is the one the lease names, the only     *)
(* open one of the task.                                                   *)
LEMMA AdmitPreemptingIInv ==
    ASSUME IInv, NEW r \in Requests, NEW t \in Tasks, NEW mode \in Modes, AdmitPreempting(r, t, mode)
    PROVE  IInv'
<1> DEFINE v == task[t].lease
           N == AdmittedRequest(t, mode)
           S == Superseded(request[v])
<1> USE DEF IInv
<1>a. /\ N \in RequestRecords
      /\ N.state = "open"
      /\ N.task = t
      /\ N.mode = mode
      /\ N.decision = IF mode = "stream" THEN 200 ELSE 0
      /\ N.log = <<>>
  BY AdmittedFacts
<1>b. receipt[r] = {}
  BY UnreceiptedUntilAdmitted, Zenon DEF AdmitPreempting
<1>c. /\ v \in Requests
      /\ v # r
      /\ request[v].state = "open"
      /\ request[v].task = t
      /\ \A x \in Requests \ {v} : request[x].state = "open" => request[x].task # t
  BY Zenon DEF AdmitPreempting, LeaseNamesOpenRequest
<1>d. /\ S \in RequestRecords
      /\ S.state = "closed"
      /\ S.pruned = request[v].pruned
      /\ S.log = request[v].log
  BY <1>c, SupersededFacts, Zenon DEF TypeOK
<1>e. /\ Leased(task[t], r) \in TaskRecords
      /\ Leased(task[t], r).state = "leased"
      /\ Leased(task[t], r).lease = r
  BY TaskRecordFacts, Zenon DEF TypeOK
<1>f. /\ task' = [task EXCEPT ![t] = Leased(task[t], r)]
      /\ request' = [request EXCEPT ![v] = S, ![r] = N]
      /\ receipt' = receipt
      /\ tool' = tool
      /\ task[t].state \in ActiveStates
      /\ request[r].state = "absent"
  BY Zenon DEF AdmitPreempting
<1> HIDE DEF v, N, S
<1>1. TypeOK'
  BY <1>a, <1>c, <1>d, <1>e, <1>f, Zenon DEF TypeOK
<1>2. BlankUntilAdmitted'
  BY <1>a, <1>c, <1>d, <1>f, Zenon DEF TypeOK, BlankUntilAdmitted
<1>3. DecidedInTime'
  BY <1>a, <1>c, <1>d, <1>f DEF TypeOK, DecidedInTime
<1>4. LeaseNamesOpenRequest'
  <2>1. ASSUME NEW u \in Tasks, task'[u].state \in ActiveStates
        PROVE  task'[u].lease \in Requests /\ request'[task'[u].lease].state = "open"
                 /\ request'[task'[u].lease].task = u
    BY <2>1, <1>a, <1>c, <1>e, <1>f DEF TypeOK, LeaseNamesOpenRequest
  <2>2. ASSUME NEW x \in Requests, request'[x].state = "open"
        PROVE  request'[x].task \in Tasks /\ task'[request'[x].task].state \in ActiveStates
                 /\ task'[request'[x].task].lease = x
    BY <2>2, <1>a, <1>c, <1>d, <1>e, <1>f DEF TypeOK, LeaseNamesOpenRequest, ActiveStates
  <2> QED
    BY <2>1, <2>2, Zenon DEF LeaseNamesOpenRequest
<1>5. AppliedExactlyOnce'
  BY <1>a, <1>b, <1>c, <1>d, <1>f DEF TypeOK, AppliedExactlyOnce, Range, IsInjective
<1>6. AnsweredAtMostOnce'
  BY <1>a, <1>b, <1>c, <1>d, <1>f, Zenon DEF TypeOK, AnsweredAtMostOnce
<1>7. PendingToolsAwaited'
  BY <1>e, <1>f, Zenon DEF TypeOK, PendingToolsAwaited, ActiveStates
<1> QED
  BY <1>1, <1>2, <1>3, <1>4, <1>5, <1>6, <1>7, Zenon

(* An ACK moves its task from one active state to the other.               *)
LEMMA AckAssignmentIInv ==
    ASSUME IInv, NEW t \in Tasks, AckAssignment(t)
    PROVE  IInv'
<1> USE DEF AckAssignment, IInv
<1>a. /\ InState(task[t], "awaiting_human") \in TaskRecords
      /\ InState(task[t], "awaiting_human").state = "awaiting_human"
      /\ InState(task[t], "awaiting_human").lease = task[t].lease
  BY TaskRecordFacts, Zenon DEF TypeOK, TaskStates, ActiveStates
<1>1. TypeOK'
  BY <1>a, Zenon DEF TypeOK
<1>2. BlankUntilAdmitted' /\ DecidedInTime' /\ AppliedExactlyOnce' /\ AnsweredAtMostOnce'
  BY Zenon DEF BlankUntilAdmitted, DecidedInTime, AppliedExactlyOnce, AnsweredAtMostOnce
<1>3. LeaseNamesOpenRequest'
  BY <1>a DEF TypeOK, LeaseNamesOpenRequest, ActiveStates
<1>4. PendingToolsAwaited'
  BY <1>a, Zenon DEF TypeOK, PendingToolsAwaited
<1> QED
  BY <1>1, <1>2, <1>3, <1>4, Zenon

(* Appending an element adds it to what a sequence holds.                  *)
LEMMA AppendRange ==
    ASSUME NEW S, NEW log \in Seq(S), NEW e \in S
    PROVE  Range(Append(log, e)) = Range(log) \cup {e}
<1> DEFINE after == Append(log, e)
<1>1. /\ DOMAIN log = 1..Len(log)
      /\ Len(log) \in Nat
      /\ DOMAIN after = 1..(Len(log) + 1)
      /\ \A i \in 1..Len(log) : after[i] = log[i]
      /\ after[Len(log) + 1] = e
  OBVIOUS
<1> HIDE DEF after
<1>2. Range(after) = Range(log) \cup {e}
  BY <1>1 DEF Range
<1> QED
  BY <1>2, Zenon DEF after

(* Appending a new element repeats none.                                   *)
LEMMA AppendInjective ==
    ASSUME NEW S, NEW log \in Seq(S), NEW e \in S,
           e \notin Range(log),
           IsInjective(log)
    PROVE  IsInjective(Append(log, e))
BY DEF Range, IsInjective

(* An event: it goes to the request its task's lease names, which is the   *)
(* only open one of the task, and its id is new to that request.           *)
LEMMA CommitEventIInv ==
    ASSUME IInv, NEW r \in Requests, NEW event \in Events, CommitEvent(r, event)
    PROVE  IInv'
<1> DEFINE t == request[r].task
           A == Answered(request[r], event)
           next == EventState(event.kind, task[t].state, task[t].chat)
           T == InState(task[t], next)
           tools == [c \in ToolCalls |-> IF c \in event.calls THEN "pending" ELSE tool[t][c]]
<1> USE DEF IInv
<1>a. /\ request[r].state = "open"
      /\ task[t].lease = r
      /\ \A known \in receipt[r] : known.id # event.id
      /\ task' = [task EXCEPT ![t] = T]
      /\ request' = [request EXCEPT ![r] = A]
      /\ receipt' = [receipt EXCEPT ![r] = receipt[r] \cup {event}]
      /\ tool' = IF task[t].chat THEN tool ELSE [tool EXCEPT ![t] = tools]
  BY Zenon DEF CommitEvent, Accepts, AcceptsUnseen
<1>b. /\ t \in Tasks
      /\ task[t].state \in ActiveStates
      /\ \A x \in Requests \ {r} : request[x].state = "open" => request[x].task # t
      /\ \A u \in Tasks \ {t} : task[u].state \in ActiveStates => task[u].lease # r
  BY <1>a, Zenon DEF LeaseNamesOpenRequest
<1>c. /\ A \in RequestRecords
      /\ A.state = IF EndsResponse(event.kind) THEN "closed" ELSE "open"
      /\ A.task = t
      /\ A.mode = request[r].mode
      /\ A.pruned = request[r].pruned
      /\ A.log = Append(request[r].log, event)
      /\ ~EndsResponse(event.kind) => A.decision = request[r].decision
  BY <1>a, AnsweredFacts DEF TypeOK
<1>d. /\ event.kind \in Kinds
      /\ event.calls \subseteq ToolCalls
      /\ event.calls # {} <=> event.kind = "tool_calls"
  BY Zenon DEF Events
<1>e. /\ next \in TaskStates
      /\ ~EndsResponse(event.kind) => next \in ActiveStates
      /\ EndsResponse(event.kind) => next \notin ActiveStates
      /\ next = "awaiting_results" <=> event.kind = "tool_calls" /\ ~task[t].chat
  <2>1. task[t].state \in TaskStates /\ task[t].state # "awaiting_results" /\ task[t].chat \in BOOLEAN
    BY <1>b, Zenon DEF TypeOK, TaskRecords, TaskStates, ActiveStates
  <2> QED
    BY <1>b, <1>d, <2>1, EventStateFacts
<1>f. /\ T \in TaskRecords
      /\ T.state = next
      /\ T.lease = r
  BY <1>a, <1>b, <1>e, TaskRecordFacts DEF TypeOK
<1>g. request[r].log \in Seq(Events)
  BY Zenon DEF TypeOK, RequestRecords
<1> HIDE DEF A, next, T
<1>1. TypeOK'
  BY <1>a, <1>b, <1>c, <1>f DEF TypeOK
<1>2. BlankUntilAdmitted'
  BY <1>a, <1>c, Zenon DEF TypeOK, BlankUntilAdmitted
<1>3. DecidedInTime'
  BY <1>a, <1>c DEF TypeOK, DecidedInTime
<1>4. LeaseNamesOpenRequest'
  <2>1. ASSUME NEW u \in Tasks, task'[u].state \in ActiveStates
        PROVE  task'[u].lease \in Requests /\ request'[task'[u].lease].state = "open"
                 /\ request'[task'[u].lease].task = u
    BY <2>1, <1>a, <1>b, <1>c, <1>e, <1>f DEF TypeOK, LeaseNamesOpenRequest
  <2>2. ASSUME NEW x \in Requests, request'[x].state = "open"
        PROVE  request'[x].task \in Tasks /\ task'[request'[x].task].state \in ActiveStates
                 /\ task'[request'[x].task].lease = x
    BY <2>2, <1>a, <1>b, <1>c, <1>e, <1>f DEF TypeOK, LeaseNamesOpenRequest
  <2> QED
    BY <2>1, <2>2, Zenon DEF LeaseNamesOpenRequest
<1>5. AppliedExactlyOnce'
  <2>1. ASSUME ~request[r].pruned
        PROVE  /\ Range(A.log) = receipt[r] \cup {event}
               /\ IsInjective(A.log)
    <3>1. Range(request[r].log) = receipt[r]
      BY <2>1, Zenon DEF AppliedExactlyOnce
    <3>2. IsInjective(request[r].log)
      BY <2>1, Zenon DEF AppliedExactlyOnce
    <3>3. event \notin receipt[r]
      BY <1>a, Zenon
    <3>4. Range(A.log) = receipt[r] \cup {event}
      BY <3>1, <1>c, <1>g, AppendRange
    <3>5. IsInjective(A.log)
      BY <3>1, <3>2, <3>3, <1>c, <1>g, AppendInjective, Zenon
    <3> QED
      BY <3>4, <3>5, Zenon
  <2>2. \A e1, e2 \in receipt[r] \cup {event} : e1.id = e2.id => e1 = e2
    BY <1>a, Zenon DEF AppliedExactlyOnce
  <2>3. ASSUME NEW x \in Requests
        PROVE  /\ \A e1, e2 \in receipt'[x] : e1.id = e2.id => e1 = e2
               /\ ~request'[x].pruned =>
                    /\ Range(request'[x].log) = receipt'[x]
                    /\ IsInjective(request'[x].log)
    <3>1. CASE x = r
      <4>1. request'[x] = A /\ receipt'[x] = receipt[r] \cup {event}
        BY <3>1, <1>a, Zenon DEF TypeOK
      <4> QED
        BY <4>1, <2>1, <2>2, <1>c, Zenon
    <3>2. CASE x # r
      <4>1. request'[x] = request[x] /\ receipt'[x] = receipt[x]
        BY <3>2, <1>a, Zenon DEF TypeOK
      <4> QED
        BY <4>1, Zenon DEF AppliedExactlyOnce
    <3> QED
      BY <3>1, <3>2, Zenon
  <2> QED
    BY <2>3, Zenon DEF AppliedExactlyOnce
<1>6. AnsweredAtMostOnce'
  BY <1>a, <1>c, Zenon DEF TypeOK, AnsweredAtMostOnce
<1>7. PendingToolsAwaited'
  <2>1. \A c \in ToolCalls : tool[t][c] # "pending"
    BY <1>b, Zenon DEF PendingToolsAwaited, ActiveStates
  <2>2. (\E c \in ToolCalls : tool'[t][c] = "pending") <=> task'[t].state = "awaiting_results"
    BY <2>1, <1>a, <1>b, <1>d, <1>e, <1>f, Zenon DEF TypeOK
  <2> QED
    BY <2>2, <1>a, <1>b DEF TypeOK, PendingToolsAwaited
<1> QED
  BY <1>1, <1>2, <1>3, <1>4, <1>5, <1>6, <1>7, Zenon

(* A quarantine closes the only open request of its task, which waits for  *)
(* no tool result.                                                         *)
LEMMA QuarantineIInv ==
    ASSUME IInv, NEW r \in Requests, Quarantine(r)
    PROVE  IInv'
<1> DEFINE t == request[r].task
           Q == Quarantined(request[r])
           T == InState(task[t], "failed")
<1> USE DEF IInv
<1>a. /\ request[r].state = "open"
      /\ task' = [task EXCEPT ![t] = T]
      /\ request' = [request EXCEPT ![r] = Q]
      /\ receipt' = receipt
      /\ tool' = tool
  BY Zenon DEF Quarantine, Unrecoverable
<1>b. /\ t \in Tasks
      /\ task[t].state \in ActiveStates
      /\ \A x \in Requests \ {r} : request[x].state = "open" => request[x].task # t
      /\ \A u \in Tasks \ {t} : task[u].state \in ActiveStates => task[u].lease # r
  BY <1>a, Zenon DEF LeaseNamesOpenRequest
<1>c. /\ Q \in RequestRecords
      /\ Q.state = "closed"
      /\ Q.pruned = request[r].pruned
      /\ Q.log = request[r].log
  BY QuarantinedFacts DEF TypeOK
<1>d. /\ T \in TaskRecords
      /\ T.state = "failed"
  BY <1>b, TaskRecordFacts DEF TypeOK, TaskStates, TerminalStates
<1> HIDE DEF Q, T
<1>1. TypeOK'
  BY <1>a, <1>c, <1>d, Zenon DEF TypeOK
<1>2. BlankUntilAdmitted' /\ DecidedInTime'
  BY <1>a, <1>c, Zenon DEF TypeOK, BlankUntilAdmitted, DecidedInTime
<1>3. LeaseNamesOpenRequest'
  BY <1>a, <1>b, <1>c, <1>d DEF TypeOK, LeaseNamesOpenRequest, ActiveStates
<1>4. AppliedExactlyOnce'
  BY <1>a, <1>c, Zenon DEF TypeOK, AppliedExactlyOnce
<1>5. AnsweredAtMostOnce'
  BY <1>a, <1>c, Zenon DEF TypeOK, AnsweredAtMostOnce
<1>6. PendingToolsAwaited'
  BY <1>a, <1>b, <1>d, Zenon DEF TypeOK, PendingToolsAwaited, ActiveStates
<1> QED
  BY <1>1, <1>2, <1>3, <1>4, <1>5, <1>6, Zenon

(* Retention only touches closed requests and settled tool calls.          *)
LEMMA PruneIInv ==
    ASSUME IInv, NEW r \in Requests, Prune(r)
    PROVE  IInv'
<1> DEFINE t == request[r].task
           P == WithoutPayload(request[r])
<1> USE DEF IInv
<1>a. /\ request[r].state = "closed"
      /\ request' = [request EXCEPT ![r] = P]
      /\ task' = task
      /\ receipt' = receipt
      /\ \/ tool' = tool
         \/ tool' = [tool EXCEPT ![t] = WithoutResults(t)]
  BY Zenon DEF Prune
<1>b. /\ P \in RequestRecords
      /\ P.state = "closed"
      /\ P.pruned
  BY <1>a, WithoutPayloadFacts, Zenon DEF TypeOK
<1> HIDE DEF P
<1>c. \A u \in Tasks, c \in ToolCalls : tool'[u][c] = "pending" <=> tool[u][c] = "pending"
  BY <1>a DEF TypeOK, WithoutResults
<1>1. TypeOK'
  BY <1>a, <1>b DEF TypeOK, WithoutResults
<1>2. BlankUntilAdmitted' /\ DecidedInTime'
  BY <1>a, <1>b, Zenon DEF TypeOK, BlankUntilAdmitted, DecidedInTime
<1>3. LeaseNamesOpenRequest'
  BY <1>a, <1>b, ZenonT(30) DEF TypeOK, LeaseNamesOpenRequest
<1>4. AppliedExactlyOnce'
  BY <1>a, <1>b, Zenon DEF TypeOK, AppliedExactlyOnce
<1>5. AnsweredAtMostOnce'
  BY <1>a, <1>b, Zenon DEF TypeOK, AnsweredAtMostOnce
<1>6. PendingToolsAwaited'
  BY <1>a, <1>c, Zenon DEF PendingToolsAwaited
<1> QED
  BY <1>1, <1>2, <1>3, <1>4, <1>5, <1>6

(* The invariant is about the records only.                                *)
LEMMA StutterIInv ==
    ASSUME IInv, UNCHANGED vars
    PROVE  IInv'
BY DEF IInv, vars, TypeOK, BlankUntilAdmitted, DecidedInTime, LeaseNamesOpenRequest, AppliedExactlyOnce,
       AnsweredAtMostOnce, PendingToolsAwaited

(* Every operation preserves the inductive invariant.                      *)
LEMMA NextIInv == IInv /\ [Next]_vars => IInv'
<1> SUFFICES ASSUME IInv, [Next]_vars PROVE IInv'
  BY Zenon
<1>1. CASE \E r \in Requests, t \in Tasks, mode \in Modes :
             \E w \in Workers, chat \in BOOLEAN : AdmitNew(r, t, w, chat, mode)
  BY <1>1, AdmitNewIInv, Zenon
<1>2. CASE \E r \in Requests, t \in Tasks, mode \in Modes : AdmitContinuation(r, t, mode)
  BY <1>2, AdmitContinuationIInv, Zenon
<1>3. CASE \E r \in Requests, t \in Tasks, mode \in Modes : AdmitPreempting(r, t, mode)
  BY <1>3, AdmitPreemptingIInv
<1>4. CASE \E t \in Tasks : AckAssignment(t)
  BY <1>4, AckAssignmentIInv, Zenon
<1>5. CASE \E r \in Requests, event \in Events : CommitEvent(r, event)
  BY <1>5, CommitEventIInv, Zenon
<1>6. CASE \E r \in Requests : Quarantine(r)
  BY <1>6, QuarantineIInv
<1>7. CASE \E r \in Requests : Prune(r)
  BY <1>7, PruneIInv
<1>8. CASE UNCHANGED vars
  BY <1>8, StutterIInv, Zenon
<1> QED
  BY <1>1, <1>2, <1>3, <1>4, <1>5, <1>6, <1>7, <1>8, Zenon DEF Next

(* The inductive invariant holds throughout.                               *)
LEMMA Invariance == Spec => []IInv
BY InitIInv, NextIInv, PTL DEF Spec
-----------------------------------------------------------------------------
(* The records keep their types.                                           *)
THEOREM TypeCorrect == Spec => []TypeOK
BY Invariance, PTL DEF IInv

(* A task is active exactly while the request its lease was allocated for  *)
(* is unanswered: the stale-lease checks of ackAssignment and              *)
(* commitWorkerEvent identify the one request an event may answer.         *)
THEOREM LeaseCorrect == Spec => []LeaseNamesOpenRequest
BY Invariance, PTL DEF IInv

(* commitWorkerEvent applies an event exactly once, however often the      *)
(* worker's outbox delivers it.                                            *)
THEOREM ExactlyOnce == Spec => []AppliedExactlyOnce
BY Invariance, PTL DEF IInv

(* No response is ended twice.                                             *)
THEOREM AtMostOneAnswer == Spec => []AnsweredAtMostOnce
BY Invariance, PTL DEF IInv

(* A task waits for results exactly while one of its calls has none.       *)
THEOREM ToolsCorrect == Spec => []PendingToolsAwaited
BY Invariance, PTL DEF IInv

(* The store's promise as one invariant: leases, receipts, answers and     *)
(* pending tool calls agree in every state, for every number of tasks,     *)
(* requests, workers and events.                                           *)
THEOREM LedgerCorrect == Spec => []RecordsAreSound
BY TypeCorrect, LeaseCorrect, ExactlyOnce, AtMostOneAnswer, ToolsCorrect, PTL DEF RecordsAreSound

(* Each operation changes one response at most, and only an open one whose *)
(* status is still to be decided, or the payload of a closed one.          *)
LEMMA StepsAreFinal == IInv /\ Next => FinalStep
<1> SUFFICES ASSUME IInv, Next PROVE FinalStep
  BY Zenon
<1> USE DEF IInv
<1>1. ASSUME NEW r \in Requests, NEW t \in Tasks, NEW mode \in Modes,
             \/ \E w \in Workers, chat \in BOOLEAN : AdmitNew(r, t, w, chat, mode)
             \/ AdmitContinuation(r, t, mode)
      PROVE  FinalStep
  <2>1. request[r].decision = 0 /\ request[r].state = "absent"
    BY <1>1 DEF AdmitNew, AdmitContinuation, BlankUntilAdmitted, NoRequest
  <2>2. request' = [request EXCEPT ![r] = AdmittedRequest(t, mode)] /\ receipt' = receipt
    BY <1>1, Zenon DEF AdmitNew, AdmitContinuation
  <2> QED
    BY <2>1, <2>2, Zenon DEF FinalStep, TypeOK
<1>2. ASSUME NEW r \in Requests, NEW t \in Tasks, NEW mode \in Modes, AdmitPreempting(r, t, mode)
      PROVE  FinalStep
  <2> DEFINE v == task[t].lease
             S == Superseded(request[v])
  <2>1. request[r].decision = 0 /\ request[r].state = "absent"
    BY <1>2 DEF AdmitPreempting, BlankUntilAdmitted, NoRequest
  <2>2. v \in Requests /\ request[v].state = "open"
    BY <1>2, Zenon DEF AdmitPreempting, LeaseNamesOpenRequest
  <2>3. S.decision = request[v].decision
    BY <2>2, SupersededFacts, Zenon DEF TypeOK
  <2>4. request' = [request EXCEPT ![v] = S, ![r] = AdmittedRequest(t, mode)] /\ receipt' = receipt
    BY <1>2, Zenon DEF AdmitPreempting
  <2> HIDE DEF v, S
  <2> QED
    BY <2>1, <2>2, <2>3, <2>4, Zenon DEF FinalStep, TypeOK
<1>3. ASSUME NEW t \in Tasks, AckAssignment(t) PROVE FinalStep
  BY <1>3, Zenon DEF AckAssignment, FinalStep
<1>4. ASSUME NEW r \in Requests, NEW event \in Events, CommitEvent(r, event) PROVE FinalStep
  <2> DEFINE A == Answered(request[r], event)
  <2>1. request[r].state = "open"
    BY <1>4, Zenon DEF CommitEvent, Accepts, AcceptsUnseen
  <2>2. request[r].decision # 0 => request[r].mode # "aggregate"
    BY <2>1, Zenon DEF DecidedInTime
  <2>3. request[r].decision # 0 => A.decision = request[r].decision
    BY <2>2, AnsweredFacts, Zenon DEF TypeOK
  <2>4. request' = [request EXCEPT ![r] = A] /\ receipt' = [receipt EXCEPT ![r] = receipt[r] \cup {event}]
    BY <1>4, Zenon DEF CommitEvent
  <2> HIDE DEF A
  <2> QED
    BY <2>1, <2>3, <2>4, Zenon DEF FinalStep, TypeOK
<1>5. ASSUME NEW r \in Requests, Quarantine(r) PROVE FinalStep
  <2> DEFINE Q == Quarantined(request[r])
  <2>1. request[r].state = "open"
    BY <1>5, Zenon DEF Quarantine, Unrecoverable
  <2>2. request[r].decision # 0 => request[r].mode = "stream"
    BY <2>1, Zenon DEF DecidedInTime
  <2>3. request[r].decision # 0 => Q.decision = request[r].decision
    BY <2>2, QuarantinedFacts DEF TypeOK
  <2>4. request' = [request EXCEPT ![r] = Q] /\ receipt' = receipt
    BY <1>5, Zenon DEF Quarantine
  <2> HIDE DEF Q
  <2> QED
    BY <2>1, <2>3, <2>4, Zenon DEF FinalStep, TypeOK
<1>6. ASSUME NEW r \in Requests, Prune(r) PROVE FinalStep
  <2> DEFINE P == WithoutPayload(request[r])
  <2>1. P.state = request[r].state /\ P.log = <<>> /\ P.decision = request[r].decision
    BY WithoutPayloadFacts, Zenon DEF TypeOK
  <2>2. request' = [request EXCEPT ![r] = P] /\ receipt' = receipt
    BY <1>6, Zenon DEF Prune
  <2> HIDE DEF P
  <2> QED
    BY <2>1, <2>2, Zenon DEF FinalStep, TypeOK
<1> QED
  BY <1>1, <1>2, <1>3, <1>4, <1>5, <1>6, Zenon DEF Next

(* A response that has ended is never extended, reopened or given another  *)
(* HTTP status, by a late event, a takeover, a quarantine or a retry.      *)
THEOREM FinalResponses == Spec => ResponseFinal
BY Invariance, StepsAreFinal, PTL DEF Spec, ResponseFinal
-----------------------------------------------------------------------------
(* What becomes of a request that was admitted: until retention drops it,  *)
(* its response is only extended, and not even that once it is closed.     *)
Grown(old, now) ==
    /\ now.state # "absent" /\ now.mode = old.mode /\ (old.pruned => now.pruned)
    /\ ~now.pruned =>
         /\ Len(old.log) <= Len(now.log) /\ \A i \in 1..Len(old.log) : now.log[i] = old.log[i]
         /\ old.state = "closed" =>
              now.state = "closed" /\ now.log = old.log /\ now.decision = old.decision

(* A request that is left alone.                                           *)
LEMMA GrownStays ==
    ASSUME NEW rec \in RequestRecords, rec.state # "absent"
    PROVE  Grown(rec, rec)
<1>1. Len(rec.log) \in Nat
  BY DEF RequestRecords
<1> QED
  BY <1>1 DEF Grown

(* A request whose response is closed as it is.                            *)
LEMMA GrownClosed ==
    ASSUME NEW rec \in RequestRecords, NEW now, rec.state = "open", now.state = "closed",
           now.mode = rec.mode, now.pruned = rec.pruned, now.log = rec.log
    PROVE  Grown(rec, now)
<1>1. Len(rec.log) \in Nat
  BY DEF RequestRecords
<1> QED
  BY <1>1 DEF Grown

(* The operations of the ledger extend a response, close it or drop it     *)
(* whole (AppendResponseEvent, CompleteRequest, PruneRequest).             *)
LEMMA StepsGrow ==
    ASSUME IInv, Next, NEW k \in Requests, request[k].state # "absent"
    PROVE  Grown(request[k], request'[k])
<1>0. request[k] \in RequestRecords /\ Grown(request[k], request[k])
  BY GrownStays, Zenon DEF IInv, TypeOK
<1>1. ASSUME NEW r \in Requests, NEW t \in Tasks, NEW mode \in Modes,
             \/ \E w \in Workers, chat \in BOOLEAN : AdmitNew(r, t, w, chat, mode)
             \/ AdmitContinuation(r, t, mode)
      PROVE  Grown(request[k], request'[k])
  <2>1. request[r].state = "absent" /\ request' = [request EXCEPT ![r] = AdmittedRequest(t, mode)]
    BY <1>1, Zenon DEF AdmitNew, AdmitContinuation
  <2>2. request'[k] = request[k]
    BY <2>1, Zenon DEF IInv, TypeOK
  <2> QED
    BY <1>0, <2>2, Zenon
<1>2. ASSUME NEW r \in Requests, NEW t \in Tasks, NEW mode \in Modes, AdmitPreempting(r, t, mode)
      PROVE  Grown(request[k], request'[k])
  <2>0. PICK v \in Requests : v = task[t].lease /\ request[v].state = "open"
    BY <1>2, Zenon DEF AdmitPreempting, IInv, LeaseNamesOpenRequest
  <2>1. PICK S : S = Superseded(request[v])
    BY Zenon
  <2>2. request[r].state = "absent" /\ request' = [request EXCEPT ![v] = S, ![r] = AdmittedRequest(t, mode)]
    BY <1>2, <2>0, <2>1, Zenon DEF AdmitPreempting
  <2>3. Grown(request[v], S)
    <3>1. PICK rec \in RequestRecords : rec = request[v]
      BY Zenon DEF IInv, TypeOK
    <3>2. S.state = "closed" /\ S.mode = rec.mode /\ S.pruned = rec.pruned /\ S.log = rec.log
      BY <2>1, <3>1, SupersededFacts, Zenon
    <3> QED
      BY <2>0, <3>1, <3>2, GrownClosed, Zenon
  <2>4. request'[k] = IF k = v THEN S ELSE request[k]
    BY <2>0, <2>1, <2>2, Zenon DEF IInv, TypeOK
  <2> QED
    BY <1>0, <2>3, <2>4, Zenon
<1>3. ASSUME NEW t \in Tasks, AckAssignment(t) PROVE Grown(request[k], request'[k])
  BY <1>0, <1>3, Zenon DEF AckAssignment
<1>4. ASSUME NEW r \in Requests, NEW event \in Events, CommitEvent(r, event)
      PROVE  Grown(request[k], request'[k])
  <2>1. PICK A : A = Answered(request[r], event)
    BY Zenon
  <2>2. request[r].state = "open" /\ request' = [request EXCEPT ![r] = A]
    BY <1>4, <2>1, Zenon DEF CommitEvent, Accepts, AcceptsUnseen
  <2>3. /\ A.mode = request[r].mode /\ A.pruned = request[r].pruned /\ A.log = Append(request[r].log, event)
        /\ A.state # "absent"
    <3>1. PICK rec \in RequestRecords : rec = request[r]
      BY Zenon DEF IInv, TypeOK
    <3>2. /\ A.mode = rec.mode /\ A.pruned = rec.pruned /\ A.log = Append(rec.log, event)
          /\ A.state = IF EndsResponse(event.kind) THEN "closed" ELSE rec.state
      BY <2>1, <3>1, AnsweredFacts, Zenon
    <3> QED
      BY <2>2, <3>1, <3>2, Zenon
  <2>4. request[r].log \in Seq(Events)
    BY Zenon DEF IInv, TypeOK, RequestRecords
  <2>5. Len(request[r].log) <= Len(A.log) /\ \A i \in 1..Len(request[r].log) : A.log[i] = request[r].log[i]
    BY <2>3, <2>4
  <2>6. Grown(request[r], A)
    BY <2>2, <2>3, <2>5, Zenon DEF Grown
  <2>7. request'[k] = IF k = r THEN A ELSE request[k]
    BY <2>2, Zenon DEF IInv, TypeOK
  <2> QED
    BY <1>0, <2>6, <2>7, Zenon
<1>5. ASSUME NEW r \in Requests, Quarantine(r) PROVE Grown(request[k], request'[k])
  <2>1. PICK Q : Q = Quarantined(request[r])
    BY Zenon
  <2>2. request[r].state = "open" /\ request' = [request EXCEPT ![r] = Q]
    BY <1>5, <2>1, Zenon DEF Quarantine, Unrecoverable
  <2>3. Grown(request[r], Q)
    <3>1. PICK rec \in RequestRecords : rec = request[r]
      BY Zenon DEF IInv, TypeOK
    <3>2. Q.state = "closed" /\ Q.mode = rec.mode /\ Q.pruned = rec.pruned /\ Q.log = rec.log
      BY <2>1, <3>1, QuarantinedFacts, Zenon
    <3> QED
      BY <2>2, <3>1, <3>2, GrownClosed, Zenon
  <2>4. request'[k] = IF k = r THEN Q ELSE request[k]
    BY <2>2, Zenon DEF IInv, TypeOK
  <2> QED
    BY <1>0, <2>3, <2>4, Zenon
<1>6. ASSUME NEW r \in Requests, Prune(r) PROVE Grown(request[k], request'[k])
  <2>1. PICK P : P = WithoutPayload(request[r])
    BY Zenon
  <2>2. request[r].state = "closed" /\ request' = [request EXCEPT ![r] = P]
    BY <1>6, <2>1, Zenon DEF Prune
  <2>3. Grown(request[r], P)
    BY <2>1, <2>2, WithoutPayloadFacts, Zenon DEF IInv, TypeOK, Grown
  <2>4. request'[k] = IF k = r THEN P ELSE request[k]
    BY <2>2, Zenon DEF IInv, TypeOK
  <2> QED
    BY <1>0, <2>3, <2>4, Zenon
<1> QED
  BY <1>1, <1>2, <1>3, <1>4, <1>5, <1>6, Zenon DEF Next
=============================================================================
