----------------------- MODULE LLMServiceHandlerProofs ----------------------
(***************************************************************************)
(* Every step of LLMService keeps its invariant: what a call knows         *)
(* survives the others' steps, and the steps of Admit, of the workers'     *)
(* calls, of expiry, detachment, retention, crashes and recovery each keep *)
(* what Kept says.  LLMServiceStoreProofs is about the transactions; here  *)
(* are the handlers around them.                                           *)
(***************************************************************************)
EXTENDS LLMServiceStoreProofs

(* What other calls do leaves alone what a call knows                      *)

(* A snapshot of a rewritten record is recognised as old.                  *)
LEMMA SnapStays ==
    ASSUME StoreInv, StoreRows', NEW c, StoreMoves(c)
    PROVE  /\ \A x \in RequestRows, r \in Requests : Snap(x, request[r]) => Snap(x, request[r])'
           /\ \A k \in TaskRows, t \in Tasks : Snap(k, task[t]) => Snap(k, task[t])'
<1>1. /\ \A r \in Requests : request[r].rev \in Nat /\ request'[r].rev \in Nat
      /\ \A t \in Tasks : task[t].rev \in Nat /\ task'[t].rev \in Nat
  BY Zenon DEF StoreInv, StoreRows, RowTypes, TaskRows, RequestRows
<1>2. /\ \A x \in RequestRows : x.rev \in Nat
      /\ \A k \in TaskRows : k.rev \in Nat
  BY Zenon DEF TaskRows, RequestRows
<1>3. /\ \A r \in Requests : request'[r] = request[r] \/ request'[r].rev > request[r].rev
      /\ \A t \in Tasks : task'[t] = task[t] \/ task'[t].rev > task[t].rev
  BY Zenon DEF StoreMoves
<1> QED
  BY <1>1, <1>2, <1>3 DEF Snap

(* A record read now is its own snapshot.                                  *)
LEMMA SnapNow == ASSUME NEW x, x.rev \in Nat PROVE Snap(x, x)
BY DEF Snap

(* An acknowledged assignment is never to be delivered again.              *)
LEMMA AcknowledgedStays ==
    ASSUME NEW c, StoreMoves(c), NEW r \in Requests, Acknowledged(r)
    PROVE  Acknowledged(r)'
BY Zenon DEF StoreMoves, Acknowledged

(* What a call of Admit knows.                                             *)
LEMMA AttemptStays ==
    ASSUME StoreInv, StoreRows', NEW c, StoreMoves(c), NEW x, AttemptOK(x)
    PROVE  AttemptOK(x)'
<1>1. x.pc # "idle" => x.input.key \in Requests
  BY InputsAssumption, Zenon DEF AttemptOK, InputRecords
<1>2. \A r \in Requests : request[r].state # "absent" =>
        request'[r].state # "absent" /\ request'[r].task = request[r].task
  BY Zenon DEF StoreMoves
<1>3. ASSUME x.pc # "idle", RebuildOK(x) PROVE RebuildOK(x)'
  <2>1. /\ x.req \in RequestRows /\ x.task \in TaskRows /\ x.req.task \in Tasks
        /\ Snap(x.req, request[x.input.key]) /\ Snap(x.task, task[x.req.task])
    BY <1>3, Zenon DEF RebuildOK
  <2>2. Snap(x.req, request[x.input.key])' /\ Snap(x.task, task[x.req.task])'
    BY <1>1, <1>3, <2>1, SnapStays, Zenon
  <2>3. x.task.state # "leased" => Acknowledged(x.input.key)'
    BY <1>1, <1>3, AcknowledgedStays, Zenon DEF RebuildOK
  <2> QED
    BY <1>1, <1>2, <1>3, <2>2, <2>3, Zenon DEF RebuildOK
<1>4. ASSUME x.pc = "commit", x.tid \in Tasks, PlanOK(x) PROVE PlanOK(x)'
  <2>1. x.task \in TaskRows
    BY <1>4, Zenon DEF PlanOK
  <2>2. x.plan # "new" => Snap(x.task, task[x.tid])'
    BY <1>4, <2>1, SnapStays, Zenon DEF PlanOK
  <2>3. x.plan = "preempt" => Snap(x.req, request[x.victim])'
    BY <1>4, SnapStays, Zenon DEF PlanOK
  <2>4. ASSUME x.plan = "continue", x.task.rev = task'[x.tid].rev PROVE x.results = PendingCalls(x.tid)'
    <3>1. /\ task[x.tid].rev \in Nat /\ task'[x.tid].rev \in Nat /\ x.task.rev \in Nat
          /\ x.task.rev <= task[x.tid].rev
      BY <1>4, <2>1, <2>4, Zenon DEF StoreInv, StoreRows, RowTypes, TaskRows, PlanOK, Snap
    <3>2. /\ task'[x.tid] = task[x.tid] \/ task'[x.tid].rev > task[x.tid].rev
          /\ task'[x.tid].rev = task[x.tid].rev => PendingCalls(x.tid)' = PendingCalls(x.tid)
      BY <1>4, Zenon DEF StoreMoves
    <3>3. task'[x.tid].rev = task[x.tid].rev
      BY <2>4, <3>1, <3>2
    <3> QED
      BY <1>4, <2>4, <3>2, <3>3, Zenon DEF PlanOK
  <2> QED
    BY <1>4, <2>2, <2>3, <2>4, Zenon DEF PlanOK
<1> QED
  BY <1>1, <1>2, <1>3, <1>4, Zenon DEF AttemptOK

(* What a worker's call, or the sweep's, knows while another one moves.    *)
LEMMA OpStays ==
    ASSUME StoreInv, StoreRows', NEW c, StoreMoves(c), NEW d \in Workers \cup {Expiry}, d # c, NEW y, OpOK(d, y)
    PROVE  OpOK(d, y)'
<1>1. \A r \in Requests : /\ request[r].state # "absent" => request'[r].state # "absent"
                          /\ receipt[r] \subseteq receipt'[r]
                          /\ \A e \in receipt'[r] \ receipt[r] : EventOf(c, e)
  BY Zenon DEF StoreMoves
<1>2. y.pc = "acked" => Acknowledged(y.r)'
  BY AcknowledgedStays, Zenon DEF OpOK
<1>3. ASSUME y.event # None, Refused(y), d # Expiry, y.pc # "idle" PROVE y.event \notin receipt'[y.r]
  <2>1. EventOf(d, y.event) /\ y.r \in Requests /\ y.event \notin receipt[y.r]
    BY <1>3, Zenon DEF OpOK
  <2>2. ~EventOf(c, y.event)
    BY <1>3, <2>1, ExpiryAssumption, Zenon DEF EventOf
  <2> QED
    BY <1>1, <2>1, <2>2, Zenon
<1>4. ASSUME y.pc = "txn" PROVE EventPlanOK(y)'
  <2>1. /\ y.req \in RequestRows /\ y.task \in TaskRows /\ y.req.task \in Tasks /\ y.r \in Requests
        /\ Snap(y.req, request[y.r]) /\ Snap(y.task, task[y.req.task])
    BY <1>4, Zenon DEF OpOK, EventPlanOK
  <2>2. Snap(y.req, request[y.r])' /\ Snap(y.task, task[y.req.task])'
    BY <2>1, SnapStays, Zenon
  <2> QED
    BY <1>4, <2>2, Zenon DEF OpOK, EventPlanOK
<1>5. y.pc # "idle" => y.r \in Requests
  BY Zenon DEF OpOK
<1>6. y.event # None => EventOf(d, y.event)'
  BY Zenon DEF OpOK, EventOf
<1>7. Applied(y) \/ Refused(y) => y.pc # "idle"
  BY Zenon DEF Applied, Refused
<1> QED
  BY <1>1, <1>2, <1>3, <1>4, <1>5, <1>6, <1>7, Zenon DEF OpOK, Applied, Refused
(* The calls in progress when none of them moves, when an Admit does, and  *)
(* when one of the others does.                                            *)
LEMMA HandlersStay ==
    ASSUME HandlersInv, StoreInv, StoreRows', StoreMoves(None), adm' = adm, op' = op
    PROVE  HandlersInv'
<1>1. \A a \in Attempts : AttemptOK(adm[a])'
  <2> TAKE a \in Attempts
  <2>1. PICK x : x = adm[a] /\ AttemptOK(x) /\ adm'[a] = x
    BY Zenon DEF HandlersInv
  <2>2. AttemptOK(x)'
    BY <2>1, AttemptStays, Zenon
  <2> QED
    BY <2>1, <2>2, Zenon
<1>2. \A d \in Workers \cup {Expiry} : OpOK(d, op[d])'
  <2> TAKE d \in Workers \cup {Expiry}
  <2>1. PICK y : y = op[d] /\ OpOK(d, y) /\ op'[d] = y
    BY Zenon DEF HandlersInv
  <2>2. d # None
    BY ExpiryAssumption, Zenon
  <2>3. OpOK(d, y)'
    BY <2>1, <2>2, OpStays, Zenon
  <2> QED
    BY <2>1, <2>3, Zenon
<1> QED
  BY <1>1, <1>2, Zenon DEF HandlersInv

(* One attempt moves, to a record that is right after the step.            *)
LEMMA AttemptMoves ==
    ASSUME HandlersInv, StoreInv, StoreRows', StoreMoves(None), op' = op,
           NEW b \in Attempts, NEW y, adm' = [adm EXCEPT ![b] = y], AttemptOK(y)'
    PROVE  HandlersInv'
<1>1. \A a \in Attempts : AttemptOK(adm[a])'
  <2> TAKE a \in Attempts
  <2>1. CASE a = b
    <3>1. adm'[a] = y
      BY <2>1, Zenon DEF HandlersInv
    <3> QED
      BY <3>1, Zenon
  <2>2. CASE a # b
    <3>1. PICK x : x = adm[a] /\ AttemptOK(x) /\ adm'[a] = x
      BY <2>2, Zenon DEF HandlersInv
    <3>2. AttemptOK(x)'
      BY <3>1, AttemptStays, Zenon
    <3> QED
      BY <3>1, <3>2, Zenon
  <2> QED
    BY <2>1, <2>2, Zenon
<1>2. \A d \in Workers \cup {Expiry} : OpOK(d, op[d])'
  <2> TAKE d \in Workers \cup {Expiry}
  <2>1. PICK z : z = op[d] /\ OpOK(d, z) /\ op'[d] = z
    BY Zenon DEF HandlersInv
  <2>2. d # None
    BY ExpiryAssumption, Zenon
  <2>3. OpOK(d, z)'
    BY <2>1, <2>2, OpStays, Zenon
  <2> QED
    BY <2>1, <2>3, Zenon
<1>3. DOMAIN adm' = Attempts /\ DOMAIN op' = Workers \cup {Expiry}
  BY Zenon DEF HandlersInv
<1> QED
  BY <1>1, <1>2, <1>3, Zenon DEF HandlersInv

(* One worker's call moves, and may have written the Store.                *)
LEMMA OpMoves ==
    ASSUME HandlersInv, StoreInv, StoreRows', NEW c \in Workers \cup {Expiry}, StoreMoves(c), adm' = adm,
           NEW y, op' = [op EXCEPT ![c] = y], OpOK(c, y)'
    PROVE  HandlersInv'
<1>1. \A a \in Attempts : AttemptOK(adm[a])'
  <2> TAKE a \in Attempts
  <2>1. PICK x : x = adm[a] /\ AttemptOK(x) /\ adm'[a] = x
    BY Zenon DEF HandlersInv
  <2>2. AttemptOK(x)'
    BY <2>1, AttemptStays, Zenon
  <2> QED
    BY <2>1, <2>2, Zenon
<1>2. \A d \in Workers \cup {Expiry} : OpOK(d, op[d])'
  <2> TAKE d \in Workers \cup {Expiry}
  <2>1. CASE d = c
    <3>1. op'[d] = y
      BY <2>1, Zenon DEF HandlersInv
    <3> QED
      BY <2>1, <3>1, Zenon
  <2>2. CASE d # c
    <3>1. PICK z : z = op[d] /\ OpOK(d, z) /\ op'[d] = z
      BY <2>2, Zenon DEF HandlersInv
    <3>2. OpOK(d, z)'
      BY <2>2, <3>1, OpStays, Zenon
    <3> QED
      BY <3>1, <3>2, Zenon
  <2> QED
    BY <2>1, <2>2, Zenon
<1>3. DOMAIN adm' = Attempts /\ DOMAIN op' = Workers \cup {Expiry}
  BY Zenon DEF HandlersInv
<1> QED
  BY <1>1, <1>2, <1>3, Zenon DEF HandlersInv

(* An assignment that is in memory stays deliverable while only the Store  *)
(* moves.                                                                  *)
LEMMA DeliverableStays ==
    ASSUME MemoryInv, NEW c, StoreMoves(c), up' = up, assigned' = assigned, pending' = pending
    PROVE  DeliverableUntilAcked'
BY Zenon DEF MemoryInv, StoreMoves, DeliverableUntilAcked

(* A failure is counted, or nothing fails.                                 *)
Counted == UNCHANGED bounds \/ Fault

(* The counted failures stay within their bounds.                          *)
LEMMA BoundsStay ==
    ASSUME MemoryInv, Counted
    PROVE  faults' \in 0..MaxFaults /\ crashes' \in 0..MaxCrashes /\ (faults' = 0 => faults = 0)
BY BoundsAssumption DEF MemoryInv, Counted, bounds, Fault

(* The memory of a step that changes none of it.                           *)
LEMMA MemoryStays ==
    ASSUME MemoryInv, NEW c, StoreMoves(c), UNCHANGED <<up, memory, detaching>>, Counted,
           \A w \in Workers : op'[w].pc # "idle" => conn[w]
    PROVE  MemoryInv'
<1>1. /\ up' = up /\ assigned' = assigned /\ pending' = pending /\ conn' = conn /\ sent' = sent /\ acked' = acked
      /\ detached' = detached /\ detaching' = detaching
  BY Zenon DEF memory
<1>2. DeliverableUntilAcked' /\ faults' \in 0..MaxFaults /\ crashes' \in 0..MaxCrashes
  BY <1>1, DeliverableStays, BoundsStay, Zenon
<1>3. \A r \in assigned' : request'[r].state # "absent"
  BY <1>1, Zenon DEF MemoryInv, StoreMoves
<1> QED
  BY <1>1, <1>2, <1>3, Zenon DEF MemoryInv

(* The admissions that memory still has to learn of.                       *)
LEMMA StrandedStays ==
    ASSUME Opens({}), up' => up, faults' = 0 => faults = 0,
           \A r \in assigned : r \in assigned' \/ request'[r].state # "open",
           \A a \in Attempts : adm[a].pc = "install" => adm'[a] = adm[a]
    PROVE  NoStrandedRequest => NoStrandedRequest'
BY DEF Opens, NoStrandedRequest

(* Everything a step has to keep.                                          *)
Kept ==
    /\ StoreRows' /\ HandlersInv' /\ MemoryInv'
    /\ UNCHANGED store \/ Ledger!Next
    /\ SessionsKept
    /\ NoStrandedRequest => NoStrandedRequest'
-----------------------------------------------------------------------------
(* Admit                                                                   *)

(* A step of Admit that only moves itself.                                 *)
LEMMA AttemptStepKept ==
    ASSUME ServiceInv, NEW a \in Attempts, adm[a].pc # "install", NEW y, adm' = [adm EXCEPT ![a] = y],
           AttemptOK(y)', UNCHANGED <<store, up, memory, op, detaching>>, Counted
    PROVE  Kept
<1>1. StoreInv /\ HandlersInv /\ MemoryInv
  BY Zenon DEF ServiceInv
<1>2. StoreRows' /\ StoreMoves(None) /\ Opens({}) /\ SessionsKept
  BY <1>1, StoreStays, Zenon DEF StoreStep
<1>3. HandlersInv'
  BY <1>1, <1>2, AttemptMoves, Zenon
<1>4. MemoryInv'
  BY <1>1, <1>2, MemoryStays, Zenon DEF MemoryInv
<1>5. NoStrandedRequest => NoStrandedRequest'
  <2>1. \A b \in Attempts : adm[b].pc = "install" => adm'[b] = adm[b]
    BY <1>1, Zenon DEF HandlersInv
  <2> QED
    BY <1>1, <1>2, <2>1, StrandedStays, BoundsStay, Zenon DEF memory
<1> QED
  BY <1>2, <1>3, <1>4, <1>5, Zenon DEF Kept, ServiceInv

PlainPcs == {"idle", "replay", "recheck", "read", "clear", "locate", "reconcile", "done"}

(* A call that holds no snapshot.                                          *)
LEMMA PlainAttempt ==
    ASSUME NEW x, DOMAIN x = AttemptFields, x.pc \in PlainPcs, x.pc # "idle" => x.input \in Inputs
    PROVE  AttemptOK(x)'
BY Zenon DEF AttemptOK, PlainPcs, AdmitPcs

(* A reply ends the call.                                                  *)
LEMMA ReplyMoves ==
    ASSUME HandlersInv, NEW a \in Attempts, adm[a].pc # "idle", NEW reply, Reply(a, reply)
    PROVE  \E y : adm' = [adm EXCEPT ![a] = y] /\ AttemptOK(y)'
<1>1. PICK y : y = [NoAttempt EXCEPT !.pc = "done", !.input = adm[a].input, !.reply = reply]
  BY Zenon
<1>2. DOMAIN y = AttemptFields /\ y.pc = "done" /\ y.input = adm[a].input
  BY <1>1, Zenon DEF NoAttempt, AttemptFields
<1>3. adm[a].input \in Inputs
  BY Zenon DEF HandlersInv, AttemptOK
<1>4. AttemptOK(y)'
  BY <1>2, <1>3, PlainAttempt, Zenon DEF PlainPcs
<1> QED
  BY <1>1, <1>4, Zenon DEF Reply

(* A restart reads everything again.                                       *)
LEMMA RestartMoves ==
    ASSUME HandlersInv, NEW a \in Attempts, adm[a].pc # "idle", NEW pc \in PlainPcs, NEW pass, NEW reply,
           Restart(a, pc, pass, reply)
    PROVE  \E y : adm' = [adm EXCEPT ![a] = y] /\ AttemptOK(y)'
<1>1. PICK y : y = [NoAttempt EXCEPT !.pc = pc, !.input = adm[a].input, !.pass = pass, !.reply = reply]
  BY Zenon
<1>2. DOMAIN y = AttemptFields /\ y.pc = pc /\ y.input = adm[a].input
  BY <1>1, Zenon DEF NoAttempt, AttemptFields
<1>3. adm[a].input \in Inputs
  BY Zenon DEF HandlersInv, AttemptOK
<1>4. AttemptOK(y)'
  BY <1>2, <1>3, PlainAttempt, Zenon
<1> QED
  BY <1>1, <1>4, Zenon DEF Restart

(* A call of Admit goes on to a place that needs no snapshot.              *)
LEMMA GotoMoves ==
    ASSUME HandlersInv, NEW a \in Attempts, adm[a].pc # "idle", NEW pc \in PlainPcs, Goto(a, pc)
    PROVE  \E y : adm' = [adm EXCEPT ![a] = y] /\ AttemptOK(y)'
<1>1. PICK y : y = [adm[a] EXCEPT !.pc = pc]
  BY Zenon
<1>2. DOMAIN adm[a] = AttemptFields /\ adm[a].input \in Inputs
  BY Zenon DEF HandlersInv, AttemptOK
<1>3. DOMAIN y = AttemptFields /\ y.pc = pc /\ y.input = adm[a].input
  BY <1>1, <1>2, Zenon DEF AttemptFields
<1>4. AttemptOK(y)'
  BY <1>2, <1>3, PlainAttempt, Zenon
<1> QED
  BY <1>1, <1>4, Zenon DEF Goto
(* An open request is going to be rebuilt from what is read now.           *)
LEMMA RebuildMoves ==
    ASSUME ServiceInv, UNCHANGED store, NEW a \in Attempts, adm[a].pc # "idle",
           NEW found, found = request[adm[a].input.key], found.state = "open",
           adm' = [adm EXCEPT ![a].pc = "scan", ![a].req = found, ![a].task = task[found.task]]
    PROVE  \E y : adm' = [adm EXCEPT ![a] = y] /\ AttemptOK(y)'
<1>1. StoreInv /\ DOMAIN adm[a] = AttemptFields /\ adm[a].input \in Inputs /\ DOMAIN adm = Attempts
  BY Zenon DEF ServiceInv, HandlersInv, AttemptOK
<1>2. PICK r \in Requests, t \in Tasks, k \in TaskRows, x \in RequestRows :
        r = adm[a].input.key /\ x = request[r] /\ x = found /\ t = x.task /\ k = task[t]
  <2>1. adm[a].input.key \in Requests
    BY <1>1, InputsAssumption, Zenon DEF InputRecords
  <2>2. request[adm[a].input.key].task \in Tasks
    BY <1>1, <2>1, LedgerFacts, Zenon
  <2> QED
    BY <1>1, <2>1, <2>2, Zenon DEF StoreInv, StoreRows, RowTypes
<1>3. PICK y : y = [adm[a] EXCEPT !.pc = "scan", !.req = x, !.task = k]
  BY Zenon
<1>4. /\ DOMAIN y = AttemptFields /\ y.pc = "scan" /\ y.req = x /\ y.task = k /\ y.input = adm[a].input
      /\ adm' = [adm EXCEPT ![a] = y]
  BY <1>1, <1>2, <1>3, ZenonT(30) DEF AttemptFields
<1>5. \A u \in Tasks : task[u].state = "leased" /\ task[u].lease = r => u = t
  BY <1>1, <1>2, LedgerFacts DEF ActiveStates
<1>6. task' = task /\ request' = request
  BY Zenon DEF store
<1>7. x.rev \in Nat /\ k.rev \in Nat
  BY Zenon DEF RequestRows, TaskRows
<1>8. RebuildOK(y)'
  <2>1. y.req = request'[r] /\ y.task = task'[t] /\ y.req.task = t /\ y.input.key = r /\ request'[r].task = t
    BY <1>2, <1>4, <1>6, Zenon
  <2>2. y.req \in RequestRows /\ y.task \in TaskRows /\ y.req.state = "open" /\ request'[r].state # "absent"
    BY <1>2, <1>4, <1>6, Zenon
  <2>3. Snap(y.req, request[y.input.key])' /\ Snap(y.task, task[y.req.task])'
    <3>1. Snap(x, x) /\ Snap(k, k)
      BY <1>7, SnapNow, Zenon
    <3> QED
      BY <1>2, <1>4, <1>6, <2>1, <3>1, Zenon
  <2>4. y.task.state # "leased" => Acknowledged(y.input.key)'
    BY <1>5, <1>6, <2>1, <2>2, Zenon DEF Acknowledged
  <2> QED
    BY <2>1, <2>2, <2>3, <2>4, Zenon DEF RebuildOK
<1>9. AttemptOK(y)'
  BY <1>1, <1>4, <1>8, Zenon DEF AttemptOK, AdmitPcs
<1> QED
  BY <1>4, <1>9, Zenon

(* The outcome of the scan.                                                *)
LEMMA ScanMoves ==
    ASSUME ServiceInv, UNCHANGED store, NEW a \in Attempts, adm[a].pc = "scan",
           NEW pc \in {"add", "quarantine"}, Goto(a, pc)
    PROVE  \E y : adm' = [adm EXCEPT ![a] = y] /\ AttemptOK(y)'
<1>1. StoreInv /\ AttemptOK(adm[a]) /\ DOMAIN adm[a] = AttemptFields /\ adm[a].input \in Inputs
  BY Zenon DEF ServiceInv, HandlersInv, AttemptOK
<1>2. PICK x : x = adm[a]
  BY Zenon
<1>3. AttemptOK(x)'
  BY <1>1, <1>2, StoreStays, AttemptStays, Zenon DEF StoreStep
<1>4. PICK y : y = [x EXCEPT !.pc = pc]
  BY Zenon
<1>5. /\ DOMAIN y = AttemptFields /\ y.pc = pc /\ y.req = x.req /\ y.task = x.task /\ y.input = x.input
      /\ adm' = [adm EXCEPT ![a] = y]
  BY <1>1, <1>2, <1>4, Zenon DEF AttemptFields, Goto
<1>6. RebuildOK(x)'
  BY <1>2, <1>3, Zenon DEF AttemptOK
<1>7. RebuildOK(y)'
  BY <1>5, <1>6, Zenon DEF RebuildOK
<1>8. AttemptOK(y)'
  BY <1>1, <1>2, <1>5, <1>7, Zenon DEF AttemptOK, AdmitPcs
<1> QED
  BY <1>5, <1>8, Zenon

(* Admit begins and returns.                                               *)
LEMMA AdmitBeginKept ==
    ASSUME ServiceInv, NEW a \in Attempts, NEW input \in Inputs, AdmitBegin(a, input)
    PROVE  Kept
<1>1. PICK y : y = [NoAttempt EXCEPT !.pc = "replay", !.input = input]
  BY Zenon
<1>2. DOMAIN y = AttemptFields /\ y.pc = "replay" /\ y.input = input
  BY <1>1, Zenon DEF NoAttempt, AttemptFields
<1>3. AttemptOK(y)'
  BY <1>2, PlainAttempt, Zenon DEF PlainPcs
<1> QED
  BY <1>1, <1>3, AttemptStepKept, Zenon DEF AdmitBegin, At, Counted

(* An Admit call returns.                                                  *)
LEMMA AdmitReturnKept ==
    ASSUME ServiceInv, NEW a \in Attempts, AdmitReturn(a)
    PROVE  Kept
<1>1. DOMAIN NoAttempt = AttemptFields /\ NoAttempt.pc = "idle"
  BY Zenon DEF NoAttempt, AttemptFields
<1>2. PICK y : y = NoAttempt
  BY Zenon
<1>3. AttemptOK(y)'
  BY <1>1, <1>2, PlainAttempt, Zenon DEF PlainPcs
<1> QED
  BY <1>2, <1>3, AttemptStepKept, Zenon DEF AdmitReturn, At, Counted

(* replayAdmission's lookups.                                              *)
LEMMA ReplayReadKept ==
    ASSUME ServiceInv, NEW a \in Attempts, ReplayRead(a)
    PROVE  Kept
<1>1. /\ UNCHANGED <<store, up, memory, op, detaching, bounds>> /\ adm[a].pc = "replay" /\ HandlersInv
      /\ UNCHANGED store
  BY Zenon DEF ReplayRead, At, ServiceInv
<1>2. \/ \E pc \in PlainPcs : Goto(a, pc)
      \/ \E reply : Reply(a, reply)
      \/ /\ request[adm[a].input.key].state = "open"
         /\ adm' = [adm EXCEPT ![a].pc = "scan", ![a].req = request[adm[a].input.key],
                               ![a].task = task[request[adm[a].input.key].task]]
  BY Zenon DEF ReplayRead, PlainPcs
<1>3. \E y : adm' = [adm EXCEPT ![a] = y] /\ AttemptOK(y)'
  BY <1>1, <1>2, GotoMoves, ReplyMoves, RebuildMoves, Zenon
<1> QED
  BY <1>1, <1>3, AttemptStepKept, Zenon DEF Counted

(* The scan of an unanswered request for its assignment.                   *)
LEMMA RecoverScanKept ==
    ASSUME ServiceInv, NEW a \in Attempts, RecoverScan(a)
    PROVE  Kept
<1>1. /\ UNCHANGED <<store, up, memory, op, detaching, bounds>> /\ adm[a].pc = "scan" /\ HandlersInv
      /\ UNCHANGED store
  BY Zenon DEF RecoverScan, At, ServiceInv
<1>2. Goto(a, "add") \/ Goto(a, "quarantine") \/ Goto(a, "recheck")
  BY Zenon DEF RecoverScan
<1>3. \E y : adm' = [adm EXCEPT ![a] = y] /\ AttemptOK(y)'
  BY <1>1, <1>2, ScanMoves, GotoMoves, Zenon DEF PlainPcs
<1> QED
  BY <1>1, <1>3, AttemptStepKept, Zenon DEF Counted

(* The request is read once more after the scan.                           *)
LEMMA ReplayRecheckKept ==
    ASSUME ServiceInv, NEW a \in Attempts, ReplayRecheck(a)
    PROVE  Kept
<1>1. /\ UNCHANGED <<store, up, memory, op, detaching, bounds>> /\ adm[a].pc = "recheck" /\ HandlersInv
  BY Zenon DEF ReplayRecheck, At, ServiceInv
<1>2. Goto(a, "read") \/ Reply(a, "error")
  BY Zenon DEF ReplayRecheck
<1>3. \E y : adm' = [adm EXCEPT ![a] = y] /\ AttemptOK(y)'
  BY <1>1, <1>2, ReplyMoves, GotoMoves, Zenon DEF PlainPcs
<1> QED
  BY <1>1, <1>3, AttemptStepKept, Zenon DEF Counted
(* The response of an answered request is replayed.                        *)
LEMMA ReadResponseKept ==
    ASSUME ServiceInv, NEW a \in Attempts, ReadResponse(a)
    PROVE  Kept
<1>1. /\ UNCHANGED <<store, up, memory, op, detaching, bounds>> /\ adm[a].pc = "read" /\ HandlersInv
      /\ adm[a].input \in Inputs
  BY Zenon DEF ReadResponse, At, ServiceInv, HandlersInv, AttemptOK
<1>2. CASE Reply(a, "replay_expired")
  <2>1. \E y : adm' = [adm EXCEPT ![a] = y] /\ AttemptOK(y)'
    BY <1>1, <1>2, ReplyMoves, Zenon
  <2> QED
    BY <1>1, <2>1, AttemptStepKept, Zenon DEF Counted
<1>3. CASE ~request[adm[a].input.key].pruned
  <2>1. PICK pc \in PlainPcs : pc = IF adm[a].pass = "settle" THEN "clear" ELSE "done"
    BY Zenon DEF PlainPcs
  <2>2. PICK y : y = [NoAttempt EXCEPT !.pc = pc, !.pass = adm[a].pass, !.input = adm[a].input,
                                       !.req = request[adm[a].input.key], !.reply = "response"]
    BY Zenon
  <2>3. DOMAIN y = AttemptFields /\ y.pc = pc /\ y.input = adm[a].input
    BY <2>2, Zenon DEF NoAttempt, AttemptFields
  <2>4. AttemptOK(y)'
    BY <1>1, <2>3, PlainAttempt, Zenon
  <2>5. adm' = [adm EXCEPT ![a] = y]
    BY <1>3, <2>1, <2>2, Zenon DEF ReadResponse
  <2> QED
    BY <1>1, <2>4, <2>5, AttemptStepKept, Zenon DEF Counted
<1> QED
  BY <1>2, <1>3, Zenon DEF ReadResponse

(* After an admission of unknown outcome the request tells.                *)
LEMMA ReconcileKept ==
    ASSUME ServiceInv, NEW a \in Attempts, Reconcile(a)
    PROVE  Kept
<1>1. /\ UNCHANGED <<store, up, memory, op, detaching, bounds>> /\ adm[a].pc = "reconcile" /\ HandlersInv
      /\ UNCHANGED store
  BY Zenon DEF Reconcile, At, ServiceInv
<1>2. \/ Reply(a, "error")
      \/ Restart(a, "replay", "settle", "none")
      \/ /\ request[adm[a].input.key].state = "open"
         /\ adm' = [adm EXCEPT ![a].pc = "scan", ![a].req = request[adm[a].input.key],
                               ![a].task = task[request[adm[a].input.key].task]]
  BY Zenon DEF Reconcile
<1>3. \E y : adm' = [adm EXCEPT ![a] = y] /\ AttemptOK(y)'
  <2>1. "replay" \in PlainPcs
    BY Zenon DEF PlainPcs
  <2> QED
    BY <1>1, <1>2, <2>1, RestartMoves, ReplyMoves, RebuildMoves, Zenon
<1> QED
  BY <1>1, <1>3, AttemptStepKept, Zenon DEF Counted

(* A View of Admit fails.                                                  *)
LEMMA AdmitFailsKept ==
    ASSUME ServiceInv, NEW a \in Attempts, AdmitFails(a)
    PROVE  Kept
<1>1. UNCHANGED <<store, up, memory, op, detaching>> /\ Counted /\ HandlersInv /\ UNCHANGED store
  BY Zenon DEF AdmitFails, ServiceInv, Counted
<1>2. \/ adm[a].pc \notin {"idle", "install"} /\ Reply(a, "error")
      \/ /\ adm[a].pc = "scan"
         /\ Goto(a, "quarantine") \/ Goto(a, "recheck")
  BY Zenon DEF AdmitFails
<1>3. adm[a].pc # "install"
  BY <1>2, Zenon
<1>4. \E y : adm' = [adm EXCEPT ![a] = y] /\ AttemptOK(y)'
  BY <1>1, <1>2, ReplyMoves, ScanMoves, GotoMoves, Zenon DEF PlainPcs
<1> QED
  BY <1>1, <1>3, <1>4, AttemptStepKept, Zenon

(* The task of a new request is looked up.                                 *)
LEMMA LocateTaskKept ==
    ASSUME ServiceInv, NEW a \in Attempts, LocateTask(a)
    PROVE  Kept
<1>1. /\ UNCHANGED <<store, up, memory, op, detaching, bounds>> /\ adm[a].pc = "locate" /\ HandlersInv
      /\ adm[a].input \in Inputs /\ DOMAIN adm[a] = AttemptFields /\ DOMAIN adm = Attempts
  BY Zenon DEF LocateTask, At, ServiceInv, HandlersInv, AttemptOK
<1>2. CASE Reply(a, "error")
  <2>1. \E y : adm' = [adm EXCEPT ![a] = y] /\ AttemptOK(y)'
    BY <1>1, <1>2, ReplyMoves, Zenon
  <2> QED
    BY <1>1, <2>1, AttemptStepKept, Zenon DEF Counted
<1>3. CASE ~Reply(a, "error")
  <2>1. adm[a].input.task \in Tasks \cup {None}
    BY <1>1, InputsAssumption, Zenon DEF InputRecords
  <2>2. PICK t \in Tasks : adm' = [adm EXCEPT ![a].pc = "plan", ![a].tid = t]
    BY <1>3, <2>1, Zenon DEF LocateTask, OpenTasks, FreshTasks
  <2>3. PICK y : y = [adm[a] EXCEPT !.pc = "plan", !.tid = t]
    BY Zenon
  <2>4. /\ DOMAIN y = AttemptFields /\ y.pc = "plan" /\ y.tid = t /\ y.input = adm[a].input
        /\ adm' = [adm EXCEPT ![a] = y]
    BY <1>1, <2>2, <2>3, Zenon DEF AttemptFields
  <2>5. AttemptOK(y)'
    BY <1>1, <2>4, Zenon DEF AttemptOK, AdmitPcs
  <2> QED
    BY <1>1, <2>4, <2>5, AttemptStepKept, Zenon DEF Counted
<1> QED
  BY <1>2, <1>3, Zenon
(* A call with a plan.                                                     *)
LEMMA PlannedFacts ==
    ASSUME NEW a, DOMAIN adm[a] = AttemptFields, NEW kind, NEW w, NEW victim, NEW calls, NEW y,
           y = Planned(a, kind, w, victim, calls)
    PROVE  /\ DOMAIN y = AttemptFields /\ y.pc = "commit" /\ y.plan = kind /\ y.worker = w
           /\ y.task = task[adm[a].tid] /\ y.victim = victim /\ y.results = calls
           /\ y.input = adm[a].input /\ y.tid = adm[a].tid
           /\ victim # None => y.req = request[victim]
BY Zenon DEF Planned, AttemptFields

(* An admission is planned on what the Store holds.                        *)
LEMMA PlanAdmissionKept ==
    ASSUME ServiceInv, NEW a \in Attempts, PlanAdmission(a)
    PROVE  Kept
<1>1. /\ UNCHANGED <<store, up, memory, op, detaching, bounds>> /\ adm[a].pc = "plan" /\ HandlersInv
      /\ adm[a].input \in Inputs /\ DOMAIN adm[a] = AttemptFields /\ DOMAIN adm = Attempts
      /\ StoreInv
  BY Zenon DEF PlanAdmission, At, ServiceInv, HandlersInv, AttemptOK
<1>2. PICK t \in Tasks : t = adm[a].tid
  BY <1>1, Zenon DEF HandlersInv, AttemptOK
<1>3. CASE \E reply : Reply(a, reply)
  <2>1. \E y : adm' = [adm EXCEPT ![a] = y] /\ AttemptOK(y)'
    BY <1>1, <1>3, ReplyMoves, Zenon
  <2> QED
    BY <1>1, <2>1, AttemptStepKept, Zenon DEF Counted
<1>4. CASE ~\E reply : Reply(a, reply)
  <2>1. PICK kind, w, victim, results :
          /\ adm' = [adm EXCEPT ![a] = Planned(a, kind, w, victim, results)]
          /\ \/ kind = "new" /\ w \in Routes /\ victim = None /\ results = {}
             \/ /\ kind = "continue" /\ w = task[t].owner /\ victim = None /\ results = PendingCalls(t)
                /\ task[t].state \in IdleStates
             \/ /\ kind = "preempt" /\ w = task[t].owner /\ victim = detached[t] /\ results = {}
                /\ task[t].state \in ActiveStates /\ detached[t] \in Active(t)
    BY <1>2, <1>4, Zenon DEF PlanAdmission, PendingCalls, IdleStates
  <2>2. PICK y : y = Planned(a, kind, w, victim, results)
    BY Zenon
  <2>3. /\ DOMAIN y = AttemptFields /\ y.pc = "commit" /\ y.plan = kind /\ y.worker = w /\ y.task = task[t]
        /\ y.victim = victim /\ y.results = results /\ y.input = adm[a].input /\ y.tid = t
        /\ victim # None => y.req = request[victim]
    BY <1>1, <1>2, <2>2, PlannedFacts
  <2>4. task' = task /\ request' = request /\ tool' = tool
    BY <1>1, Zenon DEF store
  <2>5. /\ task[t] \in TaskRows /\ task[t].rev \in Nat
        /\ \A r \in Requests : request[r] \in RequestRows /\ request[r].rev \in Nat
    BY <1>1, Zenon DEF StoreInv, StoreRows, RowTypes, TaskRows, RequestRows
  <2>6. w \in Workers
    <3>1. kind = "new" => w \in Workers
      BY <2>1, Zenon DEF Routes
    <3>2. kind # "new" => w \in Workers
      BY <1>1, <2>1, Zenon DEF StoreInv, StoreRows, Placed, ActiveStates, IdleStates
    <3> QED
      BY <3>1, <3>2, Zenon
  <2>7. Snap(task[t], task[t]) /\ \A r \in Requests : Snap(request[r], request[r])
    BY <2>5, SnapNow, Zenon
  <2>8. PlanOK(y)'
    <3>1. CASE kind = "new"
      BY <2>1, <2>3, <2>5, <2>6, <3>1, Zenon DEF PlanOK
    <3>2. CASE kind = "continue"
      <4>1. PendingCalls(t)' = PendingCalls(t)
        BY <2>4, Zenon DEF PendingCalls
      <4> QED
        BY <2>1, <2>3, <2>4, <2>5, <2>6, <2>7, <3>2, <4>1, ZenonT(30) DEF PlanOK
    <3>3. CASE kind = "preempt"
      <4>1. victim \in Requests /\ y.req = request[victim]
        BY <2>1, <2>3, <3>3, ExpiryAssumption, Zenon DEF Active
      <4> QED
        BY <2>1, <2>3, <2>4, <2>5, <2>6, <2>7, <3>3, <4>1, Zenon DEF PlanOK
    <3> QED
      BY <2>1, <3>1, <3>2, <3>3, Zenon
  <2>9. AttemptOK(y)'
    BY <1>1, <2>3, <2>8, Zenon DEF AttemptOK, AdmitPcs
  <2> QED
    BY <1>1, <2>1, <2>2, <2>9, AttemptStepKept, Zenon DEF Counted
<1> QED
  BY <1>3, <1>4, Zenon
(* The mark of a caller that left is dropped.                              *)
LEMMA ClearDetachedKept ==
    ASSUME ServiceInv, NEW a \in Attempts, ClearDetached(a)
    PROVE  Kept
<1>1. StoreInv /\ HandlersInv /\ MemoryInv /\ adm[a].pc = "clear"
  BY Zenon DEF ServiceInv, ClearDetached, At
<1>2. /\ UNCHANGED store /\ up' = up /\ assigned' = assigned /\ pending' = pending /\ conn' = conn /\ sent' = sent
      /\ acked' = acked /\ op' = op /\ detaching' = detaching /\ Counted /\ faults' = faults
  BY Zenon DEF ClearDetached, links, Counted, bounds
<1>3. StoreRows' /\ StoreMoves(None) /\ Opens({}) /\ SessionsKept
  BY <1>1, <1>2, StoreStays, Zenon DEF StoreStep
<1>4. PICK y : adm' = [adm EXCEPT ![a] = y] /\ AttemptOK(y)'
  BY <1>1, GotoMoves, Zenon DEF ClearDetached, PlainPcs
<1>5. HandlersInv'
  BY <1>1, <1>2, <1>3, <1>4, AttemptMoves, Zenon
<1>6. MemoryInv'
  <2>1. detached' \in [Tasks -> Requests \cup {None}]
    BY <1>1, Zenon DEF ClearDetached, MemoryInv
  <2>2. DeliverableUntilAcked' /\ faults' \in 0..MaxFaults /\ crashes' \in 0..MaxCrashes
    BY <1>1, <1>2, <1>3, DeliverableStays, BoundsStay, Zenon
  <2>3. \A r \in assigned' : request'[r].state # "absent"
    BY <1>1, <1>2, <1>3, Zenon DEF MemoryInv, StoreMoves
  <2> QED
    BY <1>1, <1>2, <2>1, <2>2, <2>3, Zenon DEF MemoryInv
<1>7. NoStrandedRequest => NoStrandedRequest'
  <2>1. \A b \in Attempts : adm[b].pc = "install" => adm'[b] = adm[b]
    BY <1>1, <1>4, Zenon DEF HandlersInv
  <2> QED
    BY <1>2, <1>3, <2>1, StrandedStays, Zenon
<1> QED
  BY <1>2, <1>3, <1>5, <1>6, <1>7, Zenon DEF Kept, ServiceInv

(* A request that is put into memory stays deliverable.                    *)
LEMMA AddMemory ==
    ASSUME StoreInv, MemoryInv, UNCHANGED store, NEW r \in Requests, request[r].state # "absent",
           NEW isPending \in BOOLEAN, isPending \/ Acknowledged(r), AddAssignment(r, isPending),
           UNCHANGED <<up, links, detached, op, detaching, bounds>>
    PROVE  MemoryInv' /\ r \in assigned' /\ assigned \subseteq assigned'
<1>1. /\ assigned' = assigned \cup {r} /\ pending \subseteq pending'
      /\ r \notin assigned /\ isPending => r \in pending'
      /\ pending' \subseteq pending \cup {r}
  BY Zenon DEF AddAssignment
<1>2. /\ task' = task /\ request' = request /\ up' = up /\ conn' = conn /\ sent' = sent
      /\ acked' = acked /\ op' = op /\ detaching' = detaching /\ detached' = detached
      /\ faults' = faults /\ crashes' = crashes
  BY Zenon DEF store, links, bounds
<1>3. DeliverableUntilAcked'
  BY <1>1, <1>2 DEF MemoryInv, DeliverableUntilAcked, Acknowledged
<1> QED
  BY <1>1, <1>2, <1>3, Zenon DEF MemoryInv

(* A rebuilt request gets its assignment back.                             *)
LEMMA RecoverAddKept ==
    ASSUME ServiceInv, NEW a \in Attempts, RecoverAdd(a)
    PROVE  Kept
<1>1. StoreInv /\ HandlersInv /\ MemoryInv /\ adm[a].pc = "add"
  BY Zenon DEF ServiceInv, RecoverAdd, At
<1>2. UNCHANGED <<up, links, detached, op, detaching, bounds>> /\ UNCHANGED store
  BY Zenon DEF RecoverAdd
<1>3. PICK r \in Requests : r = adm[a].input.key
  BY <1>1, InputsAssumption, Zenon DEF HandlersInv, AttemptOK, InputRecords
<1>4. PICK isPending \in BOOLEAN : isPending = (adm[a].task.state = "leased")
  BY Zenon
<1>5. AddAssignment(r, isPending) /\ request[r].state # "absent" /\ (isPending \/ Acknowledged(r))
  BY <1>1, <1>3, <1>4, Zenon DEF RecoverAdd, HandlersInv, AttemptOK, RebuildOK
<1>6. MemoryInv' /\ assigned \subseteq assigned'
  BY <1>1, <1>2, <1>5, AddMemory, Zenon
<1>7. StoreRows' /\ StoreMoves(None) /\ Opens({}) /\ SessionsKept
  BY <1>1, <1>2, StoreStays, Zenon DEF StoreStep
<1>8. PICK y : adm' = [adm EXCEPT ![a] = y] /\ AttemptOK(y)'
  BY <1>1, RestartMoves, Zenon DEF RecoverAdd, PlainPcs
<1>9. HandlersInv'
  BY <1>1, <1>2, <1>7, <1>8, AttemptMoves, Zenon
<1>10. NoStrandedRequest => NoStrandedRequest'
  <2>1. \A b \in Attempts : adm[b].pc = "install" => adm'[b] = adm[b]
    BY <1>1, <1>8, Zenon DEF HandlersInv
  <2> QED
    BY <1>2, <1>6, <1>7, <2>1, StrandedStays, Zenon DEF bounds
<1> QED
  BY <1>2, <1>6, <1>7, <1>9, <1>10, Zenon DEF Kept, ServiceInv

(* An admitted request is put into memory.                                 *)
LEMMA AdmitInstallKept ==
    ASSUME ServiceInv, NEW a \in Attempts, AdmitInstall(a)
    PROVE  Kept
<1>1. StoreInv /\ HandlersInv /\ MemoryInv /\ adm[a].pc = "install"
  BY Zenon DEF ServiceInv, AdmitInstall, At
<1>2. UNCHANGED <<up, links, detached, op, detaching, bounds>> /\ UNCHANGED store
  BY Zenon DEF AdmitInstall
<1>3. PICK r \in Requests : r = adm[a].input.key
  BY <1>1, InputsAssumption, Zenon DEF HandlersInv, AttemptOK, InputRecords
<1>4. AddAssignment(r, TRUE) /\ request[r].state # "absent"
  BY <1>1, <1>3, Zenon DEF AdmitInstall, HandlersInv, AttemptOK
<1>5. MemoryInv' /\ r \in assigned' /\ assigned \subseteq assigned'
  BY <1>1, <1>2, <1>4, AddMemory, Zenon
<1>6. StoreRows' /\ StoreMoves(None) /\ Opens({}) /\ SessionsKept
  BY <1>1, <1>2, StoreStays, Zenon DEF StoreStep
<1>7. PICK y : adm' = [adm EXCEPT ![a] = y] /\ AttemptOK(y)'
  BY <1>1, GotoMoves, Zenon DEF AdmitInstall, PlainPcs
<1>8. HandlersInv'
  BY <1>1, <1>2, <1>6, <1>7, AttemptMoves, Zenon
<1>9. NoStrandedRequest => NoStrandedRequest'
  <2>1. \A b \in Attempts : b # a => adm'[b] = adm[b]
    BY <1>1, <1>7, Zenon DEF HandlersInv
  <2> QED
    BY <1>2, <1>3, <1>5, <1>6, <2>1 DEF NoStrandedRequest, Opens, bounds
<1> QED
  BY <1>2, <1>5, <1>6, <1>8, <1>9, Zenon DEF Kept, ServiceInv
(* A step of Admit with a transaction.                                     *)
LEMMA AttemptTxnKept ==
    ASSUME ServiceInv, NEW a \in Attempts, NEW y, adm' = [adm EXCEPT ![a] = y], AttemptOK(y)',
           StoreRows', NEW keys, StoreStep(None, keys), Ledger!Next, UNCHANGED <<up, memory, op, detaching>>, Counted,
           NoStrandedRequest => NoStrandedRequest'
    PROVE  Kept
<1>1. StoreInv /\ HandlersInv /\ MemoryInv /\ StoreMoves(None) /\ SessionsKept
  BY Zenon DEF ServiceInv, StoreStep
<1>2. HandlersInv'
  BY <1>1, AttemptMoves, Zenon
<1>3. MemoryInv'
  BY <1>1, MemoryStays, Zenon DEF MemoryInv
<1> QED
  BY <1>1, <1>2, <1>3, Zenon DEF Kept, ServiceInv

(* A request is quarantined on a snapshot that is still current.           *)
LEMMA AdmitQuarantineKept ==
    ASSUME ServiceInv, NEW a \in Attempts, AdmitQuarantine(a)
    PROVE  Kept
<1>1. /\ StoreInv /\ HandlersInv /\ MemoryInv /\ adm[a].pc = "quarantine" /\ RebuildOK(adm[a])
      /\ UNCHANGED <<up, memory, op, detaching>> /\ adm[a].input \in Inputs
  BY Zenon DEF ServiceInv, AdmitQuarantine, At, HandlersInv, AttemptOK
<1>2. PICK r \in Requests : r = adm[a].input.key
  BY <1>1, InputsAssumption, Zenon DEF InputRecords
<1>3. ASSUME UNCHANGED store, Counted, Restart(a, "replay", "settle", "none") \/ Reply(a, "error")
      PROVE  Kept
  <2>1. \E y : adm' = [adm EXCEPT ![a] = y] /\ AttemptOK(y)'
    BY <1>1, <1>3, RestartMoves, ReplyMoves, Zenon DEF PlainPcs
  <2> QED
    BY <1>1, <1>3, <2>1, AttemptStepKept, Zenon
<1>4. ASSUME request[r].rev = adm[a].req.rev, task[request[r].task].rev = adm[a].task.rev, Counted,
             QuarantineTxn(r, adm[a].req, adm[a].task), Restart(a, "replay", "settle", "none")
      PROVE  Kept
  <2>1. adm[a].req = request[r] /\ adm[a].task = task[request[r].task] /\ request[r].state = "open"
    BY <1>1, <1>2, <1>4, Zenon DEF RebuildOK, Snap
  <2>2. StoreRows' /\ StoreStep(None, {}) /\ Ledger!Next
    BY <1>1, <1>4, <2>1, QuarantineStore, Zenon
  <2>3. \E y : adm' = [adm EXCEPT ![a] = y] /\ AttemptOK(y)'
    BY <1>1, <1>4, RestartMoves, Zenon DEF PlainPcs
  <2>4. NoStrandedRequest => NoStrandedRequest'
    <3>1. \A b \in Attempts : adm[b].pc = "install" => adm'[b] = adm[b]
      BY <1>1, <2>3, Zenon DEF HandlersInv
    <3> QED
      BY <1>1, <1>4, <2>2, <3>1, StrandedStays, BoundsStay, Zenon DEF StoreStep, memory
  <2> QED
    BY <1>1, <1>4, <2>2, <2>3, <2>4, AttemptTxnKept, Zenon
<1>5. \/ UNCHANGED store /\ Counted /\ (Restart(a, "replay", "settle", "none") \/ Reply(a, "error"))
      \/ /\ request[r].rev = adm[a].req.rev /\ task[request[r].task].rev = adm[a].task.rev /\ Counted
         /\ QuarantineTxn(r, adm[a].req, adm[a].task) /\ Restart(a, "replay", "settle", "none")
  BY <1>2, Zenon DEF AdmitQuarantine, Counted
<1> QED
  BY <1>3, <1>4, <1>5, Zenon

(* The admission is committed, refused, lost, or of unknown outcome.       *)
LEMMA AdmitCommitKept ==
    ASSUME ServiceInv, NEW a \in Attempts, AdmitCommit(a)
    PROVE  Kept
<1>1. /\ StoreInv /\ HandlersInv /\ MemoryInv /\ adm[a].pc = "commit" /\ AttemptOK(adm[a])
      /\ UNCHANGED <<up, memory, op, detaching>> /\ adm[a].input \in Inputs
  BY Zenon DEF ServiceInv, AdmitCommit, At, HandlersInv, AttemptOK
<1>2. ASSUME AdmissionStands(a), AdmissionTxn(a), UNCHANGED bounds,
             adm' = [adm EXCEPT ![a] = [NoAttempt EXCEPT !.pc = "install", !.input = adm[a].input, !.plan = adm[a].plan]]
      PROVE  Kept
  <2>1. PICK r \in Requests : r = adm[a].input.key
    BY <1>1, InputsAssumption, Zenon DEF InputRecords
  <2>2. StoreRows' /\ StoreStep(None, {r}) /\ Ledger!Next /\ request'[r].state # "absent"
    BY <1>1, <1>2, <2>1, AdmissionStore, Zenon
  <2>3. PICK y : y = [NoAttempt EXCEPT !.pc = "install", !.input = adm[a].input, !.plan = adm[a].plan]
    BY Zenon
  <2>4. DOMAIN y = AttemptFields /\ y.pc = "install" /\ y.input = adm[a].input
    BY <2>3, Zenon DEF NoAttempt, AttemptFields
  <2>5. AttemptOK(y)'
    BY <1>1, <2>1, <2>2, <2>4, SMTT(30) DEF AttemptOK, AdmitPcs
  <2>6. NoStrandedRequest => NoStrandedRequest'
    <3>1. adm'[a] = y /\ \A b \in Attempts : b # a => adm'[b] = adm[b]
      BY <1>1, <1>2, <2>3, Zenon DEF HandlersInv
    <3> QED
      BY <1>1, <1>2, <2>1, <2>2, <2>4, <3>1, SMTT(30) DEF NoStrandedRequest, StoreStep, Opens, bounds, memory
  <2> QED
    BY <1>1, <1>2, <2>2, <2>3, <2>5, <2>6, AttemptTxnKept, Zenon DEF Counted
<1>3. ASSUME NEW reply, Restart(a, "replay", "retry", reply), UNCHANGED store, Counted
      PROVE  Kept
  <2>1. \E y : adm' = [adm EXCEPT ![a] = y] /\ AttemptOK(y)'
    BY <1>1, <1>3, RestartMoves, Zenon DEF PlainPcs
  <2> QED
    BY <1>1, <1>3, <2>1, AttemptStepKept, Zenon
<1>4. ASSUME Fault, Restart(a, "reconcile", "reconcile", "none"), UNCHANGED store
      PROVE  Kept
  <2>1. \E y : adm' = [adm EXCEPT ![a] = y] /\ AttemptOK(y)'
    BY <1>1, <1>4, RestartMoves, Zenon DEF PlainPcs
  <2> QED
    BY <1>1, <1>4, <2>1, AttemptStepKept, Zenon DEF Counted
<1>5. ASSUME Fault, Restart(a, "reconcile", "reconcile", "none"), AdmissionStands(a), AdmissionTxn(a)
      PROVE  Kept
  <2>1. StoreRows' /\ StoreStep(None, {adm[a].input.key}) /\ Ledger!Next
    BY <1>1, <1>5, AdmissionStore, Zenon
  <2>2. \E y : adm' = [adm EXCEPT ![a] = y] /\ AttemptOK(y)'
    BY <1>1, <1>5, RestartMoves, Zenon DEF PlainPcs
  <2>3. NoStrandedRequest'
    BY <1>1, <1>5, BoundsAssumption DEF Fault, MemoryInv, NoStrandedRequest
  <2> QED
    BY <1>1, <1>5, <2>1, <2>2, <2>3, AttemptTxnKept, Zenon DEF Counted
<1>6. \/ /\ AdmissionStands(a) /\ AdmissionTxn(a) /\ UNCHANGED bounds
         /\ adm' = [adm EXCEPT ![a] = [NoAttempt EXCEPT !.pc = "install", !.input = adm[a].input, !.plan = adm[a].plan]]
      \/ Restart(a, "replay", "retry", "conflict") /\ UNCHANGED store /\ UNCHANGED bounds
      \/ Fault /\ Restart(a, "replay", "retry", "error") /\ UNCHANGED store
      \/ Fault /\ Restart(a, "reconcile", "reconcile", "none") /\ UNCHANGED store
      \/ Fault /\ Restart(a, "reconcile", "reconcile", "none") /\ AdmissionStands(a) /\ AdmissionTxn(a)
  BY Zenon DEF AdmitCommit
<1> QED
  BY <1>2, <1>3, <1>4, <1>5, <1>6 DEF Counted
-----------------------------------------------------------------------------
(* Acknowledgements and events                                             *)

(* The others' admissions when only a worker's call moves.                 *)
LEMMA OpStranded ==
    ASSUME MemoryInv, Opens({}), up' = up, Counted, adm' = adm,
           \A r \in assigned : r \in assigned' \/ request'[r].state # "open"
    PROVE  NoStrandedRequest => NoStrandedRequest'
BY BoundsStay, StrandedStays, Zenon

(* A step that only moves the call itself.                                 *)
LEMMA OpStepKept ==
    ASSUME ServiceInv, NEW c \in Workers \cup {Expiry}, NEW y, op' = [op EXCEPT ![c] = y], OpOK(c, y)',
           UNCHANGED <<store, up, memory, adm, detaching>>, Counted,
           c \in Workers /\ y.pc # "idle" => conn[c]
    PROVE  Kept
<1>1. StoreInv /\ HandlersInv /\ MemoryInv
  BY Zenon DEF ServiceInv
<1>2. StoreRows' /\ StoreMoves(c) /\ Opens({}) /\ SessionsKept
  BY <1>1, StoreStays, Zenon DEF StoreStep
<1>3. HandlersInv'
  BY <1>1, <1>2, OpMoves, Zenon
<1>4. MemoryInv'
  <2>1. \A w \in Workers : op'[w].pc # "idle" => conn[w]
    BY <1>1, Zenon DEF HandlersInv, MemoryInv
  <2> QED
    BY <1>1, <1>2, <2>1, MemoryStays, Zenon
<1>5. NoStrandedRequest => NoStrandedRequest'
  BY <1>1, <1>2, OpStranded, Zenon DEF memory
<1> QED
  BY <1>2, <1>3, <1>4, <1>5, Zenon DEF Kept, ServiceInv

(* A step with a transaction.                                              *)
LEMMA OpTxnKept ==
    ASSUME ServiceInv, NEW c \in Workers \cup {Expiry}, NEW y, op' = [op EXCEPT ![c] = y], OpOK(c, y)',
           StoreRows', StoreStep(c, {}), Ledger!Next, UNCHANGED <<up, memory, adm, detaching>>, Counted,
           c \in Workers /\ y.pc # "idle" => conn[c]
    PROVE  Kept
<1>1. StoreInv /\ HandlersInv /\ MemoryInv /\ StoreMoves(c) /\ Opens({}) /\ SessionsKept
  BY Zenon DEF ServiceInv, StoreStep
<1>2. HandlersInv'
  BY <1>1, OpMoves, Zenon
<1>3. MemoryInv'
  <2>1. \A w \in Workers : op'[w].pc # "idle" => conn[w]
    BY <1>1, Zenon DEF HandlersInv, MemoryInv
  <2> QED
    BY <1>1, <2>1, MemoryStays, Zenon
<1>4. NoStrandedRequest => NoStrandedRequest'
  BY <1>1, OpStranded, Zenon DEF memory
<1> QED
  BY <1>1, <1>2, <1>3, <1>4, Zenon DEF Kept, ServiceInv

(* The record of a call, but for its snapshots.                            *)
IsCall(y, pc, r, event, result) ==
    DOMAIN y = OpFields /\ y.pc = pc /\ y.r = r /\ y.event = event /\ y.result = result

(* A call goes on, or is answered.                                         *)
LEMMA GotoCall ==
    ASSUME NEW c, NEW pc, OpGoto(c, pc)
    PROVE  \E y : op' = [op EXCEPT ![c] = y] /\ IsCall(y, pc, op[c].r, op[c].event, "none")
<1>1. PICK y : y = [NoOp EXCEPT !.pc = pc, !.r = op[c].r, !.event = op[c].event]
  BY Zenon
<1>2. IsCall(y, pc, op[c].r, op[c].event, "none")
  BY <1>1, Zenon DEF IsCall, NoOp, OpFields
<1>3. op' = [op EXCEPT ![c] = y]
  BY <1>1, Zenon DEF OpGoto
<1> QED
  BY <1>2, <1>3, Zenon

(* A call is answered.                                                     *)
LEMMA ResultCall ==
    ASSUME NEW c, NEW result, Result(c, result)
    PROVE  \E y : op' = [op EXCEPT ![c] = y] /\ IsCall(y, "done", op[c].r, op[c].event, result)
<1>1. PICK y : y = [NoOp EXCEPT !.pc = "done", !.r = op[c].r, !.event = op[c].event, !.result = result]
  BY Zenon
<1>2. IsCall(y, "done", op[c].r, op[c].event, result)
  BY <1>1, Zenon DEF IsCall, NoOp, OpFields
<1>3. op' = [op EXCEPT ![c] = y]
  BY <1>1, Zenon DEF Result
<1> QED
  BY <1>2, <1>3, Zenon

(* An event is something.                                                  *)
LEMMA EventIsSome ==
    ASSUME NEW c, NEW event, EventOf(c, event)
    PROVE  EventOf(c, event)' /\ event # None
BY NoneIsNoEvent, SameWords, Zenon DEF EventOf, Ledger!Events

(* What is known of a call that goes on: its request and its event.        *)
LEMMA CallKnows ==
    ASSUME ServiceInv, NEW c \in Workers \cup {Expiry}, op[c].pc # "idle"
    PROVE  /\ OpOK(c, op[c]) /\ op[c].r \in Requests /\ request[op[c].r].state # "absent"
           /\ op[c].event # None => EventOf(c, op[c].event)
           /\ c \in Workers => conn[c]
BY Zenon DEF ServiceInv, HandlersInv, MemoryInv, OpOK

(* A call whose outcome is not known, or of no event.                      *)
LEMMA SilentCall ==
    ASSUME NEW c, NEW pc \in OpPcs, NEW r \in Requests, NEW event, NEW result, NEW y,
           IsCall(y, pc, r, event, result), request'[r].state # "absent", pc # "txn",
           \/ event = None /\ pc \in {"done", "ackunknown"}
           \/ event = None /\ pc = "acked" /\ Acknowledged(r)'
           \/ EventOf(c, event) /\ (pc = "unknown" \/ (pc = "done" /\ result = "failed"))
    PROVE  OpOK(c, y)'
<1>1. DOMAIN y = OpFields /\ y.pc = pc /\ y.r = r /\ y.event = event /\ y.result = result
  BY Zenon DEF IsCall
<1>2. EventOf(c, event) => EventOf(c, event)' /\ event # None
  BY EventIsSome, Zenon
<1> QED
  BY <1>1, <1>2, Zenon DEF OpOK, Applied, Refused

(* A call that tells, or will tell, that its event was applied or refused. *)
LEMMA TellingCall ==
    ASSUME NEW c, NEW pc \in {"settle", "load", "done"}, NEW r \in Requests, NEW event, NEW result, NEW y,
           IsCall(y, pc, r, event, result), request'[r].state # "absent", EventOf(c, event),
           Applied(y) => event \in receipt'[r],
           Refused(y) /\ c # Expiry => event \notin receipt'[r]
    PROVE  OpOK(c, y)'
<1>1. DOMAIN y = OpFields /\ y.pc = pc /\ y.r = r /\ y.event = event /\ y.result = result
  BY Zenon DEF IsCall
<1>2. EventOf(c, event)' /\ event # None
  BY EventIsSome, Zenon
<1> QED
  BY <1>1, <1>2, Zenon DEF OpOK, Applied, Refused, OpPcs
(* An answer that promises nothing.                                        *)
LEMMA FailedKept ==
    ASSUME ServiceInv, NEW c \in Workers \cup {Expiry}, op[c].pc # "idle", Result(c, "failed"),
           UNCHANGED <<store, up, memory, adm, detaching>>, Counted
    PROVE  Kept
<1>1. /\ OpOK(c, op[c]) /\ op[c].r \in Requests /\ request[op[c].r].state # "absent"
      /\ op[c].event # None => EventOf(c, op[c].event)
      /\ c \in Workers => conn[c]
  BY CallKnows, Zenon
<1>2. PICK y : op' = [op EXCEPT ![c] = y] /\ IsCall(y, "done", op[c].r, op[c].event, "failed")
  BY ResultCall, Zenon
<1>3. request'[op[c].r].state # "absent"
  BY <1>1, Zenon DEF store
<1>4. OpOK(c, y)'
  BY <1>1, <1>2, <1>3, SilentCall, Zenon DEF OpPcs
<1> QED
  BY <1>1, <1>2, <1>4, OpStepKept, Zenon

(* A View fails.                                                           *)
LEMMA OpFailsKept ==
    ASSUME ServiceInv, NEW c \in Workers \cup {Expiry}, OpFails(c)
    PROVE  Kept
<1>1. op[c].pc # "idle" /\ Result(c, "failed") /\ UNCHANGED <<store, up, memory, adm, detaching>> /\ Counted
  BY Zenon DEF OpFails, Counted
<1> QED
  BY <1>1, FailedKept, Zenon

(* The answer is returned.                                                 *)
LEMMA OpReturnKept ==
    ASSUME ServiceInv, NEW c \in Workers \cup {Expiry}, OpReturn(c)
    PROVE  Kept
<1>1. PICK y : y = NoOp
  BY Zenon
<1>2. DOMAIN y = OpFields /\ y.pc = "idle" /\ y.event = None
  BY <1>1, Zenon DEF NoOp, OpFields
<1>3. OpOK(c, y)'
  BY <1>2, Zenon DEF OpOK, OpPcs, Applied, Refused
<1> QED
  BY <1>1, <1>2, <1>3, OpStepKept, Zenon DEF OpReturn, Counted

(* An event's call begins with what the receipts say.                      *)
LEMMA CommitBeginKept ==
    ASSUME ServiceInv, NEW c \in Workers \cup {Expiry}, NEW r \in Requests, NEW event, EventOf(c, event),
           request[r].state # "absent", c \in Workers => conn[c], CommitBegin(c, r, event)
    PROVE  Kept
<1>1. UNCHANGED <<store, up, memory, adm, detaching>> /\ Counted
  BY Zenon DEF CommitBegin, Counted
<1>2. request'[r].state # "absent" /\ receipt' = receipt
  BY <1>1, Zenon DEF store
<1>3. PICK pc, result :
        /\ \/ pc = "load" /\ result = "none" /\ event \notin receipt[r]
           \/ pc = "settle" /\ result = "none" /\ event \in receipt[r]
           \/ pc = "done" /\ result = "event_conflict" /\ event \notin receipt[r]
        /\ op' = [op EXCEPT ![c] = [NoOp EXCEPT !.pc = pc, !.r = r, !.event = event, !.result = result]]
  <2>1. CASE {e \in receipt[r] : e.id = event.id} = {}
    BY <2>1, Zenon DEF CommitBegin
  <2>2. CASE {e \in receipt[r] : e.id = event.id} # {} /\ event \in receipt[r]
    BY <2>2, Zenon DEF CommitBegin
  <2>3. CASE {e \in receipt[r] : e.id = event.id} # {} /\ event \notin receipt[r]
    BY <2>3, Zenon DEF CommitBegin
  <2> QED
    BY <2>1, <2>2, <2>3, Zenon
<1>4. PICK y : y = [NoOp EXCEPT !.pc = pc, !.r = r, !.event = event, !.result = result]
  BY Zenon
<1>5. IsCall(y, pc, r, event, result)
  BY <1>4, Zenon DEF IsCall, NoOp, OpFields
<1>6. OpOK(c, y)'
  BY <1>2, <1>3, <1>5, TellingCall, Zenon DEF Applied, Refused, IsCall
<1> QED
  BY <1>1, <1>3, <1>4, <1>6, OpStepKept, ZenonT(30)

(* A worker's event.                                                       *)
LEMMA CommitEventKept ==
    ASSUME ServiceInv, NEW w \in Workers, NEW r \in Requests, NEW event \in WorkerEvents, CommitEvent(w, r, event)
    PROVE  Kept
<1>1. EventOf(w, event)
  BY WorkerEventsAssumption, ExpiryAssumption, SameWords, Zenon DEF EventOf, Ledger!Events, CommitEvent
<1> QED
  BY <1>1, CommitBeginKept, Zenon DEF CommitEvent

(* The sweep's event.                                                      *)
LEMMA ExpireRequestKept ==
    ASSUME ServiceInv, NEW r \in Requests, ExpireRequest(r)
    PROVE  Kept
<1>1. Owner(r) \in Workers
  BY Zenon DEF ExpireRequest, ServiceInv, StoreInv, StoreRows, Placed, Owner
<1>2. PICK event : event = [id |-> Expiry, worker |-> Owner(r), kind |-> "expired", calls |-> {}]
  BY Zenon
<1>3. EventOf(Expiry, event)
  BY <1>1, <1>2, SameWords, Zenon DEF EventOf, Ledger!Events, Kinds
<1>4. CommitBegin(Expiry, r, event) /\ request[r].state # "absent"
  BY <1>2, Zenon DEF ExpireRequest
<1> QED
  BY <1>3, <1>4, ExpiryAssumption, CommitBeginKept, Zenon
(* The rejection of an event.                                              *)
LEMMA RejectionFacts ==
    ASSUME RowTypes, NEW r \in Requests, NEW event
    PROVE  /\ Rejection(r, event) \notin {"acked", "failed"}
           /\ Rejection(r, event) = "none" =>
                request[r].state = "open" /\ EventAllowed(event.kind, task[request[r].task].state)
<1>1. request[r].state \in {"absent", "open", "closed"}
  BY Zenon DEF RowTypes, RequestRows
<1> QED
  BY <1>1, Zenon DEF Rejection

(* What an event is planned on is what the Store holds.                    *)
LEMMA LoadedCall ==
    ASSUME ServiceInv, UNCHANGED store, NEW c \in Workers \cup {Expiry}, op[c].pc = "load",
           Rejection(op[c].r, op[c].event) = "none",
           op' = [op EXCEPT ![c].pc = "txn", ![c].req = request[op[c].r],
                            ![c].task = task[request[op[c].r].task]]
    PROVE  \E y : op' = [op EXCEPT ![c] = y] /\ OpOK(c, y)'
<1>1. StoreInv /\ RowTypes /\ DOMAIN op = Workers \cup {Expiry} /\ OpOK(c, op[c])
  BY Zenon DEF ServiceInv, HandlersInv, StoreInv, StoreRows
<1>2. op[c].r \in Requests /\ EventOf(c, op[c].event) /\ op[c].event # None /\ DOMAIN op[c] = OpFields
  BY <1>1, Zenon DEF OpOK
<1>3. /\ request[op[c].r].state = "open"
      /\ EventAllowed(op[c].event.kind, task[request[op[c].r].task].state)
  BY <1>1, <1>2, RejectionFacts, Zenon
<1>4. request[op[c].r].task \in Tasks
  BY <1>1, <1>2, <1>3, LedgerFacts, Zenon
<1>5. request[op[c].r] \in RequestRows /\ task[request[op[c].r].task] \in TaskRows
  BY <1>1, <1>2, <1>4, Zenon DEF RowTypes
<1>6. PICK r \in Requests, event \in Ledger!Events : r = op[c].r /\ event = op[c].event
  BY <1>2, Zenon DEF EventOf
<1>7. PICK x \in RequestRows : x = request[r]
  BY <1>5, <1>6, Zenon
<1>8. PICK t \in Tasks : t = x.task
  BY <1>4, <1>6, <1>7, Zenon
<1>9. PICK k \in TaskRows : k = task[t]
  BY <1>5, <1>6, <1>7, <1>8, Zenon
<1>10. x.state = "open" /\ EventAllowed(event.kind, k.state)
  BY <1>3, <1>6, <1>7, <1>8, <1>9, Zenon
<1>11. PICK y : y = [op[c] EXCEPT !.pc = "txn", !.req = x, !.task = k]
  BY Zenon
<1>12. /\ DOMAIN y = OpFields /\ y.pc = "txn" /\ y.req = x /\ y.task = k /\ y.r = r /\ y.event = event
      /\ op' = [op EXCEPT ![c] = y]
  BY <1>1, <1>2, <1>6, <1>7, <1>8, <1>9, <1>11, ZenonT(30) DEF OpFields
<1>13. request'[r] = x /\ task'[t] = k
  BY <1>7, <1>8, <1>9, Zenon DEF store
<1>14. x.rev \in Nat /\ k.rev \in Nat
  BY Zenon DEF RequestRows, TaskRows
<1>15. Snap(x, x) /\ Snap(k, k)
  BY <1>14, SnapNow, Zenon
<1>16. EventPlanOK(y)'
  BY <1>8, <1>10, <1>12, <1>13, <1>15, Zenon DEF EventPlanOK
<1>17. EventOf(c, event)' /\ event # None
  BY <1>2, <1>6, EventIsSome, Zenon
<1>18. OpOK(c, y)'
  BY <1>10, <1>12, <1>13, <1>16, <1>17, ZenonT(30) DEF OpOK, OpPcs, Applied, Refused
<1> QED
  BY <1>12, <1>18, Zenon

(* The event is planned, or refused.                                       *)
LEMMA CommitLoadKept ==
    ASSUME ServiceInv, NEW c \in Workers \cup {Expiry}, CommitLoad(c)
    PROVE  Kept
<1>1. UNCHANGED <<store, up, memory, adm, detaching>> /\ Counted /\ op[c].pc = "load"
  BY Zenon DEF CommitLoad, Counted, OpAt
<1>2. StoreInv /\ RowTypes /\ receipt' = receipt /\ request' = request
  BY <1>1, Zenon DEF ServiceInv, StoreInv, StoreRows, store
<1>3. /\ OpOK(c, op[c]) /\ op[c].r \in Requests /\ request[op[c].r].state # "absent"
      /\ EventOf(c, op[c].event) /\ op[c].event # None /\ (c \in Workers => conn[c])
      /\ c # Expiry => op[c].event \notin receipt[op[c].r]
  <2>1. OpOK(c, op[c]) /\ (c \in Workers => conn[c])
    BY <1>1, CallKnows, Zenon
  <2> QED
    BY <1>1, <2>1, Zenon DEF OpOK, Refused
<1>4. ASSUME NEW result, result \notin {"acked", "failed"}, Result(c, result)
      PROVE  Kept
  <2>1. PICK y : op' = [op EXCEPT ![c] = y] /\ IsCall(y, "done", op[c].r, op[c].event, result)
    BY <1>4, ResultCall, Zenon
  <2>2. OpOK(c, y)'
    BY <1>2, <1>3, <1>4, <2>1, TellingCall, Zenon DEF Applied, IsCall
  <2> QED
    BY <1>1, <1>3, <2>1, <2>2, OpStepKept, Zenon
<1>5. Rejection(op[c].r, op[c].event) \notin {"acked", "failed"}
  BY <1>2, <1>3, RejectionFacts, Zenon
<1>6. CASE /\ Rejection(op[c].r, op[c].event) = "none"
           /\ op' = [op EXCEPT ![c].pc = "txn", ![c].req = request[op[c].r],
                               ![c].task = task[request[op[c].r].task]]
  <2>1. PICK y : op' = [op EXCEPT ![c] = y] /\ OpOK(c, y)'
    BY <1>1, <1>6, LoadedCall, Zenon
  <2> QED
    BY <1>1, <1>3, <2>1, OpStepKept, Zenon
<1> QED
  BY <1>4, <1>5, <1>6, Zenon DEF CommitLoad

(* The event has been applied: the worker will be told.                    *)
LEMMA SettledCall ==
    ASSUME ServiceInv, NEW c \in Workers \cup {Expiry}, op[c].pc \in {"load", "txn", "unknown", "settle"},
           OpGoto(c, "settle") \/ Result(c, "acked"),
           op[c].event \in receipt'[op[c].r], request'[op[c].r].state # "absent"
    PROVE  \E y : op' = [op EXCEPT ![c] = y] /\ OpOK(c, y)'
<1>1. op[c].r \in Requests /\ EventOf(c, op[c].event)
  BY Zenon DEF ServiceInv, HandlersInv, OpOK
<1>2. CASE OpGoto(c, "settle")
  <2>1. PICK y : op' = [op EXCEPT ![c] = y] /\ IsCall(y, "settle", op[c].r, op[c].event, "none")
    BY <1>2, GotoCall, Zenon
  <2>2. OpOK(c, y)'
    BY <1>1, <2>1, TellingCall, Zenon DEF Refused, IsCall
  <2> QED
    BY <2>1, <2>2, Zenon
<1>3. CASE Result(c, "acked")
  <2>1. PICK y : op' = [op EXCEPT ![c] = y] /\ IsCall(y, "done", op[c].r, op[c].event, "acked")
    BY <1>3, ResultCall, Zenon
  <2>2. OpOK(c, y)'
    BY <1>1, <2>1, TellingCall, Zenon DEF Refused, IsCall
  <2> QED
    BY <2>1, <2>2, Zenon
<1> QED
  BY <1>2, <1>3, Zenon
(* The event's transaction.                                                *)
LEMMA CommitTxnKept ==
    ASSUME ServiceInv, NEW c \in Workers \cup {Expiry}, CommitTxn(c)
    PROVE  Kept
<1> DEFINE known == {e \in receipt[op[c].r] : e.id = op[c].event.id}
           stands == known = {} /\ EventStands(c)
<1>1. UNCHANGED <<up, memory, adm, detaching>> /\ op[c].pc = "txn"
  BY Zenon DEF CommitTxn, OpAt
<1>2. StoreInv
  BY Zenon DEF ServiceInv
<1>3. /\ OpOK(c, op[c]) /\ op[c].r \in Requests /\ request[op[c].r].state # "absent"
      /\ EventOf(c, op[c].event) /\ (c \in Workers => conn[c])
  <2>1. OpOK(c, op[c]) /\ (c \in Workers => conn[c])
    BY <1>1, CallKnows, Zenon
  <2> QED
    BY <1>1, <2>1, Zenon DEF OpOK
<1>4. ASSUME UNCHANGED store, Counted, Result(c, "failed") PROVE Kept
  BY <1>1, <1>4, FailedKept, Zenon
<1>5. ASSUME op[c].event \in receipt[op[c].r], OpGoto(c, "settle"), UNCHANGED store, UNCHANGED bounds
      PROVE  Kept
  <2>1. PICK y : op' = [op EXCEPT ![c] = y] /\ OpOK(c, y)'
    BY <1>1, <1>3, <1>5, SettledCall, Zenon DEF store
  <2> QED
    BY <1>1, <1>3, <1>5, <2>1, OpStepKept, Zenon DEF Counted
<1>6. ASSUME stands, EventTxn(c)
      PROVE  /\ StoreRows' /\ StoreStep(c, {}) /\ Ledger!Next /\ op[c].event \in receipt'[op[c].r]
             /\ request'[op[c].r].state # "absent"
  <2>1. \A e \in receipt[op[c].r] : e.id # op[c].event.id
    BY <1>6, Zenon
  <2>2. StoreRows' /\ StoreStep(c, {}) /\ Ledger!Next /\ op[c].event \in receipt'[op[c].r]
    BY <1>1, <1>2, <1>3, <1>6, <2>1, EventStore, Zenon
  <2> QED
    BY <1>3, <2>2, Zenon DEF StoreStep, StoreMoves
<1>7. ASSUME stands, EventTxn(c), OpGoto(c, "settle"), UNCHANGED bounds PROVE Kept
  <2>1. PICK y : op' = [op EXCEPT ![c] = y] /\ OpOK(c, y)'
    BY <1>1, <1>6, <1>7, SettledCall, Zenon
  <2> QED
    BY <1>1, <1>3, <1>6, <1>7, <2>1, OpTxnKept, ZenonT(30) DEF Counted
<1>8. ASSUME request'[op[c].r].state # "absent", OpGoto(c, "unknown")
      PROVE  \E y : op' = [op EXCEPT ![c] = y] /\ OpOK(c, y)'
  <2>1. PICK y : op' = [op EXCEPT ![c] = y] /\ IsCall(y, "unknown", op[c].r, op[c].event, "none")
    BY <1>8, GotoCall, Zenon
  <2> QED
    BY <1>3, <1>8, <2>1, SilentCall, Zenon DEF OpPcs
<1>9. ASSUME Fault, stands, EventTxn(c), OpGoto(c, "unknown") PROVE Kept
  <2>1. PICK y : op' = [op EXCEPT ![c] = y] /\ OpOK(c, y)'
    BY <1>6, <1>8, <1>9, Zenon
  <2> QED
    BY <1>1, <1>3, <1>6, <1>9, <2>1, OpTxnKept, ZenonT(30) DEF Counted
<1>10. ASSUME Fault, UNCHANGED store, OpGoto(c, "unknown") PROVE Kept
  <2>1. PICK y : op' = [op EXCEPT ![c] = y] /\ OpOK(c, y)'
    BY <1>3, <1>8, <1>10, Zenon DEF store
  <2> QED
    BY <1>1, <1>3, <1>10, <2>1, OpStepKept, Zenon DEF Counted
<1>11. \/ op[c].event \in known /\ OpGoto(c, "settle") /\ UNCHANGED <<store, bounds>>
       \/ Result(c, "failed") /\ UNCHANGED <<store, bounds>>
       \/ stands /\ EventTxn(c) /\ OpGoto(c, "settle") /\ UNCHANGED bounds
       \/ Fault /\ UNCHANGED store /\ Result(c, "failed")
       \/ Fault /\ stands /\ (EventTxn(c) \/ UNCHANGED store) /\ OpGoto(c, "unknown")
  BY Zenon DEF CommitTxn
<1> QED
  BY <1>4, <1>5, <1>7, <1>9, <1>10, <1>11, ZenonT(30) DEF Counted

(* After a commit of unknown outcome.                                      *)
LEMMA CommitReconcileKept ==
    ASSUME ServiceInv, NEW c \in Workers \cup {Expiry}, CommitReconcile(c)
    PROVE  Kept
<1>1. UNCHANGED <<store, up, memory, adm, detaching>> /\ Counted /\ op[c].pc = "unknown"
  BY Zenon DEF CommitReconcile, Counted, OpAt
<1>2. CASE op[c].event \in receipt[op[c].r] /\ OpGoto(c, "settle")
  <2>1. request[op[c].r].state # "absent" /\ (c \in Workers => conn[c])
    BY <1>1, CallKnows, Zenon
  <2>2. PICK y : op' = [op EXCEPT ![c] = y] /\ OpOK(c, y)'
    BY <1>1, <1>2, <2>1, SettledCall, Zenon DEF store
  <2> QED
    BY <1>1, <2>1, <2>2, OpStepKept, Zenon
<1>3. CASE Result(c, "failed")
  BY <1>1, <1>3, FailedKept, Zenon
<1> QED
  BY <1>2, <1>3, Zenon DEF CommitReconcile
(* An answered request leaves memory.                                      *)
LEMMA SettleMemory ==
    ASSUME ServiceInv, NEW c \in Workers \cup {Expiry}, CommitSettle(c), NEW y, op' = [op EXCEPT ![c] = y]
    PROVE  MemoryInv'
<1>1. StoreInv /\ HandlersInv /\ MemoryInv /\ op[c].pc = "settle"
  BY Zenon DEF ServiceInv, CommitSettle, OpAt
<1>2. /\ op[c].r \in Requests /\ request[op[c].r].state # "absent" /\ op[c].event.worker \in Workers
      /\ c \in Workers => conn[c]
  <2>1. OpOK(c, op[c]) /\ (c \in Workers => conn[c])
    BY <1>1, CallKnows, Zenon
  <2> QED
    BY <1>1, <2>1, Zenon DEF OpOK, EventOf, Ledger!Events
<1>3. PICK r \in Requests, w \in Workers : r = op[c].r /\ w = op[c].event.worker
  BY <1>2, Zenon
<1>4. /\ (assigned' = assigned /\ pending' = pending) \/ (assigned' = assigned \ {r} /\ pending' = pending \ {r})
      /\ \/ sent' = sent /\ acked' = acked
         \/ sent' = [sent EXCEPT ![w] = @ \ {r}] /\ acked' = [acked EXCEPT ![w] = @ \ {r}]
      /\ up' = up /\ conn' = conn /\ detaching' = detaching /\ faults' = faults /\ crashes' = crashes
      /\ task' = task /\ request' = request
  BY <1>3, Zenon DEF CommitSettle, store, bounds
<1>5. detached' \in [Tasks -> Requests \cup {None}]
  BY <1>1, Zenon DEF CommitSettle, MemoryInv
<1>6. /\ DOMAIN sent' = Workers /\ DOMAIN acked' = Workers
      /\ \A v \in Workers : sent'[v] \subseteq sent[v] /\ acked'[v] \subseteq acked[v]
  BY <1>1, <1>4 DEF MemoryInv
<1>7. \A v \in Workers : op'[v].pc # "idle" => conn[v]
  BY <1>1, <1>2, Zenon DEF HandlersInv, MemoryInv
<1>8. \A v \in Workers : (sent[v] \cup acked[v] # {} \/ op[v].pc # "idle" => conn[v])'
  <2> TAKE v \in Workers
  <2>1. sent[v] \cup acked[v] # {} => conn[v]
    BY <1>1, Zenon DEF MemoryInv
  <2> QED
    BY <1>4, <1>6, <1>7, <2>1, Zenon
<1>9. DeliverableUntilAcked'
  BY <1>1, <1>4, Zenon DEF MemoryInv, DeliverableUntilAcked
<1> QED
  BY <1>1, <1>4, <1>5, <1>6, <1>8, <1>9, ZenonT(30) DEF MemoryInv

(* The worker is told; an answered request leaves memory.                  *)
LEMMA CommitSettleKept ==
    ASSUME ServiceInv, NEW c \in Workers \cup {Expiry}, CommitSettle(c)
    PROVE  Kept
<1>1. StoreInv /\ HandlersInv /\ MemoryInv /\ op[c].pc = "settle" /\ Result(c, "acked")
  BY Zenon DEF ServiceInv, CommitSettle, OpAt
<1>2. UNCHANGED store /\ up' = up /\ adm' = adm /\ Counted
  BY Zenon DEF CommitSettle, Counted
<1>3. /\ op[c].r \in Requests /\ request[op[c].r].state # "absent" /\ op[c].event \in receipt[op[c].r]
  <2>1. OpOK(c, op[c])
    BY <1>1, CallKnows, Zenon
  <2> QED
    BY <1>1, <2>1, Zenon DEF OpOK, Applied
<1>4. PICK y : op' = [op EXCEPT ![c] = y] /\ OpOK(c, y)'
  BY <1>1, <1>2, <1>3, SettledCall, Zenon DEF store
<1>5. StoreRows' /\ StoreMoves(c) /\ Opens({}) /\ SessionsKept
  BY <1>1, <1>2, StoreStays, Zenon DEF StoreStep
<1>6. HandlersInv' /\ MemoryInv'
  BY <1>1, <1>2, <1>4, <1>5, OpMoves, SettleMemory, Zenon
<1>7. \A r \in assigned : r \in assigned' \/ request'[r].state # "open"
  <2>1. EndsResponse(op[c].event.kind) => request'[op[c].r].state # "open"
    BY <1>1, <1>2, <1>3, LedgerFacts, Zenon DEF store
  <2> QED
    BY <2>1, Zenon DEF CommitSettle
<1>8. NoStrandedRequest => NoStrandedRequest'
  BY <1>1, <1>2, <1>5, <1>7, OpStranded, Zenon
<1> QED
  BY <1>2, <1>5, <1>6, <1>8, Zenon DEF Kept, ServiceInv

(* An acknowledgement after a commit of unknown outcome.                   *)
LEMMA AckReconcileKept ==
    ASSUME ServiceInv, NEW w \in Workers, AckReconcile(w)
    PROVE  Kept
<1>1. UNCHANGED <<store, up, memory, adm, detaching>> /\ Counted /\ op[w].pc = "ackunknown"
  BY Zenon DEF AckReconcile, Counted, OpAt
<1>2. CASE Result(w, "failed")
  BY <1>1, <1>2, FailedKept, Zenon
<1>3. CASE /\ task[request[op[w].r].task].lease = op[w].r /\ task[request[op[w].r].task].state = "awaiting_human"
           /\ OpGoto(w, "acked")
  <2>1. OpOK(w, op[w]) /\ op[w].r \in Requests /\ request[op[w].r].state # "absent" /\ conn[w]
    BY <1>1, CallKnows, Zenon
  <2>2. op[w].event = None
    BY <1>1, <2>1, ZenonT(30) DEF OpOK
  <2>3. Acknowledged(op[w].r)
    BY <1>3, <2>1, LedgerFacts DEF ServiceInv, Acknowledged, ActiveStates
  <2>4. PICK y : op' = [op EXCEPT ![w] = y] /\ IsCall(y, "acked", op[w].r, None, "none")
    BY <1>3, <2>2, GotoCall, Zenon
  <2>5. PICK r \in Requests : r = op[w].r
    BY <2>1, Zenon
  <2>6. Acknowledged(r)' /\ request'[r].state # "absent"
    BY <1>1, <2>1, <2>3, <2>5, Zenon DEF store, Acknowledged
  <2>7. OpOK(w, y)'
    BY <2>4, <2>5, <2>6, SilentCall, Zenon DEF OpPcs
  <2> QED
    BY <1>1, <2>1, <2>4, <2>7, OpStepKept, Zenon
<1> QED
  BY <1>2, <1>3, Zenon DEF AckReconcile

(* The delivery is no longer pending.                                      *)
LEMMA AckMemory ==
    ASSUME ServiceInv, NEW w \in Workers, AckInstall(w), NEW y, op' = [op EXCEPT ![w] = y]
    PROVE  MemoryInv'
<1>1. StoreInv /\ HandlersInv /\ MemoryInv /\ op[w].pc = "acked"
  BY Zenon DEF ServiceInv, AckInstall, OpAt
<1>2. OpOK(w, op[w]) /\ op[w].r \in Requests /\ conn[w]
  BY <1>1, CallKnows, Zenon
<1>3. PICK r \in Requests : r = op[w].r /\ Acknowledged(r)
  BY <1>1, <1>2, Zenon DEF OpOK
<1>4. /\ assigned' = assigned /\ pending' = pending \ {r} /\ up' = up /\ conn' = conn /\ detaching' = detaching
      /\ sent' = [sent EXCEPT ![w] = @ \ {r}] /\ acked' = [acked EXCEPT ![w] = @ \cup {r}]
      /\ detached' = detached /\ faults' = faults /\ crashes' = crashes /\ task' = task /\ request' = request
  BY <1>3, Zenon DEF AckInstall, store, bounds
<1>5. /\ DOMAIN sent' = Workers /\ DOMAIN acked' = Workers
      /\ \A v \in Workers : v # w => sent'[v] = sent[v] /\ acked'[v] = acked[v] /\ op'[v] = op[v]
  BY <1>1, <1>4, Zenon DEF MemoryInv, HandlersInv
<1>6. \A v \in Workers : (sent[v] \cup acked[v] # {} \/ op[v].pc # "idle" => conn[v])'
  BY <1>1, <1>2, <1>4, <1>5 DEF MemoryInv
<1>7. DeliverableUntilAcked'
  BY <1>1, <1>3, <1>4, Zenon DEF MemoryInv, DeliverableUntilAcked, Acknowledged
<1> QED
  BY <1>1, <1>4, <1>5, <1>6, <1>7, Zenon DEF MemoryInv
(* The acknowledgement is durable, and leaves memory.                      *)
LEMMA AckInstallKept ==
    ASSUME ServiceInv, NEW w \in Workers, AckInstall(w)
    PROVE  Kept
<1>1. StoreInv /\ HandlersInv /\ MemoryInv /\ op[w].pc = "acked" /\ Result(w, "acked")
  BY Zenon DEF ServiceInv, AckInstall, OpAt
<1>2. UNCHANGED store /\ up' = up /\ adm' = adm /\ assigned' = assigned /\ Counted
  BY Zenon DEF AckInstall, Counted
<1>3. OpOK(w, op[w]) /\ op[w].r \in Requests /\ request[op[w].r].state # "absent"
  BY <1>1, CallKnows, Zenon
<1>4. op[w].event = None
  BY <1>1, <1>3, Zenon DEF OpOK
<1>5. PICK y : op' = [op EXCEPT ![w] = y] /\ IsCall(y, "done", op[w].r, None, "acked")
  BY <1>1, <1>4, ResultCall, Zenon
<1>6. OpOK(w, y)'
  BY <1>2, <1>3, <1>5, SilentCall, Zenon DEF OpPcs, store
<1>7. StoreRows' /\ StoreMoves(w) /\ Opens({}) /\ SessionsKept
  BY <1>1, <1>2, StoreStays, Zenon DEF StoreStep
<1>8. HandlersInv' /\ MemoryInv'
  BY <1>1, <1>2, <1>5, <1>6, <1>7, OpMoves, AckMemory, ZenonT(30)
<1>9. NoStrandedRequest => NoStrandedRequest'
  BY <1>1, <1>2, <1>7, OpStranded, Zenon
<1> QED
  BY <1>2, <1>7, <1>8, <1>9, Zenon DEF Kept, ServiceInv

(* The acknowledged task, and only it, held the request's lease.           *)
LEMMA AckTxnAcknowledges ==
    ASSUME StoreInv, NEW r \in Requests, request[r].state # "absent", NEW t \in Tasks, t = request[r].task,
           task[t].state = "leased", task[t].lease = r, AckTxn(t)
    PROVE  Acknowledged(r)'
<1>1. \A u \in Tasks : task[u].state = "leased" /\ task[u].lease = r => u = t
  BY LedgerFacts DEF ActiveStates
<1>2. request' = request /\ task'[t].state = "awaiting_human" /\ \A u \in Tasks : u # t => task'[u] = task[u]
  BY Zenon DEF AckTxn, StoreInv, StoreRows, RowTypes, TaskRows
<1> QED
  BY <1>1, <1>2, Zenon DEF Acknowledged

(* An acknowledgement, up to its transaction.                              *)
LEMMA AckAssignmentKept ==
    ASSUME ServiceInv, NEW w \in Workers, NEW r \in Requests, AckAssignment(w, r)
    PROVE  Kept
<1> DEFINE t == request[r].task
           Begin(pc, result) == op' = [op EXCEPT ![w] = [NoOp EXCEPT !.pc = pc, !.r = r, !.result = result]]
<1>1. /\ StoreInv /\ conn[w] /\ request[r].state # "absent" /\ t \in Tasks
      /\ UNCHANGED <<up, memory, adm, detaching>>
  BY Zenon DEF ServiceInv, StoreInv, StoreRows, Placed, AckAssignment
<1>2. ASSUME NEW pc, NEW result, Begin(pc, result), request'[r].state # "absent",
             pc \in {"done", "ackunknown"} \/ (pc = "acked" /\ Acknowledged(r)')
      PROVE  \E y : op' = [op EXCEPT ![w] = y] /\ OpOK(w, y)'
  <2>1. PICK y : y = [NoOp EXCEPT !.pc = pc, !.r = r, !.result = result]
    BY Zenon
  <2>2. IsCall(y, pc, r, None, result)
    BY <2>1, Zenon DEF IsCall, NoOp, OpFields
  <2>3. OpOK(w, y)'
    BY <1>2, <2>2, SilentCall, Zenon DEF OpPcs
  <2> QED
    BY <1>2, <2>1, <2>3, Zenon
<1> HIDE DEF Begin
<1>3. ASSUME NEW pc, NEW result, Begin(pc, result), UNCHANGED store, Counted,
             pc \in {"done", "ackunknown"} \/ (pc = "acked" /\ Acknowledged(r))
      PROVE  Kept
  <2>1. request'[r].state # "absent" /\ (Acknowledged(r) => Acknowledged(r)')
    BY <1>1, <1>3, Zenon DEF store, Acknowledged
  <2>2. PICK y : op' = [op EXCEPT ![w] = y] /\ OpOK(w, y)'
    BY <1>2, <1>3, <2>1, Zenon
  <2> QED
    BY <1>1, <1>3, <2>2, OpStepKept, Zenon
<1>4. ASSUME NEW pc \in {"acked", "ackunknown"}, NEW result, Begin(pc, result), AckTxn(t), Counted,
             task[t].lease = r, task[t].state = "leased"
      PROVE  Kept
  <2>1. StoreRows' /\ StoreStep(w, {}) /\ Ledger!Next
    BY <1>1, <1>4, AckStore, Zenon
  <2>2. Acknowledged(r)' /\ request'[r].state # "absent"
    BY <1>1, <1>4, AckTxnAcknowledges, Zenon DEF Acknowledged
  <2>3. PICK y : op' = [op EXCEPT ![w] = y] /\ OpOK(w, y)'
    BY <1>2, <1>4, <2>2, Zenon
  <2> QED
    BY <1>1, <1>4, <2>1, <2>3, OpTxnKept, ZenonT(30)
<1>5. task[t].lease = r /\ task[t].state = "awaiting_human" => Acknowledged(r)
  BY <1>1, LedgerFacts DEF Acknowledged, ActiveStates
<1>6. \/ \E result : Begin("done", result) /\ UNCHANGED store /\ Counted
      \/ /\ task[t].lease = r /\ task[t].state = "awaiting_human"
         /\ Begin("acked", "none") /\ UNCHANGED store /\ Counted
      \/ /\ task[t].lease = r /\ task[t].state = "leased" /\ Counted /\ AckTxn(t)
         /\ Begin("acked", "none") \/ Begin("ackunknown", "none")
      \/ Begin("ackunknown", "none") /\ UNCHANGED store /\ Counted
  <2> USE DEF Begin
  <2> QED
    BY Zenon DEF AckAssignment, Counted
<1> QED
  BY <1>3, <1>4, <1>5, <1>6, Zenon
-----------------------------------------------------------------------------
(* Connections, detachment, retention, crashes                             *)

(* A step of the memory alone.                                             *)
LEMMA MemoryStepKept ==
    ASSUME ServiceInv, UNCHANGED <<store, up, assigned, adm, op, bounds>>, MemoryInv'
    PROVE  Kept
<1>1. StoreInv /\ HandlersInv /\ MemoryInv /\ Counted
  BY Zenon DEF ServiceInv, Counted
<1>2. StoreRows' /\ StoreMoves(None) /\ Opens({}) /\ SessionsKept
  BY <1>1, StoreStays, Zenon DEF StoreStep
<1>3. HandlersInv' /\ (NoStrandedRequest => NoStrandedRequest')
  BY <1>1, <1>2, HandlersStay, OpStranded, Zenon
<1> QED
  BY <1>2, <1>3, Zenon DEF Kept, ServiceInv

(* A worker connects.                                                      *)
LEMMA OpenWorkerKept ==
    ASSUME ServiceInv, NEW w \in Workers, OpenWorker(w)
    PROVE  Kept
<1>1. /\ conn' = [conn EXCEPT ![w] = TRUE]
      /\ UNCHANGED <<store, up, assigned, pending, sent, acked, detached, adm, op, detaching, bounds>>
  BY Zenon DEF OpenWorker
<1>2. task' = task /\ request' = request /\ faults' = faults /\ crashes' = crashes
  BY <1>1, Zenon DEF store, bounds
<1>3. MemoryInv'
  BY <1>1, <1>2, Zenon DEF ServiceInv, MemoryInv, DeliverableUntilAcked
<1> QED
  BY <1>1, <1>3, MemoryStepKept, Zenon

(* A connection ends; what it sent may be sent again.                      *)
LEMMA CloseWorkerKept ==
    ASSUME ServiceInv, NEW w \in Workers, CloseWorker(w)
    PROVE  Kept
<1>1. /\ conn' = [conn EXCEPT ![w] = FALSE] /\ op[w].pc = "idle"
      /\ sent' = [sent EXCEPT ![w] = {}] /\ acked' = [acked EXCEPT ![w] = {}]
      /\ UNCHANGED <<store, up, assigned, pending, detached, adm, op, detaching, bounds>>
  BY Zenon DEF CloseWorker
<1>2. task' = task /\ request' = request /\ faults' = faults /\ crashes' = crashes
  BY <1>1, Zenon DEF store, bounds
<1>3. MemoryInv'
  BY <1>1, <1>2, Zenon DEF ServiceInv, MemoryInv, DeliverableUntilAcked
<1> QED
  BY <1>1, <1>3, MemoryStepKept, Zenon

(* An assignment is sent.                                                  *)
LEMMA DispatchKept ==
    ASSUME ServiceInv, NEW w \in Workers, NEW r \in Requests, Dispatch(w, r)
    PROVE  Kept
<1>1. /\ sent' = [sent EXCEPT ![w] = @ \cup {r}] /\ conn[w]
      /\ UNCHANGED <<store, up, assigned, pending, conn, acked, detached, adm, op, detaching, bounds>>
  BY Zenon DEF Dispatch
<1>2. task' = task /\ request' = request /\ faults' = faults /\ crashes' = crashes
  BY <1>1, Zenon DEF store, bounds
<1>3. MemoryInv'
  BY <1>1, <1>2, Zenon DEF ServiceInv, MemoryInv, DeliverableUntilAcked
<1> QED
  BY <1>1, <1>3, MemoryStepKept, Zenon

(* A caller leaves.                                                        *)
LEMMA DetachKept ==
    ASSUME ServiceInv, NEW r \in Requests, DetachCheck(r) \/ DetachMark(r)
    PROVE  Kept
<1>1. /\ UNCHANGED <<store, up, assigned, pending, conn, sent, acked, adm, op, bounds>>
      /\ detaching' \in {detaching \cup {r}, detaching \ {r}}
      /\ detached' \in {detached, [detached EXCEPT ![request[r].task] = r]}
  BY Zenon DEF DetachCheck, DetachMark, memory, links
<1>2. task' = task /\ request' = request /\ faults' = faults /\ crashes' = crashes
  BY <1>1, Zenon DEF store, bounds
<1>3. MemoryInv'
  BY <1>1, <1>2 DEF ServiceInv, MemoryInv, DeliverableUntilAcked
<1> QED
  BY <1>1, <1>3, MemoryStepKept, Zenon

(* A transaction of the service's own, with no call in progress.           *)
LEMMA StoreTxnKept ==
    ASSUME ServiceInv, StoreRows', StoreStep(None, {}), Ledger!Next, UNCHANGED <<up, memory, adm, op, detaching>>, Counted
    PROVE  Kept
<1>1. /\ StoreInv /\ HandlersInv /\ MemoryInv /\ StoreMoves(None) /\ Opens({}) /\ SessionsKept
      /\ \A w \in Workers : op'[w].pc # "idle" => conn[w]
  BY Zenon DEF ServiceInv, StoreStep, MemoryInv
<1>2. HandlersInv' /\ MemoryInv' /\ (NoStrandedRequest => NoStrandedRequest')
  BY <1>1, HandlersStay, MemoryStays, OpStranded, Zenon DEF memory
<1> QED
  BY <1>1, <1>2, Zenon DEF Kept, ServiceInv

(* Retention.                                                              *)
LEMMA PruneRequestKept ==
    ASSUME ServiceInv, NEW r \in Requests, PruneRequest(r)
    PROVE  Kept
<1>1. UNCHANGED <<up, memory, adm, op, detaching>> /\ Counted
  BY Zenon DEF PruneRequest, Counted
<1>2. StoreRows' /\ StoreStep(None, {}) /\ Ledger!Next
  BY PruneStore, Zenon DEF ServiceInv
<1> QED
  BY <1>1, <1>2, StoreTxnKept, Zenon

(* A request that cannot be rebuilt after a crash.                         *)
LEMMA RecoverQuarantineKept ==
    ASSUME ServiceInv, NEW r \in Requests, RecoverQuarantine(r)
    PROVE  Kept
<1>1. UNCHANGED <<up, memory, adm, op, detaching>> /\ Counted
  BY Zenon DEF RecoverQuarantine, Counted
<1>2. StoreRows' /\ StoreStep(None, {}) /\ Ledger!Next
  BY QuarantineStore, Zenon DEF ServiceInv, RecoverQuarantine
<1> QED
  BY <1>1, <1>2, StoreTxnKept
(* A call that is not in progress.                                         *)
LEMMA IdleFacts ==
    /\ \A c : OpOK(c, NoOp) /\ OpOK(c, NoOp)'
    /\ AttemptOK(NoAttempt) /\ AttemptOK(NoAttempt)'
    /\ NoOp.pc = "idle" /\ NoAttempt.pc = "idle"
<1>1. DOMAIN NoOp = OpFields /\ NoOp.pc = "idle" /\ NoOp.event = None
  BY Zenon DEF NoOp, OpFields
<1>2. DOMAIN NoAttempt = AttemptFields /\ NoAttempt.pc = "idle"
  BY Zenon DEF NoAttempt, AttemptFields
<1> QED
  BY <1>1, <1>2, Zenon DEF OpOK, AttemptOK, OpPcs, AdmitPcs, Applied, Refused

(* The process dies: memory, connections and calls are gone.               *)
LEMMA CrashKept ==
    ASSUME ServiceInv, Crash
    PROVE  Kept
<1>1. StoreInv /\ MemoryInv /\ UNCHANGED store /\ ~up'
  BY Zenon DEF ServiceInv, Crash
<1>2. StoreRows' /\ SessionsKept
  BY <1>1, StoreStays, Zenon DEF StoreStep
<1>3. HandlersInv'
  <2>1. adm' = [a \in Attempts |-> NoAttempt] /\ op' = [c \in Workers \cup {Expiry} |-> NoOp]
    BY Zenon DEF Crash
  <2>2. \A a \in Attempts : AttemptOK(adm[a])'
    <3> TAKE a \in Attempts
    <3>1. PICK x : x = NoAttempt /\ x = adm'[a]
      BY <2>1, Zenon
    <3>2. AttemptOK(x)'
      BY <3>1, IdleFacts, Zenon
    <3> QED
      BY <3>1, <3>2, ZenonT(30)
  <2>3. \A c \in Workers \cup {Expiry} : OpOK(c, op[c])'
    <3> TAKE c \in Workers \cup {Expiry}
    <3>1. PICK y : y = NoOp /\ y = op'[c]
      BY <2>1, Zenon
    <3>2. OpOK(c, y)'
      BY <3>1, IdleFacts, Zenon
    <3> QED
      BY <3>1, <3>2, ZenonT(30)
  <2> QED
    BY <2>1, <2>2, <2>3, ZenonT(30) DEF HandlersInv
<1>4. MemoryInv'
  <2>1. /\ assigned' = {} /\ pending' = {} /\ detaching' = {} /\ conn' = [w \in Workers |-> FALSE]
        /\ sent' = [w \in Workers |-> {}] /\ acked' = [w \in Workers |-> {}]
        /\ detached' = [t \in Tasks |-> None] /\ faults' = faults
        /\ \A w \in Workers : op'[w].pc = "idle"
    BY IdleFacts, ZenonT(30) DEF Crash
  <2>2. crashes' \in 0..MaxCrashes
    BY <1>1, BoundsAssumption DEF Crash, MemoryInv
  <2> QED
    BY <1>1, <2>1, <2>2, ZenonT(30) DEF MemoryInv, DeliverableUntilAcked
<1> QED
  BY <1>1, <1>2, <1>3, <1>4, ZenonT(30) DEF Kept, ServiceInv, NoStrandedRequest

(* The process is back: every unanswered request is in memory.             *)
LEMMA RecoverKept ==
    ASSUME ServiceInv, Recover
    PROVE  Kept
<1>1. StoreInv /\ HandlersInv /\ MemoryInv /\ UNCHANGED store
  BY Zenon DEF ServiceInv, Recover
<1>2. /\ adm' = adm /\ op' = op /\ detaching' = detaching /\ conn' = conn /\ sent' = sent /\ acked' = acked
      /\ detached' = detached /\ faults' = faults /\ crashes' = crashes /\ task' = task /\ request' = request
      /\ assigned' = {r \in Requests : request[r].state = "open"}
      /\ pending' = {r \in assigned' : task[request[r].task].state = "leased"}
  BY Zenon DEF Recover, links, bounds, store
<1>3. StoreRows' /\ StoreMoves(None) /\ SessionsKept
  BY <1>1, StoreStays, Zenon DEF StoreStep
<1>4. HandlersInv'
  BY <1>1, <1>2, <1>3, HandlersStay, ZenonT(30)
<1>5. DeliverableUntilAcked'
  <2>1. \A t \in Tasks : task[t].state = "leased" =>
          task[t].lease \in Requests /\ request[task[t].lease].task = t
    BY <1>1, LedgerFacts, Zenon DEF ActiveStates
  <2> QED
    BY <1>2, <2>1, Zenon DEF DeliverableUntilAcked
<1>6. MemoryInv'
  BY <1>1, <1>2, <1>5, ZenonT(30) DEF MemoryInv
<1>7. NoStrandedRequest'
  BY <1>2, Zenon DEF NoStrandedRequest
<1> QED
  BY <1>1, <1>3, <1>4, <1>6, <1>7, ZenonT(30) DEF Kept, ServiceInv

(* Nothing happens.                                                        *)
LEMMA StutterKept ==
    ASSUME ServiceInv, UNCHANGED vars
    PROVE  Kept
<1>1. UNCHANGED <<store, up, assigned, adm, op, bounds>> /\ UNCHANGED <<up, memory, detaching>> /\ Counted
  BY Zenon DEF vars, memory, Counted
<1>2. StoreInv /\ MemoryInv /\ StoreMoves(None) /\ \A w \in Workers : op'[w].pc # "idle" => conn[w]
  BY <1>1, StoreStays, Zenon DEF ServiceInv, StoreStep, MemoryInv
<1>3. MemoryInv'
  BY <1>1, <1>2, MemoryStays, Zenon
<1> QED
  BY <1>1, <1>3, MemoryStepKept, Zenon
-----------------------------------------------------------------------------
(* The first state, and every step                                         *)

(* The invariant holds of a new service.                                   *)
LEMMA InitRows == Init /\ Ledger!IInv => StoreRows /\ HandlersInv /\ MemoryInv /\ OneOpenTaskPerSession /\ NoStrandedRequest
<1> SUFFICES ASSUME Init, Ledger!IInv PROVE StoreRows /\ HandlersInv /\ MemoryInv /\ OneOpenTaskPerSession /\ NoStrandedRequest
  BY Zenon
<1>2. (\A t \in Tasks : task[t] = NoTask) /\ (\A r \in Requests : request[r] = NoRequest)
  BY Zenon DEF Init
<1>3. NoTask \in TaskRows /\ NoTask.state = "absent" /\ NoTask.rev = 0
  BY Zenon DEF NoTask, TaskRows
<1>4. NoRequest \in RequestRows /\ NoRequest.state = "absent" /\ NoRequest.rev = 0
  BY DEF NoRequest, RequestRows, Modes, Statuses
<1>5. RowTypes
  BY <1>3, <1>4, ZenonT(30) DEF Init, RowTypes
<1>6. Placed /\ ChatUntooled
  BY <1>2, <1>3, <1>4 DEF Init, Placed, ChatUntooled
<1>7. HandlersInv
  BY IdleFacts, Zenon DEF Init, HandlersInv
<1>8. MemoryInv
  <2>1. \A w \in Workers : op[w].pc = "idle" /\ sent[w] = {} /\ acked[w] = {}
    BY IdleFacts, Zenon DEF Init
  <2> QED
    BY <2>1, BoundsAssumption DEF Init, MemoryInv, DeliverableUntilAcked
<1>9. OneOpenTaskPerSession
  BY <1>2, <1>3, Zenon DEF OneOpenTaskPerSession, OpenTasks, ActiveStates, IdleStates
<1>10. NoStrandedRequest
  BY <1>2, <1>4, Zenon DEF NoStrandedRequest
<1> QED
  BY <1>5, <1>6, <1>7, <1>8, <1>9, <1>10, Zenon DEF StoreRows

(* A step of an admission.                                                 *)
LEMMA AdmitStepKept ==
    ASSUME ServiceInv, NEW a \in Attempts, AdmitStep(a)
    PROVE  Kept
BY AdmitReturnKept, ReplayReadKept, RecoverScanKept, ReplayRecheckKept, ReadResponseKept, ReconcileKept,
   AdmitFailsKept, LocateTaskKept, PlanAdmissionKept, ClearDetachedKept, RecoverAddKept, AdmitInstallKept,
   AdmitCommitKept, AdmitQuarantineKept, SMTT(30) DEF AdmitStep

(* A step of a worker's call.                                              *)
LEMMA OpStepsKept ==
    ASSUME ServiceInv, NEW c \in Workers \cup {Expiry}, OpStep(c)
    PROVE  Kept
BY CommitLoadKept, CommitTxnKept, CommitReconcileKept, CommitSettleKept, OpFailsKept, AckReconcileKept,
   AckInstallKept, SMTT(30) DEF OpStep

(* Every step of the service keeps everything.                             *)
LEMMA StepKept ==
    ASSUME ServiceInv, [Next]_vars
    PROVE  Kept
<1>1. CASE UNCHANGED vars
  BY <1>1, StutterKept, Zenon
<1>2. ASSUME NEW a \in Attempts, AdmitStep(a) \/ \E input \in Inputs : AdmitBegin(a, input) PROVE Kept
  BY <1>2, AdmitStepKept, AdmitBeginKept, Zenon
<1>3. ASSUME NEW c \in Workers \cup {Expiry}, OpStep(c) \/ OpReturn(c) PROVE Kept
  BY <1>3, OpStepsKept, OpReturnKept, Zenon
<1>4. ASSUME NEW w \in Workers, OpenWorker(w) \/ CloseWorker(w) PROVE Kept
  BY <1>4, OpenWorkerKept, CloseWorkerKept, Zenon
<1>5. ASSUME NEW w \in Workers, NEW r \in Requests,
             Dispatch(w, r) \/ AckAssignment(w, r) \/ \E event \in WorkerEvents : CommitEvent(w, r, event)
      PROVE  Kept
  BY <1>5, DispatchKept, AckAssignmentKept, CommitEventKept, Zenon
<1>6. ASSUME NEW r \in Requests,
             ExpireRequest(r) \/ DetachCheck(r) \/ DetachMark(r) \/ PruneRequest(r) \/ RecoverQuarantine(r)
      PROVE  Kept
  BY <1>6, ExpireRequestKept, DetachKept, PruneRequestKept, RecoverQuarantineKept, Zenon
<1>7. CASE Crash \/ Recover
  BY <1>7, CrashKept, RecoverKept, Zenon
<1> QED
  BY <1>1, <1>2, <1>3, <1>4, <1>5, <1>6, <1>7, SMTT(30) DEF Next

(* A failed call returns and its connection is closed, in one step.        *)
LEMMA FailedReplyKept ==
    ASSUME ServiceInv, NEW w \in Workers, FailedReply(w)
    PROVE  Kept
<1>1. /\ op' = [op EXCEPT ![w] = NoOp] /\ conn' = [conn EXCEPT ![w] = FALSE]
      /\ sent' = [sent EXCEPT ![w] = {}] /\ acked' = [acked EXCEPT ![w] = {}]
      /\ UNCHANGED <<store, up, assigned, pending, detached, adm, detaching, bounds>>
  BY Zenon DEF FailedReply
<1>2. task' = task /\ request' = request /\ faults' = faults /\ crashes' = crashes
  BY <1>1, Zenon DEF store, bounds
<1>3. StoreInv /\ HandlersInv /\ MemoryInv /\ Counted
  BY <1>1, Zenon DEF ServiceInv, Counted
<1>4. StoreRows' /\ StoreMoves(w) /\ Opens({}) /\ SessionsKept
  BY <1>1, <1>3, StoreStays, Zenon DEF StoreStep
<1>5. PICK y : y = NoOp
  BY Zenon
<1>6. DOMAIN y = OpFields /\ y.pc = "idle" /\ y.event = None
  BY <1>5, Zenon DEF NoOp, OpFields
<1>7. OpOK(w, y)'
  BY <1>6, Zenon DEF OpOK, OpPcs, Applied, Refused
<1>8. w \in Workers \cup {Expiry} /\ op' = [op EXCEPT ![w] = y]
  BY <1>1, <1>5, Zenon
<1>9. HandlersInv'
  BY <1>1, <1>3, <1>4, <1>7, <1>8, OpMoves, Zenon
<1>10. MemoryInv'
  <2>1. \A v \in Workers : sent'[v] \cup acked'[v] # {} \/ op'[v].pc # "idle" => conn'[v]
    <3> TAKE v \in Workers
    <3>1. CASE v = w
      <4>1. sent'[v] = {} /\ acked'[v] = {} /\ op'[v].pc = "idle"
        BY <1>1, <1>3, <1>6, <1>8, <3>1, Zenon DEF MemoryInv, HandlersInv
      <4> QED
        BY <4>1, Zenon
    <3>2. CASE v # w
      <4>1. sent'[v] = sent[v] /\ acked'[v] = acked[v] /\ op'[v] = op[v] /\ conn'[v] = conn[v]
        BY <1>1, <1>3, <3>2, Zenon DEF MemoryInv, HandlersInv
      <4> QED
        BY <1>3, <4>1, Zenon DEF MemoryInv
    <3> QED
      BY <3>1, <3>2, Zenon
  <2>2. DOMAIN conn' = Workers /\ DOMAIN sent' = Workers /\ DOMAIN acked' = Workers
    BY <1>1, <1>3, Zenon DEF MemoryInv
  <2>3. DeliverableUntilAcked'
    BY <1>1, <1>3, <1>4, DeliverableStays, Zenon
  <2> QED
    BY <1>1, <1>2, <1>3, <2>1, <2>2, <2>3, Zenon DEF MemoryInv
<1>11. NoStrandedRequest => NoStrandedRequest'
  BY <1>1, <1>3, <1>4, OpStranded, Zenon
<1> QED
  BY <1>1, <1>4, <1>9, <1>10, <1>11, Zenon DEF Kept

(* What the handlers hold and tell follows from the invariant.             *)
LEMMA InvSound == ServiceInv => HandlersAreSound
<1> SUFFICES ASSUME ServiceInv PROVE HandlersAreSound
  BY Zenon
<1>1. RowTypes /\ HandlersInv /\ MemoryInv
  BY Zenon DEF ServiceInv, StoreInv, StoreRows
<1>2. TypeOK
  <2>1. \A t \in Tasks : task[t].state \in TaskStates \cup {"absent"} /\ task[t].rev \in Nat
    BY <1>1, Zenon DEF RowTypes, TaskRows
  <2>2. \A r \in Requests : /\ request[r].state \in {"absent", "open", "closed"} /\ request[r].rev \in Nat
                            /\ request[r].decision \in Statuses
    BY <1>1, Zenon DEF RowTypes, RequestRows
  <2> QED
    BY <1>1, <2>1, <2>2 DEF MemoryInv, TypeOK
<1>3. SettlementTruth
  <2>1. \A w \in Workers : OpOK(w, op[w]) /\ w # Expiry
    BY <1>1, ExpiryAssumption, ZenonT(30) DEF HandlersInv
  <2> QED
    BY <2>1, ZenonT(30) DEF SettlementTruth, OpOK, Applied, Refused
<1>4. SnapshotsByRevision
  <2>1. ASSUME NEW c \in DOMAIN op, op[c].pc = "txn"
        PROVE  EventPlanOK(op[c])
    BY <1>1, <2>1, SMTT(30) DEF HandlersInv, OpOK
  <2>2. ASSUME NEW a \in Attempts, adm[a].pc = "commit"
        PROVE  PlanOK(adm[a])
    BY <1>1, <2>2 DEF HandlersInv, AttemptOK
  <2> QED
    BY <2>1, <2>2, SMTT(30) DEF SnapshotsByRevision, EventPlanOK, PlanOK, Snap
<1> QED
  BY <1>1, <1>2, <1>3, <1>4, SMTT(30) DEF HandlersAreSound, MemoryInv

(* An active task and the open request of its lease name each other.       *)
LEMMA InvLeases == ServiceInv => Leases /\ DOMAIN receipt = Requests
<1> SUFFICES ASSUME ServiceInv PROVE Leases /\ DOMAIN receipt = Requests
  BY Zenon
<1>1. StoreInv /\ Placed
  BY Zenon DEF ServiceInv, StoreInv, StoreRows
<1>2. \A t \in Tasks : task[t].state \in ActiveStates => task[t].owner \in Workers
  <2>1. "absent" \notin ActiveStates
    BY Zenon DEF ActiveStates
  <2> QED
    BY <1>1, <2>1, Zenon DEF Placed
<1>3. DOMAIN receipt = Requests
  BY <1>1, LedgerFacts, Zenon
<1> QED
  BY <1>1, <1>2, <1>3, LedgerFacts, Zenon DEF Leases
=============================================================================
