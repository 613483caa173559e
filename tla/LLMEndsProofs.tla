---------------------------- MODULE LLMEndsProofs ---------------------------
(***************************************************************************)
(* What LLMService is to those at its ends: to LLMCaller, for any callers, *)
(* requests and pages, whose handlers send exactly the durable response; to *)
(* LLMWorkerLink, whose connections its steps leave alone; and to LLMLedger, *)
(* whose proved invariant its records have.                                *)
(***************************************************************************)
EXTENDS LLMServiceInv, LLMCaller, LLMWorkerLink, TLAPS

-----------------------------------------------------------------------------
(* What the service does to a response                                     *)

(* A response has a length.                                                *)
LEMMA LogLength ==
    ASSUME NEW rec \in RequestRows
    PROVE  rec.log \in Seq(Ledger!Events) /\ Len(rec.log) \in Nat
BY DEF RequestRows

(* Growth in two steps.                                                    *)
LEMMA GrownTwice ==
    ASSUME NEW x, NEW y, NEW z, Grown(x, y), Grown(y, z),
           Len(x.log) \in Nat, Len(y.log) \in Nat, Len(z.log) \in Nat
    PROVE  Grown(x, z)
<1>1. /\ z.state # "absent" /\ z.mode = x.mode /\ (x.pruned => z.pruned)
      /\ ~z.pruned => ~y.pruned
  BY Zenon DEF Grown
<1>2. ASSUME ~z.pruned
      PROVE  /\ Len(x.log) <= Len(z.log) /\ \A i \in 1..Len(x.log) : z.log[i] = x.log[i]
             /\ x.state = "closed" => z.state = "closed" /\ z.log = x.log /\ z.decision = x.decision
  <2>1. /\ Len(x.log) <= Len(y.log) /\ \A i \in 1..Len(x.log) : y.log[i] = x.log[i]
        /\ Len(y.log) <= Len(z.log) /\ \A i \in 1..Len(y.log) : z.log[i] = y.log[i]
        /\ x.state = "closed" => z.state = "closed" /\ z.log = x.log /\ z.decision = x.decision
    BY <1>1, <1>2, Zenon DEF Grown
  <2> QED
    BY <2>1
<1> QED
  BY <1>1, <1>2, Zenon DEF Grown
-----------------------------------------------------------------------------
(* LLMCaller: the answers of Admit                                         *)

(* What an Admit call that has answered gives its handler: the request as  *)
(* it was, of which the durable one is a continuation.                     *)
Answer(x) ==
    /\ x.pc \in {"clear", "done"} /\ (x.pc = "clear" => x.pass = "settle")
    /\ x.req \in RequestRows /\ x.req.state # "absent" /\ ~x.req.pruned
    /\ x.input.key \in Requests /\ Grown(x.req, request[x.input.key])

(* An Admit call reads the response of a request that is there.            *)
ReplyOK(x) ==
    /\ x.pc \in {"read", "clear"} => x.input.key \in Requests /\ request[x.input.key].state # "absent"
    /\ x.reply = "response" => Answer(x)

Replies == \A a \in Attempts : ReplyOK(adm[a])

(* What every step of the service keeps of the requests.                   *)
LEMMA RowsStay ==
    ASSUME ServiceInv, Grows, NEW r \in Requests
    PROVE  /\ request[r] \in RequestRows /\ request'[r] \in RequestRows
           /\ request[r].state # "absent" => request'[r].state # "absent" /\ Grown(request[r], request'[r])
<1>1. request[r] \in RequestRows /\ request'[r] \in RequestRows
  BY Zenon DEF ServiceInv, StoreInv, StoreRows, Grows, RowTypes
<1> QED
  BY <1>1, Zenon DEF Grows, Grown

(* An answer stays good.                                                   *)
LEMMA ReplyStays ==
    ASSUME ServiceInv, Grows, NEW x, ReplyOK(x)
    PROVE  ReplyOK(x)'
<1>1. x.pc \in {"read", "clear"} => x.input.key \in Requests /\ request'[x.input.key].state # "absent"
  BY RowsStay, Zenon DEF ReplyOK
<1>2. ASSUME Answer(x) PROVE Answer(x)'
  <2>1. PICK r \in Requests : r = x.input.key
    BY <1>2, Zenon DEF Answer
  <2>2. x.req \in RequestRows /\ Grown(x.req, request[r])
    BY <1>2, <2>1, Zenon DEF Answer
  <2>3. request[r].state # "absent"
    BY <2>2, Zenon DEF Grown
  <2>4. Grown(request[r], request'[r]) /\ Len(request[r].log) \in Nat /\ Len(request'[r].log) \in Nat
    BY <2>3, RowsStay, LogLength, Zenon
  <2>5. Grown(x.req, request'[r])
    BY <2>2, <2>4, LogLength, GrownTwice, ExpiryAssumption
  <2> QED
    BY <1>2, <2>1, <2>5, Zenon DEF Answer
<1> QED
  BY <1>1, <1>2, Zenon DEF ReplyOK

(* A step of one call that gives no answer yet.                            *)
LEMMA SilentReply ==
    ASSUME ServiceInv, Replies, Grows, NEW a \in Attempts, NEW y, adm' = [adm EXCEPT ![a] = y],
           ReplyOK(y)'
    PROVE  Replies'
<1>1. DOMAIN adm = Attempts
  BY Zenon DEF ServiceInv, HandlersInv
<1>2. ReplyOK(adm[a])'
  BY <1>1, Zenon
<1>3. ASSUME NEW b \in Attempts, b # a PROVE ReplyOK(adm[b])'
  <2>1. PICK x : x = adm[b]
    BY Zenon
  <2>2. adm'[b] = x
    BY <1>1, <1>3, <2>1, Zenon
  <2>3. ReplyOK(x)
    BY <2>1, Zenon DEF Replies
  <2>4. ReplyOK(x)'
    BY <2>3, ReplyStays, Zenon
  <2> QED
    BY <2>2, <2>4, Zenon
<1> QED
  BY <1>2, <1>3, Zenon DEF Replies

(* A step that leaves the calls of Admit alone.                            *)
LEMMA RepliesStay ==
    ASSUME ServiceInv, Replies, Grows, adm' = adm
    PROVE  Replies'
<1>1. ASSUME NEW b \in Attempts PROVE ReplyOK(adm[b])'
  <2>1. PICK x : x = adm[b]
    BY Zenon
  <2>2. ReplyOK(x)'
    BY <2>1, ReplyStays, Zenon DEF Replies
  <2> QED
    BY <2>1, <2>2, Zenon
<1> QED
  BY <1>1, Zenon DEF Replies

(* The call goes on.                                                       *)
LEMMA GotoReply ==
    ASSUME ServiceInv, Replies, Grows, NEW a \in Attempts, NEW pc, adm[a].reply # "response",
           pc \in {"read", "clear"} => adm[a].input.key \in Requests /\ request'[adm[a].input.key].state # "absent",
           Goto(a, pc)
    PROVE  Replies'
<1>1. PICK y : y = [adm[a] EXCEPT !.pc = pc]
  BY Zenon
<1>2. DOMAIN adm[a] = AttemptFields
  BY Zenon DEF ServiceInv, HandlersInv, AttemptOK
<1>3. y.pc = pc /\ y.input = adm[a].input /\ y.reply = adm[a].reply
  BY <1>1, <1>2, Zenon DEF AttemptFields
<1>4. adm' = [adm EXCEPT ![a] = y]
  BY <1>1, Zenon DEF Goto
<1>5. ReplyOK(y)'
  BY <1>3, Zenon DEF ReplyOK
<1> QED
  BY <1>4, <1>5, SilentReply, Zenon

(* The call ends with an error.                                            *)
LEMMA ErrorReply ==
    ASSUME ServiceInv, Replies, Grows, NEW a \in Attempts, NEW reply, reply # "response", Reply(a, reply)
    PROVE  Replies'
<1>1. PICK y : y = [NoAttempt EXCEPT !.pc = "done", !.input = adm[a].input, !.reply = reply]
  BY Zenon
<1>2. y.pc = "done" /\ y.reply = reply
  BY <1>1, Zenon DEF NoAttempt
<1>3. adm' = [adm EXCEPT ![a] = y] /\ ReplyOK(y)'
  BY <1>1, <1>2, Zenon DEF Reply, ReplyOK
<1> QED
  BY <1>3, SilentReply, Zenon

(* The call makes another pass.                                            *)
LEMMA RestartReply ==
    ASSUME ServiceInv, Replies, Grows, NEW a \in Attempts, NEW pc, NEW pass, NEW reply, reply # "response",
           pc \in {"read", "clear"} => adm[a].input.key \in Requests /\ request'[adm[a].input.key].state # "absent",
           Restart(a, pc, pass, reply)
    PROVE  Replies'
<1>1. PICK y : y = [NoAttempt EXCEPT !.pc = pc, !.input = adm[a].input, !.pass = pass, !.reply = reply]
  BY Zenon
<1>2. y.pc = pc /\ y.reply = reply /\ y.input = adm[a].input
  BY <1>1, Zenon DEF NoAttempt
<1>3. adm' = [adm EXCEPT ![a] = y] /\ ReplyOK(y)'
  BY <1>1, <1>2, Zenon DEF Restart, ReplyOK
<1> QED
  BY <1>3, SilentReply, Zenon

(* What is known of a call under way.                                      *)
LEMMA CallFacts ==
    ASSUME ServiceInv, Replies, Grows, NEW a \in Attempts, adm[a].pc # "idle"
    PROVE  /\ adm[a].input.key \in Requests
           /\ adm[a].pc \notin {"clear", "done"} => adm[a].reply # "response"
           /\ adm[a].pc \in {"read", "clear", "add", "install"} => request[adm[a].input.key].state # "absent"
           /\ request[adm[a].input.key].state # "absent" => request'[adm[a].input.key].state # "absent"
<1>1. AttemptOK(adm[a]) /\ ReplyOK(adm[a])
  BY Zenon DEF ServiceInv, HandlersInv, Replies
<1>2. adm[a].input.key \in Requests
  BY <1>1, InputsAssumption, Zenon DEF AttemptOK, InputRecords
<1> QED
  BY <1>1, <1>2, RowsStay, Zenon DEF AttemptOK, RebuildOK, ReplyOK, Answer

(* A call that holds what it has read.                                     *)
LEMMA SnapshotReply ==
    ASSUME ServiceInv, Replies, Grows, NEW a \in Attempts, adm[a].reply # "response", NEW y,
           adm' = [adm EXCEPT ![a] = y], y.reply = adm[a].reply \/ y.reply = "none", y.pc \notin {"read", "clear"}
    PROVE  Replies'
<1>1. ReplyOK(y)'
  BY Zenon DEF ReplyOK
<1> QED
  BY <1>1, SilentReply, Zenon

(* A snapshot of a request and its task.                                   *)
LEMMA ScanReply ==
    ASSUME ServiceInv, Replies, Grows, NEW a \in Attempts, adm[a].reply # "response", NEW found, NEW row,
           adm' = [adm EXCEPT ![a].pc = "scan", ![a].req = found, ![a].task = row]
    PROVE  Replies'
<1>1. DOMAIN adm[a] = AttemptFields /\ DOMAIN adm = Attempts
  BY Zenon DEF ServiceInv, HandlersInv, AttemptOK
<1>2. PICK y : y = [adm[a] EXCEPT !.pc = "scan", !.req = found, !.task = row]
  BY Zenon
<1>3. y.pc = "scan" /\ y.reply = adm[a].reply
  BY <1>1, <1>2, Zenon DEF AttemptFields
<1>4. adm' = [adm EXCEPT ![a] = y]
  BY <1>1, <1>2, Zenon
<1> QED
  BY <1>3, <1>4, SnapshotReply, Zenon

(* The first lookup of a call.                                             *)
LEMMA ReplayReadReply ==
    ASSUME ServiceInv, Replies, Grows, NEW a \in Attempts, ReplayRead(a)
    PROVE  Replies'
<1>1. /\ adm[a].pc = "replay" /\ adm[a].reply # "response" /\ adm[a].input.key \in Requests
      /\ request[adm[a].input.key].state # "absent" => request'[adm[a].input.key].state # "absent"
  BY CallFacts, Zenon DEF ReplayRead, At
<1>2. CASE \E reply : reply # "response" /\ Reply(a, reply)
  BY <1>2, ErrorReply, Zenon
<1>3. CASE Goto(a, "locate") \/ (request[adm[a].input.key].state = "closed" /\ Goto(a, "read"))
  BY <1>1, <1>3, GotoReply, Zenon
<1>4. CASE \E found, row : adm' = [adm EXCEPT ![a].pc = "scan", ![a].req = found, ![a].task = row]
  BY <1>1, <1>4, ScanReply, Zenon
<1>5. CASE Reply(a, IF adm[a].pass = "settle" THEN "error" ELSE adm[a].reply)
  BY <1>1, <1>2, <1>5, Zenon
<1>6. CASE Reply(a, "idempotency_conflict") \/ Reply(a, "replay_expired")
  BY <1>2, <1>6, Zenon
<1> QED
  BY <1>3, <1>4, <1>5, <1>6, Zenon DEF ReplayRead

(* The second lookups.                                                     *)
LEMMA RecheckReply ==
    ASSUME ServiceInv, Replies, Grows, NEW a \in Attempts, RecoverScan(a) \/ ReplayRecheck(a) \/ Reconcile(a)
    PROVE  Replies'
<1>1. /\ adm[a].reply # "response" /\ adm[a].input.key \in Requests
      /\ request[adm[a].input.key].state # "absent" => request'[adm[a].input.key].state # "absent"
  BY CallFacts, Zenon DEF RecoverScan, ReplayRecheck, Reconcile, At
<1>2. CASE RecoverScan(a)
  BY <1>1, <1>2, GotoReply, Zenon DEF RecoverScan
<1>3. CASE ReplayRecheck(a)
  BY <1>1, <1>3, GotoReply, ErrorReply, Zenon DEF ReplayRecheck
<1>4. CASE Reconcile(a)
  <2>1. CASE Reply(a, "error")
    BY <2>1, ErrorReply, Zenon
  <2>2. CASE \E found, row : adm' = [adm EXCEPT ![a].pc = "scan", ![a].req = found, ![a].task = row]
    BY <1>1, <2>2, ScanReply, Zenon
  <2>3. CASE Restart(a, "replay", "settle", "none")
    BY <2>3, RestartReply, Zenon
  <2> QED
    BY <1>4, <2>1, <2>2, <2>3, Zenon DEF Reconcile
<1> QED
  BY <1>2, <1>3, <1>4, Zenon

(* What a call puts into memory is there to be read.                       *)
LEMMA InstallReply ==
    ASSUME ServiceInv, Replies, Grows, NEW a \in Attempts, RecoverAdd(a) \/ AdmitInstall(a)
    PROVE  Replies'
<1>1. /\ adm[a].reply # "response" /\ adm[a].input.key \in Requests
      /\ request'[adm[a].input.key].state # "absent"
  BY CallFacts, Zenon DEF RecoverAdd, AdmitInstall, At
<1>2. CASE RecoverAdd(a)
  BY <1>1, <1>2, RestartReply, Zenon DEF RecoverAdd
<1>3. CASE AdmitInstall(a)
  BY <1>1, <1>3, GotoReply, Zenon DEF AdmitInstall
<1> QED
  BY <1>2, <1>3, Zenon

(* A call that plans, commits or gives up.                                 *)
LEMMA PlanReply ==
    ASSUME ServiceInv, Replies, Grows, NEW a \in Attempts,
           LocateTask(a) \/ PlanAdmission(a) \/ AdmitCommit(a) \/ AdmitQuarantine(a) \/ AdmitFails(a)
    PROVE  Replies'
<1>1. adm[a].reply # "response" /\ DOMAIN adm[a] = AttemptFields /\ DOMAIN adm = Attempts
  <2>1. adm[a].pc \notin {"idle", "clear", "done"}
    BY Zenon DEF LocateTask, PlanAdmission, AdmitCommit, AdmitQuarantine, AdmitFails, At
  <2> QED
    BY <2>1, CallFacts, Zenon DEF ServiceInv, HandlersInv, AttemptOK
<1>2. CASE LocateTask(a)
  <2>1. ASSUME NEW t, adm' = [adm EXCEPT ![a].pc = "plan", ![a].tid = t] PROVE Replies'
    <3>1. PICK y : y = [adm[a] EXCEPT !.pc = "plan", !.tid = t]
      BY Zenon
    <3>2. y.pc = "plan" /\ y.reply = adm[a].reply
      BY <1>1, <3>1, Zenon DEF AttemptFields
    <3>3. adm' = [adm EXCEPT ![a] = y]
      BY <1>1, <2>1, <3>1, Zenon
    <3> QED
      BY <1>1, <3>2, <3>3, SnapshotReply, Zenon
  <2> QED
    BY <1>2, <2>1, ErrorReply, Zenon DEF LocateTask
<1>3. CASE PlanAdmission(a)
  <2>1. ASSUME NEW kind, NEW w, NEW v, NEW calls, adm' = [adm EXCEPT ![a] = Planned(a, kind, w, v, calls)]
        PROVE  Replies'
    <3>1. PICK y : y = Planned(a, kind, w, v, calls)
      BY Zenon
    <3>2. y.pc = "commit" /\ y.reply = adm[a].reply
      BY <1>1, <3>1, Zenon DEF AttemptFields, Planned
    <3> QED
      BY <1>1, <2>1, <3>1, <3>2, SnapshotReply, Zenon
  <2>2. CASE Reply(a, "unavailable") \/ Reply(a, "conflict")
    BY <2>2, ErrorReply, Zenon
  <2>3. CASE ~(Reply(a, "unavailable") \/ Reply(a, "conflict"))
    <3>1. PICK kind, w, v, calls :
            /\ adm' = [adm EXCEPT ![a] = Planned(a, kind, w, v, calls)]
            /\ \/ kind = "new" /\ w \in Routes /\ v = None /\ calls = {}
               \/ kind = "continue" /\ w = task[adm[a].tid].owner /\ v = None /\ calls = PendingCalls(adm[a].tid)
               \/ kind = "preempt" /\ w = task[adm[a].tid].owner /\ v = detached[adm[a].tid] /\ calls = {}
      BY <1>3, <2>3, Zenon DEF PlanAdmission, PendingCalls
    <3> QED
      BY <2>1, <3>1, Zenon
  <2> QED
    BY <2>2, <2>3, Zenon
<1>4. CASE AdmitCommit(a)
  <2>1. ASSUME adm' = [adm EXCEPT ![a] = [NoAttempt EXCEPT
                         !.pc = "install", !.input = adm[a].input, !.plan = adm[a].plan]]
        PROVE  Replies'
    <3>1. PICK y : y = [NoAttempt EXCEPT !.pc = "install", !.input = adm[a].input, !.plan = adm[a].plan]
      BY Zenon
    <3>2. y.pc = "install" /\ y.reply = "none"
      BY <3>1, Zenon DEF NoAttempt
    <3> QED
      BY <1>1, <2>1, <3>1, <3>2, SnapshotReply, Zenon
  <2> QED
    BY <1>4, <2>1, RestartReply, Zenon DEF AdmitCommit
<1>5. CASE AdmitQuarantine(a)
  BY <1>5, ErrorReply, RestartReply, Zenon DEF AdmitQuarantine
<1>6. CASE AdmitFails(a)
  BY <1>1, <1>6, ErrorReply, GotoReply, Zenon DEF AdmitFails
<1> QED
  BY <1>2, <1>3, <1>4, <1>5, <1>6, Zenon

(* A call reads the response it answers with.                              *)
LEMMA ReadResponseReply ==
    ASSUME ServiceInv, Replies, Grows, NEW a \in Attempts, ReadResponse(a)
    PROVE  Replies'
<1>1. PICK r \in Requests : r = adm[a].input.key /\ request[r].state # "absent" /\ request'[r].state # "absent"
  BY CallFacts, Zenon DEF ReadResponse, At
<1>2. CASE Reply(a, "replay_expired")
  BY <1>2, ErrorReply, Zenon
<1>3. ASSUME ~request[r].pruned,
             adm' = [adm EXCEPT ![a] = [NoAttempt EXCEPT
                   !.pc = IF adm[a].pass = "settle" THEN "clear" ELSE "done", !.pass = adm[a].pass,
                   !.input = adm[a].input, !.req = request[r], !.reply = "response"]]
      PROVE  Replies'
  <2>1. PICK y : y = [NoAttempt EXCEPT
                   !.pc = IF adm[a].pass = "settle" THEN "clear" ELSE "done", !.pass = adm[a].pass,
                   !.input = adm[a].input, !.req = request[r], !.reply = "response"]
    BY Zenon
  <2>2. /\ y.pc \in {"clear", "done"} /\ (y.pc = "clear" => y.pass = "settle") /\ y.input.key = r
        /\ y.req = request[r] /\ y.reply = "response"
    BY <1>1, <2>1, Zenon DEF NoAttempt
  <2>3. Answer(y)'
    BY <1>1, <1>3, <2>2, RowsStay, Zenon DEF Answer
  <2>4. ReplyOK(y)'
    BY <1>1, <2>2, <2>3, Zenon DEF ReplyOK
  <2> QED
    BY <1>3, <2>1, <2>4, SilentReply, Zenon
<1> QED
  BY <1>1, <1>2, <1>3, Zenon DEF ReadResponse

(* The mark of a caller that left is cleared.                              *)
LEMMA ClearReply ==
    ASSUME ServiceInv, Replies, Grows, NEW a \in Attempts, ClearDetached(a)
    PROVE  Replies'
<1>1. /\ adm[a].pc = "clear" /\ adm[a].input.key \in Requests /\ DOMAIN adm[a] = AttemptFields
      /\ ReplyOK(adm[a]) /\ request[adm[a].input.key].state # "absent"
  BY CallFacts, Zenon DEF ClearDetached, At, Replies, ServiceInv, HandlersInv, AttemptOK
<1>2. PICK x : x = adm[a]
  BY Zenon
<1>3. PICK y : y = [x EXCEPT !.pc = IF x.pass = "settle" THEN "done" ELSE "read"]
  BY Zenon
<1>4. /\ y.pc = IF x.pass = "settle" THEN "done" ELSE "read"
      /\ y.input = x.input /\ y.reply = x.reply /\ y.req = x.req
  BY <1>1, <1>2, <1>3, Zenon DEF AttemptFields
<1>5. ReplyOK(y)
  BY <1>1, <1>2, <1>4, Zenon DEF ReplyOK, Answer
<1>6. ReplyOK(y)'
  BY <1>5, ReplyStays, Zenon
<1>7. adm' = [adm EXCEPT ![a] = y]
  BY <1>2, <1>3, Zenon DEF ClearDetached, Goto
<1> QED
  BY <1>6, <1>7, SilentReply, Zenon

(* A call that begins or is over.                                          *)
LEMMA BeginReply ==
    ASSUME ServiceInv, Replies, Grows, NEW a \in Attempts,
           AdmitReturn(a) \/ \E input \in Inputs : AdmitBegin(a, input)
    PROVE  Replies'
<1>1. ASSUME AdmitReturn(a) PROVE Replies'
  <2>1. ReplyOK(NoAttempt)'
    BY Zenon DEF ReplyOK, NoAttempt
  <2> QED
    BY <1>1, <2>1, SilentReply, Zenon DEF AdmitReturn
<1>2. ASSUME NEW input \in Inputs, AdmitBegin(a, input) PROVE Replies'
  <2>1. PICK y : y = [NoAttempt EXCEPT !.pc = "replay", !.input = input]
    BY Zenon
  <2>2. ReplyOK(y)'
    BY <2>1, Zenon DEF ReplyOK, NoAttempt
  <2> QED
    BY <1>2, <2>1, <2>2, SilentReply, Zenon DEF AdmitBegin
<1> QED
  BY <1>1, <1>2, Zenon

(* Whatever the service does, its answers stay good.                       *)
LEMMA RepliesKept ==
    ASSUME ServiceInv, Replies, Grows, Next
    PROVE  Replies'
<1>2. ASSUME NEW a \in Attempts, AdmitStep(a) \/ \E input \in Inputs : AdmitBegin(a, input)
      PROVE  Replies'
  BY <1>2, ReplayReadReply, RecheckReply, InstallReply, PlanReply, ReadResponseReply, ClearReply,
     BeginReply, Zenon DEF AdmitStep
<1>3. CASE Crash
  <2>1. PICK y : y = NoAttempt
    BY Zenon
  <2>2. ReplyOK(y)'
    BY <2>1, Zenon DEF ReplyOK, NoAttempt
  <2>3. \A a \in Attempts : adm'[a] = y
    BY <1>3, <2>1, Zenon DEF Crash
  <2> QED
    BY <2>2, <2>3, Zenon DEF Replies
<1>4. ASSUME NEW c \in Workers \cup {Expiry}, OpStep(c) \/ OpReturn(c) PROVE adm' = adm
  BY <1>4, Zenon DEF OpStep, OpReturn, CommitLoad, CommitTxn, CommitReconcile, CommitSettle, OpFails, AckReconcile,
     AckInstall
<1>5. ASSUME NEW w \in Workers, OpenWorker(w) \/ CloseWorker(w) PROVE adm' = adm
  BY <1>5, Zenon DEF OpenWorker, CloseWorker
<1>6. ASSUME NEW w \in Workers, NEW r \in Requests,
             Dispatch(w, r) \/ AckAssignment(w, r) \/ \E event \in WorkerEvents : CommitEvent(w, r, event)
      PROVE  adm' = adm
  BY <1>6, Zenon DEF Dispatch, AckAssignment, CommitEvent, CommitBegin
<1>7. ASSUME NEW r \in Requests,
             ExpireRequest(r) \/ DetachCheck(r) \/ DetachMark(r) \/ PruneRequest(r) \/ RecoverQuarantine(r)
      PROVE  adm' = adm
  BY <1>7, Zenon DEF ExpireRequest, CommitBegin, DetachCheck, DetachMark, PruneRequest, RecoverQuarantine
<1>8. CASE Recover
  BY <1>8, RepliesStay, Zenon DEF Recover
<1> QED
  BY <1>2, <1>3, <1>4, <1>5, <1>6, <1>7, <1>8, RepliesStay, Zenon DEF Next
-----------------------------------------------------------------------------
(* LLMCaller: the handlers                                                 *)

HandlerFields == {"pc", "r", "cursor", "complete", "status", "out", "sent", "woken"}

(* What a handler has read and sent of a response, until that is dropped.  *)
Served(h, now) ==
    /\ h.cursor \in Nat
    /\ ~now.pruned =>
         /\ h.cursor <= Len(now.log)
         /\ now.mode = "stream" =>
              /\ h.out \in Seq(Ledger!Events) /\ Len(h.out) = h.cursor
              /\ \A i \in 1..h.cursor : h.out[i] = now.log[i]
         /\ h.complete =>
              now.state = "closed" /\ h.status = now.decision /\ (now.mode = "stream" => h.cursor = Len(now.log))

HandlerOK(h) ==
    /\ DOMAIN h = HandlerFields
    /\ h.pc # "idle" => h.r \in Requests /\ request[h.r].state # "absent" /\ Served(h, request[h.r])
    /\ h.pc = "answered" => h.complete /\ h.sent = h.status

Handlers == DOMAIN handler = Attempts /\ \A a \in Attempts : HandlerOK(handler[a])

(* The page is of the response.                                            *)
LEMMA PageFacts ==
    ASSUME NEW rec \in RequestRows, NEW after \in Nat, after <= Len(rec.log)
    PROVE  PageEnd(rec, after) \in Nat /\ after <= PageEnd(rec, after) /\ PageEnd(rec, after) <= Len(rec.log)
<1>1. Len(rec.log) \in Nat
  BY LogLength, Zenon
<1> QED
  BY <1>1, PageAssumption DEF PageEnd

(* One sequence after another.                                             *)
LEMMA Joined ==
    ASSUME NEW S, NEW p \in Seq(S), NEW q \in Seq(S)
    PROVE  /\ p \o q \in Seq(S) /\ Len(p \o q) = Len(p) + Len(q)
           /\ \A i \in 1..(Len(p) + Len(q)) : (p \o q)[i] = IF i <= Len(p) THEN p[i] ELSE q[i - Len(p)]
<1>1. p \o q \in Seq(S) /\ Len(p \o q) = Len(p) + Len(q)
  BY SMT
<1>2. \A i \in 1..(Len(p) + Len(q)) : (p \o q)[i] = IF i <= Len(p) THEN p[i] ELSE q[i - Len(p)]
  BY SMT
<1> QED
  BY <1>1, <1>2, Zenon

(* One more page of a sequence that has been sent so far.                  *)
LEMMA NextPage ==
    ASSUME NEW log \in Seq(Ledger!Events), NEW out \in Seq(Ledger!Events), NEW c \in Nat, NEW e \in Nat,
           c <= e, e <= Len(log), Len(out) = c, \A i \in 1..c : out[i] = log[i]
    PROVE  /\ out \o SubSeq(log, c + 1, e) \in Seq(Ledger!Events) /\ Len(out \o SubSeq(log, c + 1, e)) = e
           /\ \A i \in 1..e : (out \o SubSeq(log, c + 1, e))[i] = log[i]
<1>1. /\ SubSeq(log, c + 1, e) \in Seq(Ledger!Events) /\ Len(SubSeq(log, c + 1, e)) = e - c
      /\ \A i \in 1..(e - c) : SubSeq(log, c + 1, e)[i] = log[c + i]
  OBVIOUS
<1>2. PICK page \in Seq(Ledger!Events) : page = SubSeq(log, c + 1, e)
  BY <1>1, Zenon
<1>3. Len(page) = e - c /\ \A i \in 1..(e - c) : page[i] = log[c + i]
  BY <1>1, <1>2, Zenon
<1>4. /\ out \o page \in Seq(Ledger!Events) /\ Len(out \o page) = Len(out) + Len(page)
      /\ \A i \in 1..(Len(out) + Len(page)) :
           (out \o page)[i] = IF i <= Len(out) THEN out[i] ELSE page[i - Len(out)]
  BY Joined, Zenon
<1>5. Len(out \o page) = e
  BY <1>3, <1>4
<1>6. ASSUME NEW i \in 1..e PROVE (out \o page)[i] = log[i]
  <2>1. CASE i <= c
    BY <1>3, <1>4, <2>1
  <2>2. CASE ~(i <= c)
    <3>1. i - c \in 1..(e - c) /\ c + (i - c) = i /\ i \in 1..(Len(out) + Len(page))
      BY <1>3, <2>2
    <3> QED
      BY <1>3, <1>4, <2>2, <3>1, SMTT(30)
  <2> QED
    BY <2>1, <2>2, Zenon
<1> QED
  BY <1>2, <1>4, <1>5, <1>6, Zenon

(* A handler takes the next page of the response it reads.                 *)
LEMMA PageServed ==
    ASSUME NEW rec \in RequestRows, ~rec.pruned, NEW h, DOMAIN h = HandlerFields, Served(h, rec),
           NEW y, y = WithPage(h, rec)
    PROVE  DOMAIN y = HandlerFields /\ y.pc = "page" /\ y.r = h.r /\ Served(y, rec)
<1>1. PICK e : e = PageEnd(rec, h.cursor)
  BY Zenon
<1>2. e \in Nat /\ h.cursor \in Nat /\ h.cursor <= e /\ e <= Len(rec.log)
  BY <1>1, PageFacts, Zenon DEF Served
<1>3. /\ DOMAIN y = HandlerFields /\ y.pc = "page" /\ y.r = h.r /\ y.cursor = e /\ y.status = rec.decision
      /\ y.out = IF rec.mode = "stream" THEN h.out \o SubSeq(rec.log, h.cursor + 1, e) ELSE h.out
      /\ y.complete = (rec.state = "closed" /\ (rec.mode = "aggregate" \/ e = Len(rec.log)))
  BY <1>1, Zenon DEF WithPage, HandlerFields
<1>4. ASSUME rec.mode = "stream"
      PROVE  /\ y.out \in Seq(Ledger!Events) /\ Len(y.out) = e
             /\ \A i \in 1..e : y.out[i] = rec.log[i]
  <2>1. /\ h.out \in Seq(Ledger!Events) /\ Len(h.out) = h.cursor /\ rec.log \in Seq(Ledger!Events)
        /\ \A i \in 1..h.cursor : h.out[i] = rec.log[i]
    BY <1>4, LogLength, Zenon DEF Served
  <2>2. y.out = h.out \o SubSeq(rec.log, h.cursor + 1, e)
    BY <1>3, <1>4, Zenon
  <2>3. PICK log \in Seq(Ledger!Events) : log = rec.log
    BY <2>1, Zenon
  <2>4. PICK out \in Seq(Ledger!Events) : out = h.out
    BY <2>1, Zenon
  <2>5. PICK c \in Nat : c = h.cursor
    BY <1>2, Zenon
  <2>6. /\ out \o SubSeq(log, c + 1, e) \in Seq(Ledger!Events) /\ Len(out \o SubSeq(log, c + 1, e)) = e
        /\ \A i \in 1..e : (out \o SubSeq(log, c + 1, e))[i] = log[i]
    <3>1. c <= e /\ e <= Len(log) /\ Len(out) = c /\ \A i \in 1..c : out[i] = log[i]
      BY <1>2, <2>1, <2>3, <2>4, <2>5, Zenon
    <3> QED
      BY <1>2, <3>1, NextPage, ZenonT(30)
  <2> QED
    BY <2>2, <2>3, <2>4, <2>5, <2>6, Zenon
<1>5. y.complete => y.status = rec.decision /\ rec.state = "closed" /\ (rec.mode = "stream" => e = Len(rec.log))
  BY <1>3, Zenon
<1> QED
  BY <1>2, <1>3, <1>4, <1>5, Zenon DEF Served

(* What a handler has read stays true of the response.                     *)
LEMMA ServedGrows ==
    ASSUME NEW old \in RequestRows, NEW now \in RequestRows, NEW h, Served(h, old), Grown(old, now)
    PROVE  Served(h, now)
<1>1. h.cursor \in Nat /\ Len(old.log) \in Nat /\ Len(now.log) \in Nat
  BY LogLength, Zenon DEF Served
<1>2. ASSUME ~now.pruned
      PROVE  /\ h.cursor <= Len(now.log)
             /\ now.mode = "stream" =>
                  /\ h.out \in Seq(Ledger!Events) /\ Len(h.out) = h.cursor
                  /\ \A i \in 1..h.cursor : h.out[i] = now.log[i]
             /\ h.complete =>
                  now.state = "closed" /\ h.status = now.decision /\ (now.mode = "stream" => h.cursor = Len(now.log))
  <2>1. /\ ~old.pruned /\ now.mode = old.mode /\ Len(old.log) <= Len(now.log)
        /\ \A i \in 1..Len(old.log) : now.log[i] = old.log[i]
        /\ old.state = "closed" => now.state = "closed" /\ now.log = old.log /\ now.decision = old.decision
    BY <1>2, Zenon DEF Grown
  <2>2. /\ h.cursor <= Len(old.log)
        /\ old.mode = "stream" =>
             /\ h.out \in Seq(Ledger!Events) /\ Len(h.out) = h.cursor
             /\ \A i \in 1..h.cursor : h.out[i] = old.log[i]
        /\ h.complete =>
             old.state = "closed" /\ h.status = old.decision /\ (old.mode = "stream" => h.cursor = Len(old.log))
    BY <2>1, Zenon DEF Served
  <2>3. h.cursor <= Len(now.log) /\ \A i \in 1..h.cursor : now.log[i] = old.log[i]
    BY <1>1, <2>1, <2>2
  <2> QED
    BY <2>1, <2>2, <2>3, Zenon
<1> QED
  BY <1>1, <1>2, Zenon DEF Served

(* A handler that has read nothing new keeps what it has.                  *)
LEMMA HandlerStays ==
    ASSUME ServiceInv, Grows, NEW h, HandlerOK(h), NEW y, DOMAIN y = HandlerFields,
           y.pc # "idle" => h.pc # "idle" /\ y.r = h.r /\ y.cursor = h.cursor /\ y.complete = h.complete
                              /\ y.status = h.status /\ y.out = h.out,
           y.pc = "answered" => y.complete /\ y.sent = y.status
    PROVE  HandlerOK(y)'
<1>1. CASE y.pc = "idle"
  BY <1>1, Zenon DEF HandlerOK
<1>2. CASE y.pc # "idle"
  <2>1. PICK r \in Requests : r = h.r
    BY <1>2, Zenon DEF HandlerOK
  <2>2. request[r].state # "absent" /\ Served(h, request[r])
    BY <1>2, <2>1, Zenon DEF HandlerOK
  <2>3. request'[r].state # "absent" /\ Served(h, request'[r])
    BY <2>2, RowsStay, ServedGrows, Zenon
  <2>4. Served(y, request'[r])
    BY <1>2, <2>3, Zenon DEF Served
  <2> QED
    BY <1>2, <2>1, <2>3, <2>4, Zenon DEF HandlerOK
<1> QED
  BY <1>1, <1>2, Zenon

(* Steps that do not touch a handler.                                      *)
LEMMA SameHandler ==
    ASSUME ServiceInv, Grows, NEW h, HandlerOK(h)
    PROVE  HandlerOK(h)'
BY HandlerStays, Zenon DEF HandlerOK

(* A step of one handler.                                                  *)
LEMMA HandlerMoves ==
    ASSUME ServiceInv, Grows, Handlers, NEW a \in Attempts, NEW y, HandlerOK(y)',
           handler' = [handler EXCEPT ![a] = y]
    PROVE  Handlers'
<1>1. ASSUME NEW b \in Attempts, b # a PROVE HandlerOK(handler[b])'
  <2>1. PICK h : h = handler[b]
    BY Zenon
  <2>2. HandlerOK(h)' /\ handler'[b] = h
    BY <1>1, <2>1, SameHandler, Zenon DEF Handlers
  <2> QED
    BY <2>2, Zenon
<1>2. HandlerOK(handler[a])' /\ DOMAIN handler' = Attempts
  BY Zenon DEF Handlers
<1> QED
  BY <1>1, <1>2, Zenon DEF Handlers

(* Only where the handler is, what it has written and who has woken it.    *)
LEMMA HandlerAdvances ==
    ASSUME ServiceInv, Grows, Handlers, NEW a \in Attempts, NEW h, h = handler[a], NEW y,
           DOMAIN y = HandlerFields,
           y.pc # "idle" => h.pc # "idle" /\ y.r = h.r /\ y.cursor = h.cursor /\ y.complete = h.complete
                              /\ y.status = h.status /\ y.out = h.out,
           y.pc = "answered" => y.complete /\ y.sent = y.status,
           handler' = [handler EXCEPT ![a] = y]
    PROVE  Handlers'
<1>1. HandlerOK(h)
  BY Zenon DEF Handlers
<1>2. HandlerOK(y)'
  BY <1>1, HandlerStays, Zenon
<1> QED
  BY <1>2, HandlerMoves, Zenon

(* No handler moves.                                                       *)
LEMMA HandlersSame ==
    ASSUME ServiceInv, Grows, Handlers, handler' = handler
    PROVE  Handlers'
<1>1. ASSUME NEW b \in Attempts PROVE HandlerOK(handler[b])'
  <2>1. PICK h : h = handler[b]
    BY Zenon
  <2>2. HandlerOK(h)'
    BY <2>1, SameHandler, Zenon DEF Handlers
  <2> QED
    BY <2>1, <2>2, Zenon
<1> QED
  BY <1>1, Zenon DEF Handlers

(* The handler of an answered admission starts with its page.              *)
LEMMA StartServed ==
    ASSUME ServiceInv, Grows, Replies, Handlers, NEW a \in Attempts, HandlerStart(a)
    PROVE  Handlers'
<1>1. CASE adm[a].reply # "response"
  BY <1>1, HandlersSame, Zenon DEF HandlerStart
<1>2. CASE adm[a].reply = "response"
  <2>1. PICK x : x = adm[a]
    BY Zenon
  <2>2. Answer(x)
    BY <1>2, <2>1, Zenon DEF Replies, ReplyOK
  <2>3. PICK r \in Requests : r = x.input.key
    BY <2>2, Zenon DEF Answer
  <2>4. PICK h : h = [NoHandler EXCEPT !.r = r]
    BY Zenon
  <2>5. PICK y : y = WithPage(h, x.req)
    BY Zenon
  <2>6. /\ DOMAIN h = HandlerFields /\ h.r = r /\ h.cursor = 0 /\ h.complete = FALSE /\ h.out = <<>>
    BY <2>4, Zenon DEF NoHandler, HandlerFields
  <2>7. x.req \in RequestRows /\ ~x.req.pruned /\ Grown(x.req, request[r])
    BY <2>2, <2>3, Zenon DEF Answer
  <2>8. Served(h, x.req)
    <3>1. Len(x.req.log) \in Nat
      BY <2>7, LogLength, Zenon
    <3>2. h.cursor \in Nat /\ h.cursor <= Len(x.req.log) /\ h.out \in Seq(Ledger!Events) /\ Len(h.out) = h.cursor
      BY <2>6, <3>1
    <3>3. \A i \in 1..h.cursor : h.out[i] = x.req.log[i]
      BY <2>6
    <3> QED
      BY <2>6, <3>2, <3>3, Zenon DEF Served
  <2>9. DOMAIN y = HandlerFields /\ y.pc = "page" /\ y.r = r /\ Served(y, x.req)
    BY <2>5, <2>6, <2>7, <2>8, PageServed, Zenon
  <2>10. request[r].state # "absent" /\ request[r] \in RequestRows
    BY <2>7, RowsStay, Zenon DEF Grown
  <2>11. Served(y, request[r])
    BY <2>7, <2>9, <2>10, ServedGrows, Zenon
  <2>12. HandlerOK(y)
    BY <2>9, <2>10, <2>11, Zenon DEF HandlerOK
  <2>13. HandlerOK(y)'
    BY <2>12, SameHandler, Zenon
  <2>14. handler' = [handler EXCEPT ![a] = y]
    BY <1>2, <2>1, <2>3, <2>4, <2>5, Zenon DEF HandlerStart
  <2> QED
    BY <2>13, <2>14, HandlerMoves, Zenon
<1> QED
  BY <1>1, <1>2, Zenon

(* A waiting handler reads the next page.                                  *)
LEMMA ReadServed ==
    ASSUME ServiceInv, Grows, Handlers, NEW a \in Attempts, WaitRead(a)
    PROVE  Handlers'
<1>1. PICK h : h = handler[a]
  BY Zenon
<1>2. DOMAIN h = HandlerFields /\ h.pc = "reading" /\ HandlerOK(h)
  BY <1>1, Zenon DEF WaitRead, HandlerAt, Handlers, HandlerOK
<1>3. PICK r \in Requests : r = h.r
  BY <1>2, Zenon DEF HandlerOK
<1>4. request[r].state # "absent" /\ Served(h, request[r]) /\ request[r] \in RequestRows
  BY <1>2, <1>3, RowsStay, Zenon DEF HandlerOK
<1>5. CASE ~request[r].pruned /\ handler' = [handler EXCEPT ![a] = WithPage(h, request[r])]
  <2>1. PICK y : y = WithPage(h, request[r])
    BY Zenon
  <2>2. DOMAIN y = HandlerFields /\ y.pc = "page" /\ y.r = r /\ Served(y, request[r])
    BY <1>2, <1>3, <1>4, <1>5, <2>1, PageServed, ZenonT(30)
  <2>3. HandlerOK(y)
    BY <1>4, <2>2, Zenon DEF HandlerOK
  <2>4. HandlerOK(y)'
    BY <2>3, SameHandler, Zenon
  <2> QED
    BY <1>5, <2>1, <2>4, HandlerMoves, Zenon
<1>6. ASSUME NEW pc \in {"exit", "asleep"}, handler' = [handler EXCEPT ![a] = [h EXCEPT !.pc = pc]]
      PROVE  Handlers'
  <2>1. PICK y : y = [h EXCEPT !.pc = pc]
    BY Zenon
  <2>2. /\ DOMAIN y = HandlerFields /\ y.pc = pc /\ y.r = h.r /\ y.cursor = h.cursor /\ y.complete = h.complete
        /\ y.status = h.status /\ y.out = h.out
    BY <1>2, <2>1, Zenon DEF HandlerFields
  <2>3. y.pc # "answered" /\ h.pc # "idle"
    BY <1>2, <1>6, <2>2, Zenon
  <2>4. handler' = [handler EXCEPT ![a] = y]
    BY <1>6, <2>1, Zenon
  <2> QED
    BY <1>1, <2>2, <2>3, <2>4, HandlerAdvances, Zenon
<1> QED
  BY <1>1, <1>3, <1>5, <1>6, Zenon DEF WaitRead

(* writeResponse answers once the response is complete.                    *)
LEMMA WriteServed ==
    ASSUME ServiceInv, Grows, Handlers, NEW a \in Attempts, HandlerWrite(a)
    PROVE  Handlers'
<1>1. PICK h : h = handler[a]
  BY Zenon
<1>2. DOMAIN h = HandlerFields /\ h.pc = "page"
  BY <1>1, Zenon DEF HandlerWrite, HandlerAt, Handlers, HandlerOK
<1>3. ASSUME NEW pc \in {"exit", "answered", "wait"}, NEW n, pc = "answered" => h.complete /\ n = h.status,
             handler' = [handler EXCEPT ![a] = [h EXCEPT !.pc = pc, !.sent = n]]
      PROVE  Handlers'
  <2>1. PICK y : y = [h EXCEPT !.pc = pc, !.sent = n]
    BY Zenon
  <2>2. /\ DOMAIN y = HandlerFields /\ y.pc = pc /\ y.r = h.r /\ y.cursor = h.cursor /\ y.complete = h.complete
        /\ y.status = h.status /\ y.out = h.out /\ y.sent = n
    BY <1>2, <2>1, Zenon DEF HandlerFields
  <2>3. (y.pc = "answered" => y.complete /\ y.sent = y.status) /\ h.pc # "idle" /\ handler' = [handler EXCEPT ![a] = y]
    BY <1>2, <1>3, <2>1, <2>2, Zenon
  <2> QED
    BY <1>1, <2>2, <2>3, HandlerAdvances, Zenon
<1>0. PICK fault : fault = 500
  BY Zenon
<1>4. PICK z : z = CASE h.status = 0 /\ h.complete -> [h EXCEPT !.pc = "exit", !.sent = fault]
                     [] h.complete                 -> [h EXCEPT !.pc = "answered", !.sent = h.status]
                     [] OTHER                      -> [h EXCEPT !.pc = "wait", !.sent = h.status]
  BY Zenon
<1>5. handler' = [handler EXCEPT ![a] = z]
  BY <1>0, <1>1, <1>4, Zenon DEF HandlerWrite
<1>6. CASE z = [h EXCEPT !.pc = "exit", !.sent = fault]
  BY <1>3, <1>5, <1>6, Zenon
<1>7. CASE h.complete /\ z = [h EXCEPT !.pc = "answered", !.sent = h.status]
  BY <1>3, <1>5, <1>7, Zenon
<1>8. CASE z = [h EXCEPT !.pc = "wait", !.sent = h.status]
  BY <1>3, <1>5, <1>8, Zenon
<1> QED
  BY <1>4, <1>6, <1>7, <1>8

(* A handler that only goes to another place.                              *)
LEMMA GotoServed ==
    ASSUME ServiceInv, Grows, Handlers, NEW a \in Attempts, handler[a].pc # "idle",
           NEW pc \in {"exit", "wait", "reading"}, NEW woken,
           handler' = [handler EXCEPT ![a] = [handler[a] EXCEPT !.pc = pc, !.woken = woken]]
    PROVE  Handlers'
<1>1. PICK h : h = handler[a]
  BY Zenon
<1>2. PICK y : y = [h EXCEPT !.pc = pc, !.woken = woken]
  BY Zenon
<1>3. DOMAIN h = HandlerFields
  BY <1>1, Zenon DEF Handlers, HandlerOK
<1>4. /\ DOMAIN y = HandlerFields /\ y.pc = pc /\ y.r = h.r /\ y.cursor = h.cursor /\ y.complete = h.complete
      /\ y.status = h.status /\ y.out = h.out
  BY <1>2, <1>3, Zenon DEF HandlerFields
<1>5. y.pc # "answered" /\ h.pc # "idle" /\ handler' = [handler EXCEPT ![a] = y]
  BY <1>1, <1>2, <1>4, Zenon
<1> QED
  BY <1>1, <1>4, <1>5, HandlerAdvances, Zenon

(* The waits of a handler, and its caller's departure.                     *)
LEMMA WaitServed ==
    ASSUME ServiceInv, Grows, Handlers, NEW a \in Attempts,
           WaitSubscribe(a) \/ WaitWake(a) \/ Heartbeat(a) \/ CallerGone(a)
    PROVE  Handlers'
<1>1. DOMAIN handler = Attempts /\ DOMAIN handler[a] = HandlerFields
  BY Zenon DEF Handlers, HandlerOK
<1>2. handler[a].pc # "idle"
  BY Zenon DEF WaitSubscribe, WaitWake, Heartbeat, CallerGone, HandlerAt
<1>3. CASE WaitSubscribe(a)
  <2>1. handler' = [handler EXCEPT ![a] = [handler[a] EXCEPT !.pc = "reading", !.woken = FALSE]]
    BY <1>1, <1>3, Zenon DEF WaitSubscribe
  <2> QED
    BY <1>2, <2>1, GotoServed, Zenon
<1>4. ASSUME NEW pc \in {"exit", "wait"}, handler' = [handler EXCEPT ![a].pc = pc] PROVE Handlers'
  <2>1. [handler[a] EXCEPT !.pc = pc] = [handler[a] EXCEPT !.pc = pc, !.woken = handler[a].woken]
    BY <1>1, Zenon DEF HandlerFields
  <2>2. handler' = [handler EXCEPT ![a] = [handler[a] EXCEPT !.pc = pc, !.woken = handler[a].woken]]
    BY <1>1, <1>4, <2>1, Zenon
  <2> QED
    BY <1>2, <2>2, GotoServed, Zenon
<1> QED
  BY <1>3, <1>4, Zenon DEF WaitWake, Heartbeat, CallerGone

(* A handler that is over.                                                 *)
LEMMA OverServed ==
    ASSUME ServiceInv, Grows, Handlers, NEW a \in Attempts, HandlerExit(a) \/ HandlerDone(a)
    PROVE  Handlers'
<1>1. PICK y : y = NoHandler
  BY Zenon
<1>2. DOMAIN y = HandlerFields /\ y.pc = "idle" /\ handler' = [handler EXCEPT ![a] = y]
  BY <1>1, Zenon DEF NoHandler, HandlerFields, HandlerExit, HandlerDone
<1>3. HandlerOK(y)'
  BY <1>2, Zenon DEF HandlerOK
<1> QED
  BY <1>2, <1>3, HandlerMoves, Zenon

(* Waking a handler changes nothing it has sent.                           *)
LEMMA SignalServed ==
    ASSUME ServiceInv, Grows, Handlers, NEW r, handler' = Signalled(r)
    PROVE  Handlers'
<1>1. ASSUME NEW b \in Attempts PROVE HandlerOK(handler[b])'
  <2>1. PICK h : h = handler[b]
    BY Zenon
  <2>2. HandlerOK(h)
    BY <2>1, Zenon DEF Handlers
  <2>3. CASE handler'[b] = h
    <3>1. HandlerOK(h)'
      BY <2>2, SameHandler, Zenon
    <3> QED
      BY <2>3, <3>1, Zenon
  <2>4. CASE h.pc \in {"reading", "asleep"} /\ handler'[b] = [h EXCEPT !.woken = TRUE]
    <3>1. PICK y : y = [h EXCEPT !.woken = TRUE]
      BY Zenon
    <3>2. /\ DOMAIN y = HandlerFields /\ y.pc = h.pc /\ y.r = h.r /\ y.cursor = h.cursor
          /\ y.complete = h.complete /\ y.status = h.status /\ y.out = h.out
      BY <2>2, <3>1, Zenon DEF HandlerFields, HandlerOK
    <3>3. h.pc # "idle" /\ y.pc # "answered"
      BY <2>4, <3>2, Zenon
    <3>4. HandlerOK(y)'
      BY <2>2, <3>2, <3>3, HandlerStays, Zenon
    <3> QED
      BY <2>4, <3>1, <3>4, Zenon
  <2> QED
    BY <2>1, <2>3, <2>4, Zenon DEF Signalled
<1> QED
  BY <1>1, Zenon DEF Handlers, Signalled

(* Every step of the composition is a step of the service, or leaves it    *)
(* alone.                                                                  *)
LEMMA CallerIsService ==
    ASSUME Handlers, CallerNext \/ UNCHANGED callerVars
    PROVE  Next \/ UNCHANGED vars
<1>1. UNCHANGED callerVars => UNCHANGED vars
  BY Zenon DEF callerVars
<1>2. SilentStep => Next
  BY Zenon DEF SilentStep, Next
<1>3. ASSUME NEW c \in Workers \cup {Expiry}, CommitStep(c) PROVE Next
  BY <1>3, Zenon DEF CommitStep, Next
<1>4. CallerCrash => Next
  BY Zenon DEF CallerCrash, Next
<1>5. ASSUME NEW a \in Attempts, HandlerStart(a) PROVE Next
  BY <1>5, Zenon DEF HandlerStart, AdmitStep, Next
<1>6. ASSUME NEW a \in Attempts, HandlerStep(a) \/ CallerGone(a), ~HandlerStart(a)
      PROVE  Next \/ UNCHANGED vars
  <2>1. CASE HandlerExit(a)
    BY <1>6, <2>1, Zenon DEF HandlerExit, HandlerAt, Handlers, HandlerOK, Next
  <2> QED
    BY <1>6, <2>1, Zenon DEF HandlerStep, HandlerWrite, WaitSubscribe, WaitRead, WaitWake, Heartbeat, HandlerDone,
       CallerGone
<1> QED
  BY <1>1, <1>2, <1>3, <1>4, <1>5, <1>6, Zenon DEF CallerNext

(* Every step keeps what the callers have been sent.                       *)
LEMMA CallerKept ==
    ASSUME ServiceInv, Grows, Replies, Handlers, CallerNext \/ UNCHANGED callerVars
    PROVE  Replies' /\ Handlers'
<1>1. Replies'
  <2>1. CASE UNCHANGED vars
    BY <2>1, RepliesStay, Zenon DEF vars
  <2> QED
    BY <2>1, CallerIsService, RepliesKept, Zenon
<1>2. ASSUME NEW a \in Attempts, HandlerStep(a) \/ CallerGone(a) PROVE Handlers'
  BY <1>2, StartServed, ReadServed, WriteServed, WaitServed, OverServed, Zenon DEF HandlerStep
<1>3. ASSUME NEW c \in Workers \cup {Expiry}, CommitStep(c) PROVE Handlers'
  BY <1>3, HandlersSame, SignalServed, Zenon DEF CommitStep
<1>4. CASE CallerCrash
  <2>1. PICK y : y = NoHandler
    BY Zenon
  <2>2. DOMAIN y = HandlerFields /\ y.pc = "idle"
    BY <2>1, Zenon DEF NoHandler, HandlerFields
  <2>3. HandlerOK(y)'
    BY <2>2, Zenon DEF HandlerOK
  <2>4. DOMAIN handler' = Attempts /\ \A a \in Attempts : handler'[a] = y
    BY <1>4, <2>1, Zenon DEF CallerCrash
  <2> QED
    BY <1>1, <2>3, <2>4, Zenon DEF Handlers
<1>5. CASE SilentStep \/ UNCHANGED callerVars
  BY <1>1, <1>5, HandlersSame, Zenon DEF SilentStep, callerVars
<1> QED
  BY <1>1, <1>2, <1>3, <1>4, <1>5, Zenon DEF CallerNext

(* Two sequences of the same elements.                                     *)
LEMMA SameSeq ==
    ASSUME NEW s \in Seq(Ledger!Events), NEW t \in Seq(Ledger!Events), Len(s) = Len(t),
           \A i \in 1..Len(s) : s[i] = t[i]
    PROVE  s = t
OBVIOUS

(* What the handlers know makes what they sent exact.                      *)
LEMMA ServedExactly == ServiceInv /\ Handlers => ExactResponse
<1> SUFFICES ASSUME ServiceInv, Handlers, NEW a \in Attempts, NEW h, h = handler[a], NEW now, now = request[h.r],
                    h.pc # "idle", ~now.pruned
             PROVE  /\ now.mode = "stream" => h.out = SubSeq(now.log, 1, h.cursor)
                    /\ h.pc = "answered" =>
                         /\ now.state = "closed"
                         /\ h.sent = now.decision
                         /\ now.mode = "stream" => h.out = now.log
  BY Zenon DEF ExactResponse
<1>1. HandlerOK(h) /\ h.r \in Requests
  BY Zenon DEF Handlers, HandlerOK
<1>2. now \in RequestRows
  BY <1>1, Zenon DEF ServiceInv, StoreInv, StoreRows, RowTypes
<1>3. Served(h, now) /\ (h.pc = "answered" => h.complete /\ h.sent = h.status)
  BY <1>1, Zenon DEF HandlerOK
<1>4. now.log \in Seq(Ledger!Events) /\ Len(now.log) \in Nat
  BY <1>2, LogLength, Zenon
<1>5. ASSUME now.mode = "stream"
      PROVE  h.out = SubSeq(now.log, 1, h.cursor) /\ (h.cursor = Len(now.log) => h.out = now.log)
  <2>1. /\ h.cursor \in Nat /\ h.cursor <= Len(now.log) /\ h.out \in Seq(Ledger!Events) /\ Len(h.out) = h.cursor
        /\ \A i \in 1..h.cursor : h.out[i] = now.log[i]
    BY <1>3, <1>5, Zenon DEF Served
  <2>2. PICK s : s = SubSeq(now.log, 1, h.cursor)
    BY Zenon
  <2>3. s \in Seq(Ledger!Events) /\ Len(s) = h.cursor /\ \A i \in 1..h.cursor : s[i] = now.log[i]
    BY <1>4, <2>1, <2>2
  <2>4. h.out = s
    <3>1. PICK o \in Seq(Ledger!Events) : o = h.out
      BY <2>1, Zenon
    <3>2. Len(o) = Len(s) /\ \A i \in 1..Len(o) : o[i] = s[i]
      BY <2>1, <2>3, <3>1
    <3> QED
      BY <2>3, <3>1, <3>2, SameSeq, Zenon
  <2>5. h.cursor = Len(now.log) => h.out = now.log
    BY <1>4, <2>1, SameSeq, Zenon
  <2> QED
    BY <2>2, <2>4, <2>5, Zenon
<1> QED
  BY <1>3, <1>5, Zenon DEF Served
-----------------------------------------------------------------------------
(* LLMWorkerLink: the service's own steps                                  *)

(* A step that only reads, or changes what no worker sees.                 *)
LEMMA SameQuiet ==
    ASSUME op' = op, conn' = conn, receipt' = receipt
    PROVE  Quiet
<1>1. ASSUME NEW w PROVE Adds(w, op[w], receipt, receipt')
  BY Zenon DEF Adds
<1> QED
  BY <1>1, Zenon DEF Quiet

(* A call goes on.                                                         *)
Goes(c) ==
    \E z : Moves(op, op', c, z) /\ z.r = op[c].r /\ z.event = op[c].event /\ z.pc # "idle"

(* OpGoto and Result keep the request and the event of a call.             *)
LEMMA GotoGoes ==
    ASSUME NEW c \in DOMAIN op, NEW pc
    PROVE  /\ OpGoto(c, pc) /\ pc # "idle" => Goes(c)
           /\ Result(c, pc) => Goes(c)
<1>1. ASSUME OpGoto(c, pc), pc # "idle" PROVE Goes(c)
  <2>1. PICK z : z = [NoOp EXCEPT !.pc = pc, !.r = op[c].r, !.event = op[c].event]
    BY Zenon
  <2>2. op' = [op EXCEPT ![c] = z]
    BY <1>1, <2>1, Zenon DEF OpGoto
  <2>3. z.r = op[c].r /\ z.event = op[c].event /\ z.pc # "idle"
    BY <1>1, <2>1, Zenon DEF NoOp
  <2>4. Moves(op, op', c, z)
    BY <2>2, Zenon DEF Moves
  <2> QED
    BY <2>3, <2>4, Zenon DEF Goes
<1>2. ASSUME Result(c, pc) PROVE Goes(c)
  <2>1. PICK z : z = [NoOp EXCEPT !.pc = "done", !.r = op[c].r, !.event = op[c].event, !.result = pc]
    BY Zenon
  <2>2. op' = [op EXCEPT ![c] = z]
    BY <1>2, <2>1, Zenon DEF Result
  <2>3. z.r = op[c].r /\ z.event = op[c].event /\ z.pc = "done"
    BY <2>1, Zenon DEF NoOp
  <2>4. Moves(op, op', c, z) /\ z.pc # "idle"
    BY <2>2, <2>3, Zenon DEF Moves
  <2> QED
    BY <2>3, <2>4, Zenon DEF Goes
<1> QED
  BY <1>1, <1>2, Zenon

(* What a call that goes on may write.                                     *)
Writes(c) ==
    \/ receipt' = receipt
    \/ op[c].pc = "txn" /\ receipt' = [receipt EXCEPT ![op[c].r] = @ \cup {op[c].event}]

(* Every step of a call keeps the call and writes its own event only.      *)
LEMMA OpStepGoes ==
    ASSUME NEW c \in DOMAIN op, OpStep(c), DOMAIN op[c] = OpFields
    PROVE  conn' = conn /\ op[c].pc # "idle" /\ Goes(c) /\ Writes(c)
<1>1. CASE CommitLoad(c)
  <2>1. conn' = conn /\ receipt' = receipt /\ op[c].pc = "load"
    BY <1>1, Zenon DEF CommitLoad, OpAt, memory, store
  <2>2. CASE \E result : Result(c, result)
    BY <2>1, <2>2, GotoGoes, Zenon DEF Writes
  <2>3. CASE op' = [op EXCEPT ![c].pc = "txn", ![c].req = request[op[c].r], ![c].task = task[request[op[c].r].task]]
    <3>1. PICK z : z = [op[c] EXCEPT !.pc = "txn", !.req = request[op[c].r], !.task = task[request[op[c].r].task]]
      BY Zenon
    <3>2. z.r = op[c].r /\ z.event = op[c].event /\ z.pc = "txn"
      BY <3>1, Zenon DEF OpFields
    <3>3. Moves(op, op', c, z)
      BY <2>3, <3>1, Zenon DEF Moves
    <3>4. Goes(c)
      BY <3>2, <3>3, Zenon DEF Goes
    <3> QED
      BY <2>1, <3>4, Zenon DEF Writes
  <2> QED
    BY <1>1, <2>2, <2>3, Zenon DEF CommitLoad
<1>2. CASE CommitTxn(c)
  <2>1. conn' = conn /\ op[c].pc = "txn"
    BY <1>2, Zenon DEF CommitTxn, OpAt, memory
  <2>2. Writes(c)
    BY <1>2, <2>1, Zenon DEF CommitTxn, EventTxn, Writes, store
  <2>3. OpGoto(c, "settle") \/ OpGoto(c, "unknown") \/ Result(c, "failed")
    BY <1>2, Zenon DEF CommitTxn
  <2>4. Goes(c)
    BY <2>3, GotoGoes, Zenon
  <2> QED
    BY <2>1, <2>2, <2>4, Zenon
<1>3. CASE CommitReconcile(c)
  <2>1. conn' = conn /\ receipt' = receipt /\ op[c].pc = "unknown"
    BY <1>3, Zenon DEF CommitReconcile, OpAt, memory, store
  <2>2. OpGoto(c, "settle") \/ Result(c, "failed")
    BY <1>3, Zenon DEF CommitReconcile
  <2> QED
    BY <2>1, <2>2, GotoGoes, Zenon DEF Writes
<1>4. CASE CommitSettle(c)
  <2>1. conn' = conn /\ receipt' = receipt /\ op[c].pc = "settle" /\ Result(c, "acked")
    BY <1>4, Zenon DEF CommitSettle, OpAt, store
  <2> QED
    BY <2>1, GotoGoes, Zenon DEF Writes
<1>5. CASE OpFails(c)
  <2>1. conn' = conn /\ receipt' = receipt /\ op[c].pc \in {"load", "unknown", "ackunknown"} /\ Result(c, "failed")
    BY <1>5, Zenon DEF OpFails, memory, store
  <2> QED
    BY <2>1, GotoGoes, Zenon DEF Writes
<1>6. CASE AckReconcile(c)
  <2>1. conn' = conn /\ receipt' = receipt /\ op[c].pc = "ackunknown"
    BY <1>6, Zenon DEF AckReconcile, OpAt, memory, store
  <2>2. OpGoto(c, "acked") \/ Result(c, "failed")
    BY <1>6, Zenon DEF AckReconcile
  <2> QED
    BY <2>1, <2>2, GotoGoes, Zenon DEF Writes
<1>7. CASE AckInstall(c)
  <2>1. conn' = conn /\ receipt' = receipt /\ op[c].pc = "acked" /\ Result(c, "acked")
    BY <1>7, Zenon DEF AckInstall, OpAt, store
  <2> QED
    BY <2>1, GotoGoes, Zenon DEF Writes
<1> QED
  BY <1>1, <1>2, <1>3, <1>4, <1>5, <1>6, <1>7, Zenon DEF OpStep

(* A call that goes on, as the workers see it.                             *)
LEMMA GoesQuiet ==
    ASSUME ServiceFns, DOMAIN receipt = Requests, NEW c \in Workers \cup {Expiry}, OpOK(c, op[c]), conn' = conn,
           op[c].pc # "idle", Goes(c), Writes(c)
    PROVE  Quiet
<1>1. PICK z : Moves(op, op', c, z) /\ z.r = op[c].r /\ z.event = op[c].event /\ z.pc # "idle"
  BY Zenon DEF Goes
<1>2. ASSUME NEW w \in Workers
      PROVE  op'[w].r = op[w].r /\ op'[w].event = op[w].event /\ (op'[w].pc = "idle" <=> op[w].pc = "idle")
  <2>1. w \in DOMAIN op
    BY Zenon DEF ServiceFns
  <2>2. CASE w = c
    BY <1>1, <2>2, Zenon DEF Moves
  <2>3. CASE w # c
    BY <1>1, <2>1, <2>3, Zenon DEF Moves
  <2> QED
    BY <2>2, <2>3, Zenon
<1>3. ASSUME NEW w \in Workers PROVE Adds(w, op[w], receipt, receipt')
  <2>1. CASE receipt' = receipt
    BY <2>1, Zenon DEF Adds
  <2>2. CASE op[c].pc = "txn" /\ receipt' = [receipt EXCEPT ![op[c].r] = @ \cup {op[c].event}]
    <3>1. PICK q, event : q = op[c].r /\ event = op[c].event
      BY Zenon
    <3>2. event # None /\ EventOf(c, event)
      BY <2>2, <3>1, Zenon DEF OpOK
    <3>3. \A r \in Requests : receipt'[r] = IF r = q THEN receipt[r] \cup {event} ELSE receipt[r]
      BY <2>2, <3>1, Zenon
    <3>4. ASSUME NEW r \in Requests PROVE receipt[r] \subseteq receipt'[r]
      BY <3>3, Zenon
    <3>5. ASSUME NEW r \in Requests, NEW e \in receipt'[r] \ receipt[r], e.worker = w, e.id # Expiry
          PROVE  Busy(op[w]) /\ op[w].r = r /\ op[w].event = e
      <4>1. r = q /\ e = event
        BY <3>3, <3>5, Zenon
      <4>2. c # Expiry
        BY <3>2, <3>5, <4>1, Zenon DEF EventOf
      <4>3. c = w
        BY <3>2, <3>5, <4>1, <4>2, Zenon DEF EventOf
      <4> QED
        BY <3>1, <3>2, <4>1, <4>3, Zenon DEF Busy
    <3> QED
      BY <3>4, <3>5, Zenon DEF Adds
  <2> QED
    BY <2>1, <2>2, Zenon DEF Writes
<1> QED
  BY <1>2, <1>3, Zenon DEF Quiet

(* What the sweep does no worker sees before it writes.                    *)
LEMMA SweepQuiet ==
    ASSUME ServiceFns, NEW z, op' = [op EXCEPT ![Expiry] = z], conn' = conn, receipt' = receipt
    PROVE  Quiet
<1>1. ASSUME NEW w \in Workers PROVE op'[w] = op[w] /\ Adds(w, op[w], receipt, receipt')
  <2>1. w # Expiry
    BY ExpiryAssumption, Zenon
  <2>2. op'[w] = op[w]
    BY <2>1, Zenon DEF ServiceFns
  <2> QED
    BY <2>2, Zenon DEF Adds
<1> QED
  BY <1>1, Zenon DEF Quiet

(* Admit's steps touch no call of a worker and no receipt.                 *)
LEMMA AdmitSame ==
    ASSUME NEW a, AdmitStep(a) \/ \E input \in Inputs : AdmitBegin(a, input)
    PROVE  op' = op /\ conn' = conn /\ receipt' = receipt
<1>1. op' = op
  BY Zenon DEF AdmitStep, AdmitBegin, ReplayRead, RecoverScan, ReplayRecheck, RecoverAdd, ReadResponse, ClearDetached, LocateTask,
     PlanAdmission, AdmitCommit, AdmitInstall, Reconcile, AdmitQuarantine, AdmitFails, AdmitReturn
<1>2. conn' = conn
  BY Zenon DEF AdmitStep, AdmitBegin, ReplayRead, RecoverScan, ReplayRecheck, RecoverAdd, ReadResponse, ClearDetached, LocateTask,
     PlanAdmission, AdmitCommit, AdmitInstall, Reconcile, AdmitQuarantine, AdmitFails, AdmitReturn, memory, links
<1>3. AdmitCommit(a) => receipt' = receipt
  BY Zenon DEF AdmitCommit, AdmissionTxn, store
<1>4. AdmitQuarantine(a) => receipt' = receipt
  BY Zenon DEF AdmitQuarantine, QuarantineTxn, store
<1>5. ~AdmitCommit(a) /\ ~AdmitQuarantine(a) => receipt' = receipt
  BY Zenon DEF AdmitStep, AdmitBegin, ReplayRead, RecoverScan, ReplayRecheck, RecoverAdd, ReadResponse, ClearDetached, LocateTask,
     PlanAdmission, AdmitInstall, Reconcile, AdmitFails, AdmitReturn, store
<1> QED
  BY <1>1, <1>2, <1>3, <1>4, <1>5, Zenon

(* The other steps of the service itself.                                  *)
LEMMA UpkeepSame ==
    ASSUME NEW r, DetachCheck(r) \/ DetachMark(r) \/ PruneRequest(r) \/ RecoverQuarantine(r) \/ Recover
    PROVE  op' = op /\ conn' = conn /\ receipt' = receipt
BY Zenon DEF DetachCheck, DetachMark, PruneRequest, RecoverQuarantine, Recover, QuarantineTxn, memory, links, store

(* Every step of the service itself is quiet.                              *)
LEMMA ServiceQuiet ==
    ASSUME ServiceInv, DOMAIN receipt = Requests, ServiceStep
    PROVE  Quiet
<1>1. ServiceFns /\ \A c \in Workers \cup {Expiry} : OpOK(c, op[c])
  BY Zenon DEF ServiceInv, HandlersInv, MemoryInv, ServiceFns
<1>2. ASSUME NEW a \in Attempts, AdmitStep(a) \/ \E input \in Inputs : AdmitBegin(a, input) PROVE Quiet
  BY <1>2, AdmitSame, SameQuiet, Zenon
<1>3. ASSUME NEW c \in Workers \cup {Expiry}, OpStep(c) PROVE Quiet
  <2>1. OpOK(c, op[c]) /\ DOMAIN op[c] = OpFields /\ c \in DOMAIN op
    BY <1>1, Zenon DEF OpOK, ServiceFns
  <2>2. conn' = conn /\ op[c].pc # "idle" /\ Goes(c) /\ Writes(c)
    BY <1>3, <2>1, OpStepGoes, Zenon
  <2> QED
    BY <1>1, <2>1, <2>2, GoesQuiet, Zenon
<1>4. CASE OpReturn(Expiry)
  <2>1. conn' = conn /\ receipt' = receipt /\ op' = [op EXCEPT ![Expiry] = NoOp]
    BY <1>4, Zenon DEF OpReturn, memory, store
  <2> QED
    BY <1>1, <2>1, SweepQuiet, Zenon
<1>5. ASSUME NEW r \in Requests, ExpireRequest(r) PROVE Quiet
  <2>1. conn' = conn /\ receipt' = receipt
    BY <1>5, Zenon DEF ExpireRequest, CommitBegin, memory, store
  <2>2. PICK z : op' = [op EXCEPT ![Expiry] = z]
    BY <1>5, Zenon DEF ExpireRequest, CommitBegin
  <2> QED
    BY <1>1, <2>1, <2>2, SweepQuiet, Zenon
<1>6. ASSUME NEW r \in Requests, DetachCheck(r) \/ DetachMark(r) \/ PruneRequest(r) \/ RecoverQuarantine(r) PROVE Quiet
  BY <1>6, UpkeepSame, SameQuiet, Zenon
<1>7. CASE Recover
  BY <1>7, UpkeepSame, SameQuiet, Zenon
<1> QED
  BY <1>2, <1>3, <1>4, <1>5, <1>6, <1>7, Zenon DEF ServiceStep

(* A task record has a state.                                              *)
LEMMA TaskHasState ==
    ASSUME NEW k \in TaskRows
    PROVE  "state" \in DOMAIN k
BY DEF TaskRows

(* One record is written, and not with this state.                         *)
LEMMA OtherState ==
    ASSUME DOMAIN task = Tasks, NEW t, NEW k, task' = [task EXCEPT ![t] = k], k.state # "awaiting_human"
    PROVE  NotAcked
<1>1. ASSUME NEW q \in Tasks, task'[q].state = "awaiting_human" PROVE task'[q] = task[q]
  <2>1. q # t
    BY <1>1, Zenon
  <2> QED
    BY <2>1, Zenon
<1> QED
  BY <1>1, Zenon DEF NotAcked

(* The transactions of Admit and of recovery.                              *)
LEMMA AdmitNotAcked ==
    ASSUME ServiceInv, NEW a \in Attempts, AdmitStep(a) \/ \E input \in Inputs : AdmitBegin(a, input)
    PROVE  NotAcked
<1>1. DOMAIN task = Tasks /\ AttemptOK(adm[a])
  BY Zenon DEF ServiceInv, StoreInv, StoreRows, RowTypes, HandlersInv
<1>2. CASE task' = task
  BY <1>2, Zenon DEF NotAcked
<1>3. CASE adm[a].pc = "commit" /\ AdmissionTxn(a)
  <2>1. PICK k : k = IF adm[a].plan = "new"
                     THEN [NoTask EXCEPT !.chat = adm[a].input.chat, !.affinity = adm[a].input.affinity] ELSE adm[a].task
    BY Zenon
  <2>2. PICK new : new = [k EXCEPT !.state = "leased", !.owner = adm[a].worker, !.lease = adm[a].input.key, !.rev = @ + 1]
    BY Zenon
  <2>3. task' = [task EXCEPT ![adm[a].tid] = new]
    BY <1>3, <2>1, <2>2, Zenon DEF AdmissionTxn
  <2>4. new.state = "leased"
    <3>1. "state" \in DOMAIN k
      <4>1. "state" \in DOMAIN NoTask
        BY DEF NoTask
      <4>2. adm[a].task \in TaskRows
        BY <1>1, <1>3, Zenon DEF AttemptOK, PlanOK
      <4>3. "state" \in DOMAIN adm[a].task
        BY <4>2, TaskHasState, Zenon
      <4> QED
        BY <2>1, <4>1, <4>3, Zenon
    <3> QED
      BY <2>2, <3>1, Zenon
  <2> QED
    BY <1>1, <2>3, <2>4, OtherState, Zenon
<1>4. CASE adm[a].pc = "quarantine" /\ QuarantineTxn(adm[a].input.key, adm[a].req, adm[a].task)
  <2>1. PICK k \in TaskRows : k = adm[a].task
    BY <1>1, <1>4, Zenon DEF AttemptOK, RebuildOK
  <2>2. PICK new : new = [k EXCEPT !.state = "failed", !.rev = @ + 1]
    BY Zenon
  <2>3. task' = [task EXCEPT ![adm[a].req.task] = new]
    BY <1>4, <2>1, <2>2, Zenon DEF QuarantineTxn
  <2>4. new.state = "failed"
    <3>1. "state" \in DOMAIN k
      BY TaskHasState, Zenon
    <3> QED
      BY <2>2, <3>1, Zenon
  <2> QED
    BY <1>1, <2>3, <2>4, OtherState, Zenon
<1>5. CASE AdmitCommit(a)
  <2>1. adm[a].pc = "commit" /\ (AdmissionTxn(a) \/ UNCHANGED store)
    BY <1>5, Zenon DEF AdmitCommit, At
  <2> QED
    BY <1>2, <1>3, <2>1, Zenon DEF store
<1>6. CASE AdmitQuarantine(a)
  <2>1. adm[a].pc = "quarantine" /\ (QuarantineTxn(adm[a].input.key, adm[a].req, adm[a].task) \/ UNCHANGED store)
    BY <1>6, Zenon DEF AdmitQuarantine, At
  <2> QED
    BY <1>2, <1>4, <2>1, Zenon DEF store
<1>7. ~AdmitCommit(a) /\ ~AdmitQuarantine(a) => task' = task
  BY Zenon DEF AdmitStep, AdmitBegin, ReplayRead, RecoverScan, ReplayRecheck, RecoverAdd, ReadResponse, ClearDetached, LocateTask,
     PlanAdmission, AdmitInstall, Reconcile, AdmitFails, AdmitReturn, store
<1> QED
  BY <1>2, <1>5, <1>6, <1>7, Zenon

(* An event never puts a task before its human.                            *)
LEMMA EventNotAcked ==
    ASSUME ServiceInv, NEW c \in Workers \cup {Expiry}, OpStep(c)
    PROVE  NotAcked
<1>1. DOMAIN task = Tasks /\ OpOK(c, op[c])
  BY Zenon DEF ServiceInv, StoreInv, StoreRows, RowTypes, HandlersInv
<1>2. CASE task' = task
  BY <1>2, Zenon DEF NotAcked
<1>3. CASE op[c].pc = "txn" /\ EventTxn(c)
  <2>1. PICK k \in TaskRows : k = op[c].task
    BY <1>1, <1>3, Zenon DEF OpOK, EventPlanOK
  <2>2. PICK next : next = EventState(op[c].event.kind, k.state, k.chat)
    BY Zenon
  <2>3. PICK new : new = [k EXCEPT !.state = next, !.rev = @ + 1]
    BY Zenon
  <2>4. CASE next = k.state
    <3>1. task' = task
      BY <1>3, <2>1, <2>2, <2>4, Zenon DEF EventTxn
    <3> QED
      BY <1>2, <3>1, Zenon
  <2>5. CASE next # k.state
    <3>1. task' = [task EXCEPT ![op[c].req.task] = new]
      BY <1>3, <2>1, <2>2, <2>3, <2>5, ZenonT(30) DEF EventTxn
    <3>2. next # "awaiting_human"
      BY <2>2, <2>5 DEF EventState
    <3>3. new.state = next
      <4>1. "state" \in DOMAIN k
        BY TaskHasState, Zenon
      <4> QED
        BY <2>3, <4>1, Zenon
    <3> QED
      BY <1>1, <3>1, <3>2, <3>3, OtherState, Zenon
  <2> QED
    BY <2>4, <2>5, Zenon
<1>4. CASE CommitTxn(c)
  <2>1. op[c].pc = "txn" /\ (EventTxn(c) \/ UNCHANGED store)
    BY <1>4, Zenon DEF CommitTxn, OpAt
  <2> QED
    BY <1>2, <1>3, <2>1, Zenon DEF store
<1>5. ~CommitTxn(c) => task' = task
  BY Zenon DEF OpStep, CommitLoad, CommitReconcile, CommitSettle, OpFails, AckReconcile, AckInstall, store
<1> QED
  BY <1>2, <1>4, <1>5, Zenon

(* No step of the service itself puts a task before its human.             *)
LEMMA ServiceNotAcked ==
    ASSUME ServiceInv, ServiceStep
    PROVE  NotAcked
<1>1. ASSUME NEW a \in Attempts, AdmitStep(a) \/ \E input \in Inputs : AdmitBegin(a, input) PROVE NotAcked
  BY <1>1, AdmitNotAcked, Zenon
<1>2. ASSUME NEW c \in Workers \cup {Expiry}, OpStep(c) PROVE NotAcked
  BY <1>2, EventNotAcked, Zenon
<1>3. CASE task' = task
  BY <1>3, Zenon DEF NotAcked
<1>4. ASSUME NEW r \in Requests, RecoverQuarantine(r) PROVE NotAcked
  <2>1. RowTypes /\ Placed /\ DOMAIN task = Tasks
    BY Zenon DEF ServiceInv, StoreInv, StoreRows, RowTypes
  <2>2. request[r].state = "open" /\ QuarantineTxn(r, request[r], task[request[r].task])
    BY <1>4, Zenon DEF RecoverQuarantine
  <2>3. request[r].task \in Tasks
    <3>1. request[r].state # "absent"
      BY <2>2, Zenon
    <3> QED
      BY <2>1, <3>1, Zenon DEF Placed
  <2>4. PICK k \in TaskRows : k = task[request[r].task]
    BY <2>1, <2>3, Zenon DEF RowTypes
  <2>5. PICK new : new = [k EXCEPT !.state = "failed", !.rev = @ + 1]
    BY Zenon
  <2>6. task' = [task EXCEPT ![request[r].task] = new]
    BY <2>2, <2>4, <2>5, Zenon DEF QuarantineTxn
  <2>7. new.state = "failed"
    <3>1. "state" \in DOMAIN k
      BY TaskHasState, Zenon
    <3> QED
      BY <2>5, <3>1, Zenon
  <2> QED
    BY <2>1, <2>6, <2>7, OtherState, Zenon
<1>5. ASSUME NEW r \in Requests, ExpireRequest(r) \/ DetachCheck(r) \/ DetachMark(r) \/ PruneRequest(r) PROVE task' = task
  BY <1>5, Zenon DEF ExpireRequest, CommitBegin, DetachCheck, DetachMark, PruneRequest, store
<1>6. OpReturn(Expiry) \/ Recover => task' = task
  BY Zenon DEF OpReturn, Recover, store
<1> QED
  BY <1>1, <1>2, <1>3, <1>4, <1>5, <1>6, Zenon DEF ServiceStep
-----------------------------------------------------------------------------
(* LLMLedger: its theorems, about the service's records                    *)

(* The ledger's theorems, about the records the service keeps.             *)
L == INSTANCE LLMLedgerProofs WITH
    task <- LedgerTask, request <- LedgerRequest, EventIDs <- EventIDs \cup {Expiry}

(* The empty Store is the ledger's.                                        *)
LEMMA InitLedger == Init => L!Init /\ Ledger!Init
<1> SUFFICES ASSUME Init PROVE L!Init /\ Ledger!Init
  BY Zenon
<1>1. \A t \in Tasks : task[t] = NoTask
  BY Zenon DEF Init
<1>2. \A r \in Requests : request[r] = NoRequest
  BY Zenon DEF Init
<1>3. LedgerTask = [t \in Tasks |-> [state |-> "absent", owner |-> None, lease |-> None, chat |-> FALSE]]
  <2>1. NoTask.state = "absent" /\ NoTask.owner = None /\ NoTask.lease = None /\ NoTask.chat = FALSE
    BY Zenon DEF NoTask
  <2>2. ASSUME NEW t \in Tasks
        PROVE  /\ task[t].state = "absent" /\ task[t].owner = None /\ task[t].lease = None
               /\ task[t].chat = FALSE
    BY <1>1, <2>1, Zenon
  <2> QED
    BY <2>2, Zenon DEF LedgerTask
<1>4. LedgerRequest = [r \in Requests |->
        [state |-> "absent", task |-> None, mode |-> "stream", decision |-> 0, quarantined |-> FALSE,
         pruned |-> FALSE, log |-> <<>>]]
  <2>1. /\ NoRequest.state = "absent" /\ NoRequest.task = None /\ NoRequest.mode = "stream" /\ NoRequest.decision = 0
        /\ NoRequest.quarantined = FALSE /\ NoRequest.pruned = FALSE /\ NoRequest.log = <<>>
    BY Zenon DEF NoRequest
  <2>2. ASSUME NEW r \in Requests
        PROVE  /\ request[r].state = "absent" /\ request[r].task = None /\ request[r].mode = "stream"
               /\ request[r].decision = 0 /\ request[r].quarantined = FALSE /\ request[r].pruned = FALSE
               /\ request[r].log = <<>>
    BY <1>2, <2>1, Zenon
  <2> QED
    BY <2>2, Zenon DEF LedgerRequest
<1> QED
  BY <1>3, <1>4 DEF Init, L!Init, L!NoTask, L!NoRequest, Ledger!Init, Ledger!NoTask, Ledger!NoRequest

(* The ledger's invariant is that of its theorems, before a step and after. *)
LEMMA SameInvariant == (L!IInv <=> Ledger!IInv) /\ (L!IInv <=> Ledger!IInv)'
<1>1. (L!TypeOK <=> Ledger!TypeOK) /\ (L!TypeOK <=> Ledger!TypeOK)'
  BY Zenon DEF L!TypeOK, Ledger!TypeOK, L!TaskRecords, Ledger!TaskRecords, L!RequestRecords, Ledger!RequestRecords,
     L!Events, Ledger!Events, L!Kinds, Ledger!Kinds, L!Modes, Ledger!Modes, L!Statuses, Ledger!Statuses,
     L!TaskStates, Ledger!TaskStates, L!ActiveStates, Ledger!ActiveStates, L!IdleStates, Ledger!IdleStates,
     L!TerminalStates, Ledger!TerminalStates
<1>2. (L!BlankUntilAdmitted <=> Ledger!BlankUntilAdmitted) /\ (L!BlankUntilAdmitted <=> Ledger!BlankUntilAdmitted)'
  BY Zenon DEF L!BlankUntilAdmitted, Ledger!BlankUntilAdmitted, L!NoRequest, Ledger!NoRequest
<1>3. (L!DecidedInTime <=> Ledger!DecidedInTime) /\ (L!DecidedInTime <=> Ledger!DecidedInTime)'
  BY Zenon DEF L!DecidedInTime, Ledger!DecidedInTime
<1>4. (L!LeaseNamesOpenRequest <=> Ledger!LeaseNamesOpenRequest) /\ (L!LeaseNamesOpenRequest <=> Ledger!LeaseNamesOpenRequest)'
  BY Zenon DEF L!LeaseNamesOpenRequest, Ledger!LeaseNamesOpenRequest, L!ActiveStates, Ledger!ActiveStates
<1>5. (L!AppliedExactlyOnce <=> Ledger!AppliedExactlyOnce) /\ (L!AppliedExactlyOnce <=> Ledger!AppliedExactlyOnce)'
  BY Zenon DEF L!AppliedExactlyOnce, Ledger!AppliedExactlyOnce, L!Range, Ledger!Range, L!IsInjective, Ledger!IsInjective
<1>6. (L!AnsweredAtMostOnce <=> Ledger!AnsweredAtMostOnce) /\ (L!AnsweredAtMostOnce <=> Ledger!AnsweredAtMostOnce)'
  BY Zenon DEF L!AnsweredAtMostOnce, Ledger!AnsweredAtMostOnce, L!EndsResponse, Ledger!EndsResponse
<1>7. (L!PendingToolsAwaited <=> Ledger!PendingToolsAwaited) /\ (L!PendingToolsAwaited <=> Ledger!PendingToolsAwaited)'
  BY Zenon DEF L!PendingToolsAwaited, Ledger!PendingToolsAwaited
<1> QED
  BY <1>1, <1>2, <1>3, <1>4, <1>5, <1>6, <1>7 DEF L!IInv, Ledger!IInv

(* The ledger's invariant holds of a new service.                          *)
LEMMA InitLedgerInv == Init => Ledger!IInv
BY InitLedger, L!InitIInv, SameInvariant, ExpiryAssumption, SMTT(30)

(* The ledger's theorems are about the steps that LLMService refines.      *)
LEMMA SameLedger == Ledger!Next => L!Next
<1>1. ASSUME NEW r, NEW t, NEW w, NEW chat, NEW mode, Ledger!AdmitNew(r, t, w, chat, mode) PROVE L!AdmitNew(r, t, w, chat, mode)
  BY <1>1, Zenon DEF L!AdmitNew, Ledger!AdmitNew, L!AdmittedRequest, Ledger!AdmittedRequest
<1>2. ASSUME NEW r, NEW t, NEW mode, Ledger!AdmitContinuation(r, t, mode) PROVE L!AdmitContinuation(r, t, mode)
  BY <1>2, Zenon DEF L!AdmitContinuation, Ledger!AdmitContinuation, L!AdmittedRequest, Ledger!AdmittedRequest,
     L!Continues, Ledger!Continues, L!IdleStates, Ledger!IdleStates, L!Leased, Ledger!Leased,
     L!SettleResults, Ledger!SettleResults
<1>3. ASSUME NEW r, NEW t, NEW mode, Ledger!AdmitPreempting(r, t, mode) PROVE L!AdmitPreempting(r, t, mode)
  BY <1>3, Zenon DEF L!AdmitPreempting, Ledger!AdmitPreempting, L!AdmittedRequest, Ledger!AdmittedRequest,
     L!ActiveStates, Ledger!ActiveStates, L!Leased, Ledger!Leased, L!Superseded, Ledger!Superseded
<1>4. ASSUME NEW t, Ledger!AckAssignment(t) PROVE L!AckAssignment(t)
  BY <1>4, Zenon DEF L!AckAssignment, Ledger!AckAssignment, L!InState, Ledger!InState
<1>5. ASSUME NEW r, NEW event, Ledger!CommitEvent(r, event) PROVE L!CommitEvent(r, event)
  BY <1>5, Zenon DEF L!CommitEvent, Ledger!CommitEvent, L!Accepts, Ledger!Accepts, L!AcceptsUnseen,
     Ledger!AcceptsUnseen, L!EventAllowed, Ledger!EventAllowed, L!InState, Ledger!InState, L!EventState,
     Ledger!EventState, L!Answered, Ledger!Answered, L!EndsResponse, Ledger!EndsResponse,
     L!AggregateTerminalStatus, Ledger!AggregateTerminalStatus
<1>6. ASSUME NEW r, Ledger!Quarantine(r) PROVE L!Quarantine(r)
  BY <1>6, Zenon DEF L!Quarantine, Ledger!Quarantine, L!Unrecoverable, Ledger!Unrecoverable, L!Quarantined,
     Ledger!Quarantined, L!InState, Ledger!InState
<1>7. ASSUME NEW r, Ledger!Prune(r) PROVE L!Prune(r)
  BY <1>7, Zenon DEF L!Prune, Ledger!Prune, L!WithoutPayload, Ledger!WithoutPayload, L!TerminalStates,
     Ledger!TerminalStates, L!WithoutResults, Ledger!WithoutResults
<1>8. L!Modes = Ledger!Modes /\ L!Events = Ledger!Events
  BY Zenon DEF L!Modes, Ledger!Modes, L!Events, Ledger!Events, L!Kinds, Ledger!Kinds
<1> QED
  BY <1>1, <1>2, <1>3, <1>4, <1>5, <1>6, <1>7, <1>8 DEF L!Next, Ledger!Next

(* A step of the service keeps the ledger's inductive invariant.           *)
LEMMA LedgerKept ==
    ASSUME Ledger!IInv, UNCHANGED store \/ Ledger!Next
    PROVE  Ledger!IInv'
<1>1. UNCHANGED store => UNCHANGED L!vars
  BY Zenon DEF store, L!vars, LedgerTask, LedgerRequest
<1>2. L!IInv'
  BY <1>1, SameInvariant, SameLedger, L!NextIInv, ExpiryAssumption
<1> QED
  BY <1>2, SameInvariant

(* Every step of the service extends the response of an admitted request,  *)
(* closes it or drops it whole.                                            *)
LEMMA LedgerGrows ==
    ASSUME Ledger!IInv, RowTypes, RowTypes', UNCHANGED store \/ Ledger!Next
    PROVE  Grows
<1>1. ASSUME NEW r \in Requests, request[r].state # "absent" PROVE Grown(request[r], request'[r])
  <2>1. CASE UNCHANGED store
    <3>1. request'[r] = request[r] /\ Len(request[r].log) \in Nat
      BY <2>1, LogLength, Zenon DEF store, RowTypes
    <3> QED
      BY <1>1, <3>1 DEF Grown
  <2>2. CASE Ledger!Next
    <3>1. /\ LedgerRequest[r].state = request[r].state /\ LedgerRequest[r].mode = request[r].mode
          /\ LedgerRequest[r].pruned = request[r].pruned /\ LedgerRequest[r].log = request[r].log
          /\ LedgerRequest[r].decision = request[r].decision
      BY Zenon DEF LedgerRequest
    <3>2. /\ LedgerRequest'[r].state = request'[r].state /\ LedgerRequest'[r].mode = request'[r].mode
          /\ LedgerRequest'[r].pruned = request'[r].pruned /\ LedgerRequest'[r].log = request'[r].log
          /\ LedgerRequest'[r].decision = request'[r].decision
      BY Zenon DEF LedgerRequest
    <3>3. L!IInv /\ L!Next
      BY <2>2, SameInvariant, SameLedger, Zenon
    <3>4. L!Grown(LedgerRequest[r], LedgerRequest'[r])
      BY <1>1, <3>1, <3>3, L!StepsGrow, ExpiryAssumption
    <3> QED
      BY <3>1, <3>2, <3>4, Zenon DEF L!Grown, Grown
  <2> QED
    BY <2>1, <2>2, Zenon
<1> QED
  BY <1>1, Zenon DEF Grows
=============================================================================
