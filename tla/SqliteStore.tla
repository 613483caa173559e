---------------------------- MODULE SqliteStore ----------------------------
(***************************************************************************)
(* The primitives of the official SQLite adapter (llm/sqlite): what each   *)
(* one answers and leaves in its tables, the schema's indexes and foreign  *)
(* keys included.  A statement the schema refuses after the adapter's own  *)
(* checks passed answers "error": the adapter returns it untyped.          *)
(***************************************************************************)
EXTENDS StoreRecords

\* validateTaskRecord, validateRequestRecord, validateResponseEventRecord, validateToolRecord
SqlValidTask(r) == r.rev # 0 /\ (r.tier = "tools" => r.aff # 0)
SqlValidRequest(r) == r.rev # 0 /\ (r.pruned # 0 => r.load = 0 /\ r.body = 0)
SqlValidEvent(n, e) == n # 0 /\ ((e.wid = 0) <=> (e.dig = 0))
SqlValidTool(r) == r.rev # 0 /\ r.dig # 0

\* taskIdentityEqual, requestIdentityEqual, toolIdentityEqual compare these
SqlTaskIdentity(r) == <<r.tier, r.aff, r.codec>>
SqlRequestIdentity(r) == <<r.task, r.rid, r.codec, r.made>>

\* FindOpenTask: the open tool-capable task of an affinity
SqlFindOpenTask(s, a) ==
    {t \in DOMAIN s.tasks : HoldsAffinity(s.tasks[t]) /\ s.tasks[t].aff = a}

\* FindActiveRequest: the request of a task whose response is not complete
SqlFindActiveRequest(s, t) ==
    {k \in DOMAIN s.requests : s.requests[k].task = t /\ ~s.requests[k].done}

\* InsertTask
SqlInsertTask(s, t, r) ==
    IF ~SqlValidTask(r) THEN Refused(s, "invalid")
    ELSE IF t \in DOMAIN s.tasks THEN Refused(s, "task_key")
    ELSE IF HoldsAffinity(r) /\ SqlFindOpenTask(s, r.aff) # {} THEN Refused(s, "open_affinity")
    ELSE PutTask(s, t, r)

\* CompareAndSwapTask
SqlSwapTask(s, t, was, r) ==
    IF was = 0 \/ r.rev = 0 THEN Refused(s, "invalid")
    ELSE IF t \notin DOMAIN s.tasks THEN Refused(s, "missing")
    ELSE IF s.tasks[t].rev # was THEN Refused(s, "stale")
    ELSE IF SqlTaskIdentity(r) # SqlTaskIdentity(s.tasks[t]) \/ r.rev # was + 1
         THEN Refused(s, "immutable")
    ELSE IF HoldsAffinity(r) /\ SqlFindOpenTask(s, r.aff) \ {t} # {}
         THEN Refused(s, "open_affinity")
    ELSE PutTask(s, t, r)

\* LoadTask, LoadRequestHead
SqlLoadTask(s, t) == IF t \in DOMAIN s.tasks THEN "found" ELSE "missing"
SqlLoadRequestHead(s, k) == IF k \in DOMAIN s.requests THEN "found" ELSE "missing"

\* LoadRequest: the payload and the decision body fit the reader's budget or are not read
SqlLoadRequest(s, k, max) ==
    IF max < 1 THEN "limit"
    ELSE IF k \notin DOMAIN s.requests THEN "missing"
    ELSE IF s.requests[k].load + s.requests[k].body > max THEN "limit" ELSE "found"

\* LoadResponseDecision: the decision body alone
SqlLoadDecision(s, k, max) ==
    IF max < 1 THEN "limit"
    ELSE IF k \notin DOMAIN s.requests THEN "missing"
    ELSE IF s.requests[k].body > max THEN "limit" ELSE "found"

\* insertRequestRecord: the row, under the schema's unique request and response ids
SqlStoreRequest(s, k, r) ==
    IF \E j \in DOMAIN s.requests : s.requests[j].rid = r.rid
    THEN Refused(s, "error") ELSE PutRequest(s, k, r)

\* InsertRequest
SqlInsertRequest(s, k, r) ==
    IF ~SqlValidRequest(r) THEN Refused(s, "invalid")
    ELSE IF k \in DOMAIN s.requests THEN Refused(s, "request_key")
    ELSE IF ~r.done /\ SqlFindActiveRequest(s, r.task) # {} THEN Refused(s, "active_request")
    ELSE IF r.task \notin DOMAIN s.tasks THEN Refused(s, "missing")
    ELSE IF s.tasks[r.task].codec # r.codec THEN Refused(s, "immutable")
    ELSE SqlStoreRequest(s, k, r)

\* what CompareAndSwapRequest lets a swap do to the payload: nothing, or drop it
\* once with its decision body and never bring it back
SqlPayloadKept(old, new) ==
    IF old.pruned = 0 /\ new.pruned = 0 THEN new.load = old.load
    ELSE /\ new.load = 0 /\ new.body = 0
         /\ old.pruned # 0 => new.pruned = old.pruned

\* CompareAndSwapRequest
SqlSwapRequest(s, k, was, r) ==
    IF was = 0 \/ r.rev = 0 THEN Refused(s, "invalid")
    ELSE IF k \notin DOMAIN s.requests THEN Refused(s, "missing")
    ELSE IF s.requests[k].rev # was THEN Refused(s, "stale")
    ELSE IF SqlRequestIdentity(r) # SqlRequestIdentity(s.requests[k]) \/ r.rev # was + 1
         THEN Refused(s, "immutable")
    ELSE IF ~SqlPayloadKept(s.requests[k], r) THEN Refused(s, "immutable")
    ELSE IF ~r.done /\ SqlFindActiveRequest(s, r.task) \ {k} # {}
         THEN Refused(s, "active_request")
    ELSE PutRequest(s, k, r)

\* LoadWorkerReceipt
SqlLoadReceipt(s, k, w) == IF <<k, w>> \in DOMAIN s.receipts THEN "found" ELSE "missing"

\* InsertWorkerReceipt
SqlInsertReceipt(s, k, w, r) ==
    IF SqlLoadReceipt(s, k, w) = "found" THEN Refused(s, "worker_receipt")
    ELSE IF k \notin DOMAIN s.requests THEN Refused(s, "error")
    ELSE PutReceipt(s, k, w, r)

\* InsertResponseEvent
SqlInsertEvent(s, k, n, e) ==
    IF ~SqlValidEvent(n, e) THEN Refused(s, "invalid")
    ELSE IF e.wid # 0 /\ \E x \in DOMAIN s.events :
                 x[1] = k /\ s.events[x].wid = e.wid /\ s.events[x].dig # e.dig
         THEN Refused(s, "worker_event")
    ELSE IF <<k, n>> \in DOMAIN s.events THEN Refused(s, "response_sequence")
    ELSE IF k \notin DOMAIN s.requests THEN Refused(s, "error")
    ELSE PutEvent(s, k, n, e)

\* LoadToolExecution
SqlLoadTool(s, t, c, max) ==
    IF max < 1 THEN "limit"
    ELSE IF <<t, c>> \notin DOMAIN s.tools THEN "missing"
    ELSE IF s.tools[<<t, c>>].size > max THEN "limit" ELSE "found"

\* InsertToolExecution
SqlInsertTool(s, t, c, r) ==
    IF ~SqlValidTool(r) THEN Refused(s, "invalid")
    ELSE IF <<t, c>> \in DOMAIN s.tools THEN Refused(s, "tool_call")
    ELSE IF t \notin DOMAIN s.tasks THEN Refused(s, "error")
    ELSE PutTool(s, t, c, r)

\* CompareAndSwapToolExecution
SqlSwapTool(s, t, c, was, r) ==
    IF was = 0 \/ r.rev = 0 THEN Refused(s, "invalid")
    ELSE IF <<t, c>> \notin DOMAIN s.tools THEN Refused(s, "missing")
    ELSE IF s.tools[<<t, c>>].rev # was THEN Refused(s, "stale")
    ELSE IF s.tools[<<t, c>>].dig # r.dig \/ r.rev # was + 1 THEN Refused(s, "immutable")
    ELSE PutTool(s, t, c, r)

\* DeleteTombstonedResponseEvents
SqlDeleteEvents(s, k) ==
    IF k \notin DOMAIN s.requests THEN Refused(s, "missing")
    ELSE IF s.requests[k].pruned = 0 THEN Refused(s, "compare_and_swap")
    ELSE Wrote([s EXCEPT !.events = Drop(@, {x \in DOMAIN @ : x[1] = k})])

\* the sub-select of both scans: an event without the receipt of its worker's bytes
SqlUnacknowledged(s, k) ==
    \E x \in DOMAIN s.events :
        /\ x[1] = k /\ s.events[x].wid # 0
        /\ ~\E y \in DOMAIN s.receipts :
               y = <<k, s.events[x].wid>> /\ s.receipts[y] = s.events[x].dig

\* the loop over a limited result: rows are read until the byte budget is spent; a
\* first row beyond the budget is an error
SqlPage(rows, n, max) ==
    LET cut == SubSeq(rows, 1, IF n < Len(rows) THEN n ELSE Len(rows))
        fit == {j \in 0..Len(cut) : Bytes(SubSeq(cut, 1, j)) <= max}
    IN  IF cut # << >> /\ cut[1].size > max THEN TooLarge
        ELSE SubSeq(cut, 1, CHOOSE j \in fit : \A i \in fit : i <= j)

\* ScanResponseEvents
SqlScanEvents(s, k, after, n, max) ==
    SqlPage(InOrder({[at |-> <<0, x[2]>>, size |-> s.events[x].size, flag |-> FALSE] :
                     x \in {y \in DOMAIN s.events : y[1] = k /\ y[2] > after[2]}}), n, max)

\* ScanToolExecutions
SqlScanTools(s, t, after, n, max) ==
    SqlPage(InOrder({[at |-> <<0, x[2]>>, size |-> s.tools[x].size, flag |-> FALSE] :
                     x \in {y \in DOMAIN s.tools : y[1] = t /\ y[2] > after[2]}}), n, max)

\* ScanRecovery: what is not quarantined and either open or not acknowledged
SqlScanRecovery(s, after, n, max) ==
    LET wanted == {k \in DOMAIN s.requests :
                     /\ ~s.requests[k].quar
                     /\ ~s.requests[k].done \/ SqlUnacknowledged(s, k)
                     /\ s.requests[k].task \in DOMAIN s.tasks
                     /\ \/ s.requests[k].made > after[1]
                        \/ s.requests[k].made = after[1] /\ k > after[2]}
    IN  SqlPage(InOrder({[at |-> <<s.requests[k].made, k>>, flag |-> FALSE,
                          size |-> s.requests[k].load + s.requests[k].body] : k \in wanted}),
                n, max)

\* mutant: the cursor of retention is a time alone
SqlScanRetentionByTime(s, before, after, n) ==
    LET wanted == {k \in DOMAIN s.requests :
                     /\ s.requests[k].done /\ s.requests[k].pruned = 0
                     /\ Effective(s.requests[k]) <= before
                     /\ Effective(s.requests[k]) > after[1]}
        rows == InOrder({[at |-> <<Effective(s.requests[k]), k>>, size |-> 0,
                          flag |-> ~s.requests[k].quar /\ SqlUnacknowledged(s, k)] :
                         k \in wanted})
    IN  SubSeq(rows, 1, IF n < Len(rows) THEN n ELSE Len(rows))

\* ScanRetention, and scanRetentionCandidate's flag
SqlScanRetention(s, before, after, n) ==
    LET wanted == {k \in DOMAIN s.requests :
                     /\ s.requests[k].done /\ s.requests[k].pruned = 0
                     /\ Effective(s.requests[k]) <= before
                     /\ \/ Effective(s.requests[k]) > after[1]
                        \/ Effective(s.requests[k]) = after[1] /\ k > after[2]}
        rows == InOrder({[at |-> <<Effective(s.requests[k]), k>>, size |-> 0,
                          flag |-> ~s.requests[k].quar /\ SqlUnacknowledged(s, k)] :
                         k \in wanted})
    IN  SubSeq(rows, 1, IF n < Len(rows) THEN n ELSE Len(rows))

=============================================================================
