------------------------------ MODULE MapStore ------------------------------
(***************************************************************************)
(* The primitives of the two map-based Store adapters: the file-backed     *)
(* example (examples/custom-framework/customstore) and the in-memory model *)
(* (humantest/llm_store_memory.go).  They are the same code except where a *)
(* Mem operator stands beside the Map one: the memory store swaps without  *)
(* validating the record it stores.                                        *)
(***************************************************************************)
EXTENDS StoreRecords

LOCAL INSTANCE SequencesExt

\* customValidateTask, customValidateRequest, customValidateResponseEvent, customValidateTool
MapValidTask(r) == r.rev # 0 /\ (r.tier = "tools" => r.aff # 0)
MapValidRequest(r) ==
    r.rev # 0 /\ (r.pruned # 0 => r.done /\ r.load = 0 /\ r.body = 0)
MapValidEvent(n, e) == n # 0 /\ ((e.wid = 0) <=> (e.dig = 0))
MapValidTool(r) == r.rev # 0 /\ r.dig # 0

\* customTaskIdentityEqual, customRequestIdentityEqual compare these
MapTaskIdentity(r) == <<r.tier, r.aff, r.codec>>
MapRequestIdentity(r) == <<r.task, r.rid, r.codec, r.made>>

\* FindOpenTask, FindActiveRequest: a walk over the map
MapFindOpenTask(s, a) ==
    {t \in DOMAIN s.tasks : HoldsAffinity(s.tasks[t]) /\ s.tasks[t].aff = a}
MapFindActiveRequest(s, t) ==
    {k \in DOMAIN s.requests : s.requests[k].task = t /\ ~s.requests[k].done}

\* the walk InsertTask and CompareAndSwapTask make themselves: any open task of the
\* affinity is in the way, whatever its tier
MapAffinityTaken(s, a, T) == \E t \in DOMAIN s.tasks \ T : s.tasks[t].open /\ s.tasks[t].aff = a

\* LoadTask, LoadRequestHead, LoadRequest, LoadResponseDecision, LoadWorkerReceipt,
\* LoadToolExecution; customBudget guards the ones with payloads
MapLoadTask(s, t) == IF t \in DOMAIN s.tasks THEN "found" ELSE "missing"
MapLoadRequestHead(s, k) == IF k \in DOMAIN s.requests THEN "found" ELSE "missing"
MapBudget(size, max) == IF max < 1 \/ size > max THEN "limit" ELSE "found"
MapLoadRequest(s, k, max) ==
    IF max < 1 THEN "limit"
    ELSE IF k \notin DOMAIN s.requests THEN "missing"
    ELSE MapBudget(s.requests[k].load + s.requests[k].body, max)
MapLoadDecision(s, k, max) ==
    IF max < 1 THEN "limit"
    ELSE IF k \notin DOMAIN s.requests THEN "missing"
    ELSE MapBudget(s.requests[k].body, max)
MapLoadReceipt(s, k, w) == IF <<k, w>> \in DOMAIN s.receipts THEN "found" ELSE "missing"
MapLoadTool(s, t, c, max) ==
    IF max < 1 THEN "limit"
    ELSE IF <<t, c>> \notin DOMAIN s.tools THEN "missing"
    ELSE MapBudget(s.tools[<<t, c>>].size, max)

\* InsertTask
MapInsertTask(s, t, r) ==
    IF ~MapValidTask(r) THEN Refused(s, "invalid")
    ELSE IF t \in DOMAIN s.tasks THEN Refused(s, "task_key")
    ELSE IF HoldsAffinity(r) /\ MapAffinityTaken(s, r.aff, {}) THEN Refused(s, "open_affinity")
    ELSE PutTask(s, t, r)

\* CompareAndSwapTask of the memory store
MemSwapTask(s, t, was, r) ==
    IF was = 0 \/ r.rev = 0 THEN Refused(s, "invalid")
    ELSE IF t \notin DOMAIN s.tasks THEN Refused(s, "missing")
    ELSE IF s.tasks[t].rev # was THEN Refused(s, "stale")
    ELSE IF MapTaskIdentity(r) # MapTaskIdentity(s.tasks[t]) \/ r.rev # was + 1
         THEN Refused(s, "immutable")
    ELSE IF HoldsAffinity(r) /\ MapAffinityTaken(s, r.aff, {t}) THEN Refused(s, "open_affinity")
    ELSE PutTask(s, t, r)

\* CompareAndSwapTask of the file store: validation first
MapSwapTask(s, t, was, r) ==
    IF ~MapValidTask(r) THEN Refused(s, "invalid") ELSE MemSwapTask(s, t, was, r)

\* InsertRequest: the walk meets the active request or the taken id first, in any order
MapInsertRequest(s, k, r) ==
    IF ~MapValidRequest(r) THEN Refused(s, "invalid")
    ELSE IF k \in DOMAIN s.requests THEN Refused(s, "request_key")
    ELSE IF r.task \notin DOMAIN s.tasks THEN Refused(s, "missing")
    ELSE IF s.tasks[r.task].codec # r.codec THEN Refused(s, "immutable")
    ELSE IF ~r.done /\ MapFindActiveRequest(s, r.task) # {} THEN Refused(s, "active_request")
    ELSE IF \E j \in DOMAIN s.requests : s.requests[j].rid = r.rid THEN Refused(s, "request_key")
    ELSE PutRequest(s, k, r)

\* CompareAndSwapRequest of the memory store
MemSwapRequest(s, k, was, r) ==
    LET old == s.requests[k]
    IN  IF was = 0 \/ r.rev = 0 THEN Refused(s, "invalid")
        ELSE IF k \notin DOMAIN s.requests THEN Refused(s, "missing")
        ELSE IF old.rev # was THEN Refused(s, "stale")
        ELSE IF MapRequestIdentity(r) # MapRequestIdentity(old) \/ r.rev # was + 1
             THEN Refused(s, "immutable")
        ELSE IF \/ old.pruned = 0 /\ r.pruned = 0 /\ r.load # old.load
                \/ r.pruned # 0 /\ (r.load # 0 \/ r.body # 0)
                \/ old.pruned # 0 /\ r.pruned # old.pruned
             THEN Refused(s, "immutable")
        ELSE IF ~r.done /\ MapFindActiveRequest(s, r.task) \ {k} # {}
             THEN Refused(s, "active_request")
        ELSE PutRequest(s, k, r)

\* CompareAndSwapRequest of the file store
MapSwapRequest(s, k, was, r) ==
    IF ~MapValidRequest(r) THEN Refused(s, "invalid") ELSE MemSwapRequest(s, k, was, r)

\* InsertResponseEvent
MapInsertEvent(s, k, n, e) ==
    IF ~MapValidEvent(n, e) THEN Refused(s, "invalid")
    ELSE IF k \notin DOMAIN s.requests THEN Refused(s, "missing")
    ELSE IF <<k, n>> \in DOMAIN s.events THEN Refused(s, "response_sequence")
    ELSE IF e.wid # 0 /\ \E x \in DOMAIN s.events :
                 x[1] = k /\ s.events[x].wid = e.wid /\ s.events[x].dig # e.dig
         THEN Refused(s, "worker_event")
    ELSE PutEvent(s, k, n, e)

\* InsertWorkerReceipt
MapInsertReceipt(s, k, w, r) ==
    IF k \notin DOMAIN s.requests THEN Refused(s, "missing")
    ELSE IF <<k, w>> \in DOMAIN s.receipts THEN Refused(s, "worker_receipt")
    ELSE PutReceipt(s, k, w, r)

\* InsertToolExecution
MapInsertTool(s, t, c, r) ==
    IF ~MapValidTool(r) THEN Refused(s, "invalid")
    ELSE IF t \notin DOMAIN s.tasks THEN Refused(s, "missing")
    ELSE IF <<t, c>> \in DOMAIN s.tools THEN Refused(s, "tool_call")
    ELSE PutTool(s, t, c, r)

\* CompareAndSwapToolExecution
MapSwapTool(s, t, c, was, r) ==
    IF was = 0 \/ ~MapValidTool(r) THEN Refused(s, "invalid")
    ELSE IF <<t, c>> \notin DOMAIN s.tools THEN Refused(s, "missing")
    ELSE IF s.tools[<<t, c>>].rev # was THEN Refused(s, "stale")
    ELSE IF s.tools[<<t, c>>].dig # r.dig \/ r.rev # was + 1 THEN Refused(s, "immutable")
    ELSE PutTool(s, t, c, r)

\* DeleteTombstonedResponseEvents
MapDeleteEvents(s, k) ==
    IF k \notin DOMAIN s.requests THEN Refused(s, "missing")
    ELSE IF s.requests[k].pruned = 0 THEN Refused(s, "compare_and_swap")
    ELSE Wrote([s EXCEPT !.events = Drop(@, {x \in DOMAIN @ : x[1] = k})])

\* unacknowledged
MapUnacknowledged(s, k) ==
    \E x \in DOMAIN s.events :
        LET w == <<k, s.events[x].wid>>
        IN  /\ x[1] = k /\ w[2] # 0
            /\ w \notin DOMAIN s.receipts \/ s.receipts[w] # s.events[x].dig

\* the loop every scan ends in: at most n rows, as long as the bytes fit; a first row
\* beyond the budget is an error
MapPage(rows, n, max) ==
    LET fit == {j \in 0..Len(rows) : j <= n /\ Bytes(SubSeq(rows, 1, j)) <= max}
    IN  IF rows # << >> /\ rows[1].size > max THEN TooLarge
        ELSE SubSeq(rows, 1, CHOOSE j \in fit : \A i \in fit : i <= j)

\* ScanResponseEvents, ScanToolExecutions
MapScanEvents(s, k, after, n, max) ==
    MapPage(InOrder({[at |-> <<0, x[2]>>, size |-> s.events[x].size, flag |-> FALSE] :
                     x \in {y \in DOMAIN s.events : y[1] = k /\ y[2] > after[2]}}), n, max)
MapScanTools(s, t, after, n, max) ==
    MapPage(InOrder({[at |-> <<0, x[2]>>, size |-> s.tools[x].size, flag |-> FALSE] :
                     x \in {y \in DOMAIN s.tools : y[1] = t /\ y[2] > after[2]}}), n, max)

\* customRecoveryLess and customRecoveryAfter, customRetentionLess and
\* customRetentionAfter: by time, then by key
MapRecoveryAt(s, k) == <<s.requests[k].made, k>>
MapRetentionAt(s, k) == <<Effective(s.requests[k]), k>>

\* ScanRecovery
MapScanRecovery(s, after, n, max) ==
    LET wanted == {k \in DOMAIN s.requests :
                     /\ ~(\/ s.requests[k].quar
                          \/ s.requests[k].done /\ ~MapUnacknowledged(s, k))
                     /\ Earlier(after, MapRecoveryAt(s, k))
                     /\ s.requests[k].task \in DOMAIN s.tasks}
    IN  MapPage(InOrder({[at |-> MapRecoveryAt(s, k), flag |-> FALSE,
                          size |-> s.requests[k].load + s.requests[k].body] : k \in wanted}),
                n, max)

\* ScanRetention
MapScanRetention(s, before, after, n) ==
    LET wanted == {k \in DOMAIN s.requests :
                     /\ ~(~s.requests[k].done \/ s.requests[k].pruned # 0)
                     /\ Effective(s.requests[k]) <= before
                     /\ Earlier(after, MapRetentionAt(s, k))}
        rows == InOrder({[at |-> MapRetentionAt(s, k), size |-> 0,
                          flag |-> ~s.requests[k].quar /\ MapUnacknowledged(s, k)] :
                         k \in wanted})
    IN  SubSeq(rows, 1, IF n < Len(rows) THEN n ELSE Len(rows))

\* encodeSnapshot and sortDiskPayload: the records of one table in key order
ByKey(f) == SetToSortSeq(DOMAIN f, LAMBDA x, y : x < y)
ByKeys(f) == SetToSortSeq(DOMAIN f, Earlier)

\* one record of a snapshot put back; a refused one fails the whole load
RestoreNextRow(a, next(_)) == IF a.got = "done" THEN next(a.at) ELSE a

\* payloadState: every record of the snapshot goes through its own Insert
Replay(s) ==
    LET tasks == FoldLeft(LAMBDA a, t : RestoreNextRow(a, LAMBDA x : MapInsertTask(x, t, s.tasks[t])),
                          Wrote(NoRecords), ByKey(s.tasks))
        requests == FoldLeft(LAMBDA a, k :
                          RestoreNextRow(a, LAMBDA x : MapInsertRequest(x, k, s.requests[k])),
                          tasks, ByKey(s.requests))
        events == FoldLeft(LAMBDA a, e :
                          RestoreNextRow(a, LAMBDA x : MapInsertEvent(x, e[1], e[2], s.events[e])),
                          requests, ByKeys(s.events))
        receipts == FoldLeft(LAMBDA a, w :
                          RestoreNextRow(a, LAMBDA x : MapInsertReceipt(x, w[1], w[2], s.receipts[w])),
                          events, ByKeys(s.receipts))
    IN  FoldLeft(LAMBDA a, c :
                     RestoreNextRow(a, LAMBDA x : MapInsertTool(x, c[1], c[2], s.tools[c])),
                 receipts, ByKeys(s.tools))

\* validateLoadedRelationships
HeadCoversEvents(s) ==
    \A x \in DOMAIN s.events :
        LET head == s.requests[x[1]].seq IN x[2] <= head \/ head = 0

\* loadSnapshot
LoadSnapshot(s) ==
    LET loaded == Replay(s)
    IN  IF loaded.got = "done" /\ HeadCoversEvents(loaded.at) THEN loaded
        ELSE Refused(s, "corrupt")

=============================================================================
