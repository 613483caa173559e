----------------------------- MODULE LLMStores -----------------------------
(***************************************************************************)
(* A HumanLLM Store at work, over each of its three adapters: SQLite       *)
(* (llm/sqlite), the file-backed example (customstore) and the in-memory   *)
(* model (humantest).  Processes open the store, bind it to a deployment   *)
(* and run the transactions HumanLLM composes (llm/store.go lists them);   *)
(* processes die and the machine loses power between any two steps of a    *)
(* commit.  In every state reached, every primitive is put to all three    *)
(* adapters.                                                               *)
(*                                                                         *)
(*   adapter  which one this behaviour runs over                           *)
(*   disk     [cur, firm]: what a reader of the file or database finds,    *)
(*            and what is left of it after a power loss                    *)
(*   opener   per process: [phase, image, next, asks]; phases "sealed" *)
(*            and "renamed" are inside replaceSnapshot                     *)
(*   truth    ghost: the image of the last update or bind answered nil     *)
(*   maybe    ghost: the images whose commit was answered "unknown", or    *)
(*            whose process died before it answered                        *)
(*   bound    ghost: the deployments a Bind answered nil                   *)
(*   shaky    ghost: a process opened an image that was not yet firm       *)
(*   means    [hands, updates, faults, deployments]: the bounds            *)
(***************************************************************************)
EXTENDS SqliteStore, MapStore

CONSTANTS StoreHands, StoreScenes

VARIABLES adapter, disk, opener, truth, maybe, bound, shaky, means

storeVars == <<adapter, disk, opener, truth, maybe, bound, shaky, means>>

Unbound == [binding |-> 0, records |-> NoRecords]
ShutHand == [phase |-> "closed", image |-> Unbound, next |-> Unbound, asks |-> 0]

LOCAL INSTANCE SequencesExt
LOCAL INSTANCE FiniteSetsExt

-----------------------------------------------------------------------------
(* The primitives, by name *)

Op(name, t, k, n, was, rec) ==
    [op |-> name, task |-> t, key |-> k, n |-> n, was |-> was, rec |-> rec]

SqlDo(s, o) ==
    CASE o.op = "insertTask" -> SqlInsertTask(s, o.task, o.rec)
      [] o.op = "swapTask" -> SqlSwapTask(s, o.task, o.was, o.rec)
      [] o.op = "insertRequest" -> SqlInsertRequest(s, o.key, o.rec)
      [] o.op = "swapRequest" -> SqlSwapRequest(s, o.key, o.was, o.rec)
      [] o.op = "insertEvent" -> SqlInsertEvent(s, o.key, o.n, o.rec)
      [] o.op = "insertReceipt" -> SqlInsertReceipt(s, o.key, o.n, o.rec.dig)
      [] o.op = "insertTool" -> SqlInsertTool(s, o.task, o.n, o.rec)
      [] o.op = "swapTool" -> SqlSwapTool(s, o.task, o.n, o.was, o.rec)
      [] o.op = "deleteEvents" -> SqlDeleteEvents(s, o.key)

MapDo(s, o) ==
    CASE o.op = "insertTask" -> MapInsertTask(s, o.task, o.rec)
      [] o.op = "swapTask" -> MapSwapTask(s, o.task, o.was, o.rec)
      [] o.op = "insertRequest" -> MapInsertRequest(s, o.key, o.rec)
      [] o.op = "swapRequest" -> MapSwapRequest(s, o.key, o.was, o.rec)
      [] o.op = "insertEvent" -> MapInsertEvent(s, o.key, o.n, o.rec)
      [] o.op = "insertReceipt" -> MapInsertReceipt(s, o.key, o.n, o.rec.dig)
      [] o.op = "insertTool" -> MapInsertTool(s, o.task, o.n, o.rec)
      [] o.op = "swapTool" -> MapSwapTool(s, o.task, o.n, o.was, o.rec)
      [] o.op = "deleteEvents" -> MapDeleteEvents(s, o.key)

MemDo(s, o) ==
    CASE o.op = "swapTask" -> MemSwapTask(s, o.task, o.was, o.rec)
      [] o.op = "swapRequest" -> MemSwapRequest(s, o.key, o.was, o.rec)
      [] OTHER -> MapDo(s, o)

StoreDo(s, o) ==
    CASE adapter = "sqlite" -> SqlDo(s, o)
      [] adapter = "file" -> MapDo(s, o)
      [] adapter = "memory" -> MemDo(s, o)

\* one Update callback: the first primitive that is refused (a swap that finds another
\* revision included) fails the transaction
Script(s, ops) ==
    FoldLeft(LAMBDA a, o : IF a.got = "done" THEN StoreDo(a.at, o) ELSE a, Wrote(s), ops)

-----------------------------------------------------------------------------
(* The transactions HumanLLM composes (the list in llm/store.go).  Request *)
(* 2 is streamed: it has a start event and a terminal wire event.          *)

StoreTasks == {1, 2}
StoreRequests == {1, 2}
Streamed(k) == k = 2

NewTask(tier) == [tier |-> tier, aff |-> IF tier = "tools" THEN 1 ELSE 0, codec |-> 1,
                  open |-> TRUE, rev |-> 1]
NewRequest(t, k) == [task |-> t, rid |-> k, codec |-> 1, done |-> FALSE, quar |-> FALSE,
                     seq |-> IF Streamed(k) THEN 1 ELSE 0, rev |-> 1, load |-> k, body |-> 0,
                     pruned |-> 0, made |-> 1, ended |-> 0]
Bump(r) == [r EXCEPT !.rev = @ + 1]

\* a step that is taken only when it is wanted, and one for each record of a set
When(wanted, o) == IF wanted THEN <<o>> ELSE << >>
ForEach(X, o(_)) == FoldSet(LAMBDA x, ops : Append(ops, o(x)), << >>, X)

SwapTask(s, t, next) == Op("swapTask", t, 0, 0, s.tasks[t].rev, next)
SwapRequest(s, k, next) == Op("swapRequest", 0, k, 0, s.requests[k].rev, next)
SwapTool(s, x, next) == Op("swapTool", x[1], 0, x[2], s.tools[x].rev, next)
InsertEvent(k, n, w) == Op("insertEvent", 0, k, n, 0, [wid |-> w, dig |-> w, size |-> 1])

\* admission: the next turn of an open task (its active request superseded when it preempts,
\* its pending tool calls answered) or a new task; the request; its start event
Admission(s, t, k, tier, preempts) ==
    LET old == t \in DOMAIN s.tasks
        active == {j \in DOMAIN s.requests : s.requests[j].task = t /\ ~s.requests[j].done}
        calls == {x \in DOMAIN s.tools : x[1] = t /\ ~s.tools[x].done}
    IN  (IF preempts
         THEN ForEach(active, LAMBDA j : SwapRequest(s, j,
                [Bump(s.requests[j]) EXCEPT !.done = TRUE, !.ended = 1]))
         ELSE << >>)
        \o (IF old THEN <<SwapTask(s, t, Bump(s.tasks[t]))>>
            ELSE <<Op("insertTask", t, 0, 0, 0, NewTask(tier))>>)
        \o ForEach(calls, LAMBDA x : SwapTool(s, x,
                [Bump(s.tools[x]) EXCEPT !.done = TRUE, !.size = 2]))
        \o <<Op("insertRequest", t, k, 0, 0, NewRequest(t, k))>>
        \o When(Streamed(k), InsertEvent(k, 1, 0))

\* a worker event: its tool call, the wire event, the task, the request, the receipt
WorkerEvent(s, k, kind) ==
    LET r == s.requests[k]
        ends == kind # "progress"
    IN  When(kind = "call", Op("insertTool", r.task, 0, k, 0,
                               [dig |-> 1, done |-> FALSE, rev |-> 1, size |-> 0]))
        \o <<InsertEvent(k, r.seq + 1, r.seq + 1)>>
        \o When(ends, SwapTask(s, r.task, [Bump(s.tasks[r.task]) EXCEPT !.open = kind = "call"]))
        \o <<SwapRequest(s, k, [Bump(r) EXCEPT !.seq = @ + 1, !.done = ends,
                                               !.ended = IF ends THEN 2 ELSE 0,
                                               !.body = IF ends /\ ~Streamed(k) THEN 1 ELSE 0]),
             Op("insertReceipt", 0, k, r.seq + 1, 0, [dig |-> r.seq + 1])>>

\* recovery quarantine of an open request: the task is failed, a stream gets its terminal
\* event, an aggregate its error body
QuarantineScript(s, k) ==
    LET r == s.requests[k]
        open == s.tasks[r.task].open
    IN  When(open, SwapTask(s, r.task, [Bump(s.tasks[r.task]) EXCEPT !.open = FALSE]))
        \o When(Streamed(k), InsertEvent(k, r.seq + 1, 0))
        \o <<SwapRequest(s, k, [Bump(r) EXCEPT !.quar = TRUE, !.done = TRUE, !.ended = 2,
                                               !.seq = @ + (IF Streamed(k) THEN 1 ELSE 0),
                                               !.body = IF Streamed(k) THEN 0 ELSE 1])>>

\* retention: the tombstone, its events, and the tool results of a task that has ended
Retention(s, k) ==
    LET t == s.requests[k].task
        calls == {x \in DOMAIN s.tools : x[1] = t /\ s.tools[x].done /\ ~s.tasks[t].open}
    IN  <<SwapRequest(s, k, [Bump(s.requests[k]) EXCEPT !.pruned = 3, !.load = 0, !.body = 0]),
          Op("deleteEvents", 0, k, 0, 0, [dig |-> 0])>>
        \o ForEach(calls, LAMBDA x : SwapTool(s, x, [Bump(s.tools[x]) EXCEPT !.size = 0]))

Transactions(s) ==
    LET open == {k \in DOMAIN s.requests : ~s.requests[k].done}
    IN  {Admission(s, t, k, tier, preempts) :
            t \in {u \in StoreTasks : u \in DOMAIN s.tasks => s.tasks[u].open},
            k \in StoreRequests \ DOMAIN s.requests, tier \in {"chat", "tools"}, preempts \in BOOLEAN}
        \cup {WorkerEvent(s, k, kind) : k \in open, kind \in {"progress", "call", "end"}}
        \cup {QuarantineScript(s, k) : k \in open}
        \cup {Retention(s, k) : k \in {j \in DOMAIN s.requests \ open : s.requests[j].pruned = 0}}

-----------------------------------------------------------------------------
(* A process and its handle *)

StoreInit ==
    /\ disk = [cur |-> Unbound, firm |-> Unbound]
    /\ opener = [p \in StoreHands |-> ShutHand]
    /\ truth = Unbound
    /\ maybe = {}
    /\ bound = {}
    /\ shaky = FALSE
    /\ \E scene \in StoreScenes : adapter = scene.adapter /\ means = scene.means

\* what a callback of p reads: the file store's own copy, the database or the memory image
Image(p) == IF adapter = "file" THEN opener[p].image ELSE disk.cur

\* the commits p may ask for: a transaction that succeeds, or the first binding
Commits(p) ==
    LET s == Image(p).records
    IN  {[to |-> [Image(p) EXCEPT !.records = Script(s, ops).at], asks |-> 0] :
            ops \in {x \in Transactions(s) : Script(s, x).got = "done"}}
        \cup (IF Image(p).binding # 0 THEN {}
              ELSE {[to |-> [Image(p) EXCEPT !.binding = d], asks |-> d] : d \in means.deployments})

InFlight == {opener[p].next : p \in {q \in StoreHands : opener[q].phase \in {"sealed", "renamed"}}}

StoreFault == means.faults > 0 /\ means' = [means EXCEPT !.faults = @ - 1]

\* an update or a bind that is answered nil
StoreAnswered(c) ==
    /\ truth' = c.to
    /\ maybe' = {}
    /\ bound' = bound \cup ({c.asks} \ {0})

\* one that is answered StoreCommitUnknownError, or never
Doubt(images) == maybe' = maybe \cup images /\ UNCHANGED <<truth, bound>>

\* acquirePath and ownerlock.Acquire: one handle per file; the memory image has no owner
PathFree == adapter = "memory" \/ \A p \in StoreHands : opener[p].phase = "closed"

\* Open: the lock, then the snapshot, which must load
OpenStore(p) ==
    /\ opener[p].phase = "closed"
    /\ p \in means.hands
    /\ PathFree
    /\ adapter = "file" => LoadSnapshot(disk.cur.records).got = "done"
    /\ opener' = [opener EXCEPT ![p] = [ShutHand EXCEPT !.phase = "idle", !.image = disk.cur]]
    /\ shaky' = (shaky \/ disk.cur # disk.firm)
    /\ UNCHANGED <<adapter, disk, truth, maybe, bound, means>>

\* the resource's release: a commit under way keeps the handle's mutex, so it ends first
ReleaseStore(p) ==
    /\ opener[p].phase \in {"idle", "poisoned"}
    /\ opener' = [opener EXCEPT ![p] = ShutHand]
    /\ UNCHANGED <<adapter, disk, truth, maybe, bound, shaky, means>>

\* Bind repeated: the exact binding is answered nil without a commit
BindAgain(p) ==
    /\ opener[p].phase = "idle"
    /\ Image(p).binding \notin bound \cup {0}
    /\ bound' = bound \cup {Image(p).binding}
    /\ UNCHANGED <<adapter, disk, opener, truth, maybe, shaky, means>>

Spends == means.updates > 0 /\ means' = [means EXCEPT !.updates = @ - 1]

\* Update and Bind of the SQLite adapter and of the memory store: one transaction
UpdateStore(p, c) ==
    /\ adapter \in {"sqlite", "memory"}
    /\ opener[p].phase = "idle"
    /\ Spends
    /\ disk' = [cur |-> c.to, firm |-> c.to]
    /\ StoreAnswered(c)
    /\ UNCHANGED <<adapter, opener, shaky>>

\* a COMMIT of the SQLite adapter that answers with an error: it took effect or not
UpdateUnknown(p, c) ==
    /\ adapter = "sqlite"
    /\ opener[p].phase = "idle"
    /\ StoreFault
    /\ disk' \in {disk, [cur |-> c.to, firm |-> c.to]}
    /\ Doubt({c.to})
    /\ UNCHANGED <<adapter, opener, shaky>>

\* commit and replaceSnapshot of the file store, up to the synced temporary file
SealSnapshot(p, c) ==
    /\ adapter = "file"
    /\ opener[p].phase = "idle"
    /\ Spends
    /\ opener' = [opener EXCEPT ![p] = [@ EXCEPT !.phase = "sealed", !.next = c.to, !.asks = c.asks]]
    /\ UNCHANGED <<adapter, disk, truth, maybe, bound, shaky>>

\* replaceSnapshot fails before the rename: an ordinary error, nothing was committed
SealFails(p) ==
    /\ opener[p].phase = "sealed"
    /\ StoreFault
    /\ opener' = [opener EXCEPT ![p].phase = "idle"]
    /\ UNCHANGED <<adapter, disk, truth, maybe, bound, shaky>>

\* the rename: readers find the new image, a power loss may still undo it
RenameSnapshot(p) ==
    /\ opener[p].phase = "sealed"
    /\ disk' = [disk EXCEPT !.cur = opener[p].next]
    /\ opener' = [opener EXCEPT ![p].phase = "renamed"]
    /\ UNCHANGED <<adapter, truth, maybe, bound, shaky, means>>

\* the directory is synced: the handle takes the image and answers
SyncDirectory(p) ==
    /\ opener[p].phase = "renamed"
    /\ disk' = [disk EXCEPT !.firm = disk.cur]
    /\ opener' = [opener EXCEPT ![p] = [@ EXCEPT !.phase = "idle", !.image = opener[p].next]]
    /\ StoreAnswered([to |-> opener[p].next, asks |-> opener[p].asks])
    /\ UNCHANGED <<adapter, shaky, means>>

\* mutant: a failed sync is an ordinary failure and the handle stays in use
SyncFailsPlainly(p) ==
    /\ opener[p].phase = "renamed"
    /\ StoreFault
    /\ opener' = [opener EXCEPT ![p].phase = "idle"]
    /\ UNCHANGED <<adapter, disk, truth, maybe, bound, shaky>>

\* the sync fails: the outcome is unknown and the handle is poisoned
SyncFails(p) ==
    /\ opener[p].phase = "renamed"
    /\ StoreFault
    /\ opener' = [opener EXCEPT ![p].phase = "poisoned"]
    /\ Doubt({opener[p].next})
    /\ UNCHANGED <<adapter, disk, shaky>>

\* a process dies (MemoryLLMStoreImage.Abandon for the memory model)
ProcessExit(p) ==
    /\ opener[p].phase # "closed"
    /\ StoreFault
    /\ opener' = [opener EXCEPT ![p] = ShutHand]
    /\ Doubt(IF opener[p].phase \in {"sealed", "renamed"} THEN {opener[p].next} ELSE {})
    /\ UNCHANGED <<adapter, disk, bound, shaky>>

\* the machine loses power
PowerLoss ==
    /\ adapter # "memory"
    /\ StoreFault
    /\ \E left \in {disk.cur, disk.firm} : disk' = [cur |-> left, firm |-> left]
    /\ opener' = [p \in StoreHands |-> ShutHand]
    /\ Doubt(InFlight)
    /\ UNCHANGED <<adapter, bound, shaky>>

StoreNext ==
    \/ \E p \in StoreHands :
         \/ OpenStore(p)
         \/ ReleaseStore(p)
         \/ BindAgain(p)
         \/ SealFails(p)
         \/ RenameSnapshot(p)
         \/ SyncDirectory(p)
         \/ SyncFails(p)
         \/ ProcessExit(p)
         \/ opener[p].phase = "idle" /\ \E c \in Commits(p) :
              UpdateStore(p, c) \/ UpdateUnknown(p, c) \/ SealSnapshot(p, c)
    \/ PowerLoss

StoreSpec == StoreInit /\ [][StoreNext]_storeVars

-----------------------------------------------------------------------------
(* Properties *)

\* What a Store answered is what is there: the image on disk, the one a power loss would
\* leave and the one a live handle reads are each the image of the last update answered
\* nil, or one whose commit is under way, was answered "unknown" or was cut off.  An
\* update answered with an ordinary error is never among them (llm/store.go: "A definite
\* commit failure returns an ordinary error and guarantees no commit").
AnswersAreDurable ==
    ({disk.cur, disk.firm} \cup {Image(p) : p \in {q \in StoreHands : opener[q].phase = "idle"}})
        \subseteq {truth} \cup maybe \cup InFlight

\* Whatever image the file store can find after a crash loads, and loads as it was
\* written: every record passes its own Insert again, in key order, and the heads cover
\* the events (payloadState, validateLoadedRelationships).
ImagesReopen ==
    adapter = "file" =>
        \A i \in {disk.cur, disk.firm} : LoadSnapshot(i.records) = Wrote(i.records)

\* Bind assigns a Store to one deployment for good: two deployments are never both
\* answered nil, across unknown commits and crashes.  A file store that was opened on an
\* image whose directory entry was not yet synced is excluded: BindAgain answers from it,
\* and a power loss can still undo it (README, section 6).
OneDeployment == shaky \/ Cardinality(bound) <= 1

-----------------------------------------------------------------------------
(* The three adapters side by side, in every state a behaviour over the    *)
(* memory model reaches: the other adapters' add only crashes              *)

\* the records at hand, and as they are when their receipts are lost (quarantineRecovery
\* expects that much damage)
Examined == LET s == disk.cur.records IN {s, [s EXCEPT !.receipts = << >>]}

Compared == adapter = "memory" /\ \E p \in StoreHands : opener[p].phase = "idle"

\* one page of a scan, by adapter
StoreScan(a, scan, s, after, n, max) ==
    CASE scan = "events" -> IF a = "sqlite" THEN SqlScanEvents(s, 1, after, n, max)
                            ELSE MapScanEvents(s, 1, after, n, max)
      [] scan = "tools" -> IF a = "sqlite" THEN SqlScanTools(s, 1, after, n, max)
                           ELSE MapScanTools(s, 1, after, n, max)
      [] scan = "recovery" -> IF a = "sqlite" THEN SqlScanRecovery(s, after, n, max)
                              ELSE MapScanRecovery(s, after, n, max)
      [] scan = "retention" -> IF a = "sqlite" THEN SqlScanRetention(s, 2, after, n)
                               ELSE MapScanRetention(s, 2, after, n)

Scans == {"events", "tools", "recovery", "retention"}
Cursors == {<<0, 0>>, <<1, 1>>, <<1, 2>>, <<2, 1>>}

\* a caller's walk: page after page, each from the last row's cursor
RECURSIVE Walk(_, _, _, _, _, _)
Walk(a, scan, s, after, n, max) ==
    LET page == StoreScan(a, scan, s, after, n, max)
    IN  IF page = << >> \/ page = TooLarge THEN page
        ELSE page \o Walk(a, scan, s, page[Len(page)].at, n, max)

\* the requests whose worker events are not all answered
Unsettled(s, k) ==
    \E x \in DOMAIN s.events :
        x[1] = k /\ s.events[x].wid # 0 /\ <<k, s.events[x].wid>> \notin DOMAIN s.receipts

\* what a walk is for
Sought(scan, s) ==
    CASE scan = "events" -> {<<0, x[2]>> : x \in {y \in DOMAIN s.events : y[1] = 1}}
      [] scan = "tools" -> {<<0, x[2]>> : x \in {y \in DOMAIN s.tools : y[1] = 1}}
      [] scan = "recovery" -> {<<1, k>> : k \in {j \in DOMAIN s.requests :
              ~s.requests[j].quar /\ (s.requests[j].done => Unsettled(s, j))}}
      [] scan = "retention" -> {<<s.requests[k].ended, k>> : k \in {j \in DOMAIN s.requests :
              s.requests[j].done /\ s.requests[j].pruned = 0}}

\* A walk by cursor with the smallest pages and byte budgets that hold one record returns
\* every record sought once, in order: no event is lost to a reader, no request is left out
\* of recovery or of retention because two share a time (ScanRecovery, ScanRetention).
PagesComplete ==
    Compared => \A s \in Examined, a \in {"sqlite", "memory"}, scan \in Scans, n \in 1..2,
                   max \in {3, 9} :
        LET rows == Walk(a, scan, s, <<0, 0>>, n, max)
        IN  /\ {rows[i].at : i \in DOMAIN rows} = Sought(scan, s)
            /\ \A i, j \in DOMAIN rows : i < j => Earlier(rows[i].at, rows[j].at)

\* primitives a callback could issue in state s: those of the composed transactions, each
\* also against another revision, a skipped one, another identity, a reopened record; and
\* inserts of records that are there or whose parent is not
Variants(o) ==
    {o, [o EXCEPT !.was = @ + 1], [o EXCEPT !.rec.rev = @ + 1]}
    \cup (IF o.op \in {"insertTask", "swapTask"}
          THEN {[o EXCEPT !.rec.codec = 2], [o EXCEPT !.rec.open = TRUE]}
          ELSE IF o.op \in {"insertRequest", "swapRequest"}
          THEN {[o EXCEPT !.rec.codec = 2], [o EXCEPT !.rec.done = FALSE, !.rec.pruned = 0,
                                                      !.rec.ended = 0],
                [o EXCEPT !.rec.seq = 0], [o EXCEPT !.rec.load = 9]}
          ELSE {[o EXCEPT !.rec.dig = 2]})

Probes(s) ==
    LET steps == UNION {{ops[i] : i \in DOMAIN ops} : ops \in Transactions(s)}
        plain == {"insertEvent", "insertReceipt", "deleteEvents"}
        again == {SwapTask(s, t, Bump(s.tasks[t])) : t \in DOMAIN s.tasks}
                 \cup {SwapRequest(s, k, Bump(s.requests[k])) : k \in DOMAIN s.requests}
                 \cup {SwapTool(s, x, Bump(s.tools[x])) : x \in DOMAIN s.tools}
    IN  UNION {Variants(o) : o \in again \cup {x \in steps : x.op \notin plain}}
        \cup {Op("insertTask", t, 0, 0, 0, NewTask("tools")) : t \in StoreTasks}
        \cup {Op("insertRequest", 0, k, 0, 0, NewRequest(t, k)) : t \in StoreTasks, k \in StoreRequests}
        \cup {Op("insertEvent", 0, k, n, 0, [wid |-> w, dig |-> w, size |-> 1]) :
                k \in StoreRequests, n \in 0..2, w \in 0..1}
        \cup {Op("insertReceipt", 0, k, 1, 0, [dig |-> d]) : k \in StoreRequests, d \in 1..2}
        \cup {Op("deleteEvents", 0, k, 0, 0, [dig |-> 0]) : k \in StoreRequests}
        \cup {Op("insertTool", t, 0, 1, 0, [dig |-> 1, done |-> FALSE, rev |-> 1, size |-> 0]) :
                t \in StoreTasks}

\* HumanLLM cannot tell which adapter it runs on: in every state reached, a primitive has
\* the same effect on all three, a compare-and-swap that lost its race is told apart from a
\* refusal by all three, and every load and every page of every scan is the same
\* (llm/store.go: the contract its adapters share).
AdaptersAgree ==
    Compared => \A s \in Examined :
        /\ \A o \in Probes(s) :
             LET a == SqlDo(s, o)
                 b == MapDo(s, o)
                 c == MemDo(s, o)
             IN  a.at = b.at /\ b.at = c.at /\ (a.got = "stale") = (c.got = "stale")
        /\ \A t \in StoreTasks :
             /\ SqlLoadTask(s, t) = MapLoadTask(s, t)
             /\ SqlFindActiveRequest(s, t) = MapFindActiveRequest(s, t)
        /\ \A a \in 0..1 : SqlFindOpenTask(s, a) = MapFindOpenTask(s, a)
        /\ \A k \in StoreRequests :
             /\ SqlLoadRequestHead(s, k) = MapLoadRequestHead(s, k)
             /\ \A w \in 1..2 : SqlLoadReceipt(s, k, w) = MapLoadReceipt(s, k, w)
        /\ \A k \in 1..2, max \in 0..3 :
             /\ SqlLoadRequest(s, k, max) = MapLoadRequest(s, k, max)
             /\ SqlLoadDecision(s, k, max) = MapLoadDecision(s, k, max)
             /\ \A t \in StoreTasks : SqlLoadTool(s, t, k, max) = MapLoadTool(s, t, k, max)
        /\ \A scan \in Scans, at \in Cursors, n \in 1..2, max \in {0, 2} :
             StoreScan("sqlite", scan, s, at, n, max) = StoreScan("file", scan, s, at, n, max)

\* A Store keeps what it answered through every crash: the image is there, it loads again,
\* and the deployment it was bound to stays the same.
StoreIsDurable == AnswersAreDurable /\ ImagesReopen /\ OneDeployment

\* The adapters are one Store to HumanLLM: alike in every operation, complete in every walk.
StoresAgree == AdaptersAgree /\ PagesComplete
=============================================================================
