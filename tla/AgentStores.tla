---------------------------- MODULE AgentStores ----------------------------
(***************************************************************************)
(* The HumanAgent core at work over both adapters of its Store at once:    *)
(* every command writes the same transaction to the SQLite tables and to   *)
(* the in-memory maps, under a wall clock that may be set back.  What      *)
(* agent/storage_test.go checks for one history is checked in every state: *)
(* the core can read back what it wrote, page by page.                     *)
(*                                                                         *)
(*   rows, heap  the two stores                                            *)
(*   replies     what each answered to the last transaction                *)
(*   clock       the host's wall clock                                     *)
(*   agenda      [tasks, kinds, workers, steps, ticks, held]: the bounds;  *)
(*               held is the number of tasks that may be created           *)
(***************************************************************************)
EXTENDS AgentSqliteStore, AgentMapStore

CONSTANTS AgendaScenes

VARIABLES rows, heap, replies, clock, agenda

agendaVars == <<rows, heap, replies, clock, agenda>>

LOCAL INSTANCE SequencesExt
LOCAL INSTANCE FiniteSetsExt

-----------------------------------------------------------------------------
(* The Store port, by adapter: "rows" is agent/sqlite, "heap" humantest *)

Ask(op, t, key, was, lease, rec) ==
    [op |-> op, task |-> t, key |-> key, was |-> was, lease |-> lease, rec |-> rec]

RowDo(s, o) ==
    CASE o.op = "command" -> RowInsertCommand(s, o.key)
      [] o.op = "task" -> RowInsertTask(s, o.task, o.rec)
      [] o.op = "swapTask" -> RowSwapTask(s, o.task, o.was, o.lease, o.rec)
      [] o.op = "message" -> RowInsertMessage(s, o.key, o.rec)
      [] o.op = "event" -> RowInsertEvent(s, o.task, o.key, o.rec)
      [] o.op = "grant" -> RowInsertGrant(s, o.task, o.key, o.rec)
      [] o.op = "artifact" -> RowInsertArtifact(s, o.key, o.rec)
      [] o.op = "swapArtifact" -> RowSwapArtifact(s, o.key, o.task, o.was, o.rec)
      [] o.op = "submission" -> RowInsertSubmission(s, o.task, o.rec)
      [] o.op = "head" -> RowInsertHead(s, o.key, o.rec)
      [] o.op = "swapHead" -> RowSwapHead(s, o.key, o.was, o.rec)
      [] o.op = "receipt" -> RowInsertReceipt(s, o.key, o.rec)

HeapDo(s, o) ==
    CASE o.op = "command" -> HeapInsertCommand(s, o.key)
      [] o.op = "task" -> HeapInsertTask(s, o.task, o.rec)
      [] o.op = "swapTask" -> HeapSwapTask(s, o.task, o.was, o.lease, o.rec)
      [] o.op = "message" -> HeapInsertMessage(s, o.key, o.rec)
      [] o.op = "event" -> HeapInsertEvent(s, o.task, o.key, o.rec)
      [] o.op = "grant" -> HeapInsertGrant(s, o.task, o.key, o.rec)
      [] o.op = "artifact" -> HeapInsertArtifact(s, o.key, o.rec)
      [] o.op = "swapArtifact" -> HeapSwapArtifact(s, o.key, o.task, o.was, o.rec)
      [] o.op = "submission" -> HeapInsertSubmission(s, o.task, o.rec)
      [] o.op = "head" -> HeapInsertHead(s, o.key, o.rec)
      [] o.op = "swapHead" -> HeapSwapHead(s, o.key, o.was, o.rec)
      [] o.op = "receipt" -> HeapInsertReceipt(s, o.key, o.rec)

LoadTask(a, s, t) == IF a = "rows" THEN RowLoadTask(s, t) ELSE HeapLoadTask(s, t)
LatestGrant(a, s, t) == IF a = "rows" THEN RowLatestGrant(s, t) ELSE HeapLatestGrant(s, t)
LoadHead(a, s, w) == IF a = "rows" THEN RowLoadHead(s, w) ELSE HeapLoadHead(s, w)
FindClaimable(a, s) == IF a = "rows" THEN RowFindClaimable(s) ELSE HeapFindClaimable(s)

\* Update: the callback's primitives in order; the first that is refused, a compare-and-swap
\* that finds another record included, rolls the transaction back
Update(a, s, ops) ==
    FoldLeft(LAMBDA x, o : IF x.got # "done" THEN Refused(s, x.got)
                           ELSE IF a = "rows" THEN RowDo(x.at, o) ELSE HeapDo(x.at, o),
             Wrote(s), ops)

-----------------------------------------------------------------------------
(* What each command of the core writes, from what it read *)

\* mutant: a time is taken from the clock as it is
AtLeastNothing(candidate, floor) == candidate

\* timestampAtLeast
AtLeast(candidate, floor) == IF candidate < floor THEN floor ELSE candidate

\* ids: of a task's n-th message, of the next command
MessageId(t, n) == 100 * t[1] + 10 * t[2] + n
CommandId(s) == Cardinality(s.commands) + 1
CommandOp(s) == Ask("command", <<0, 0>>, CommandId(s), 0, << >>, NoSubmission)

MessageOp(t, n, author, now) ==
    Ask("message", t, MessageId(t, n), 0, << >>,
        [task |-> t, seq |-> n, author |-> author, size |-> 1 + (n % 2), at |-> now])
EventOp(t, r, kind, message, submission, artifact) ==
    Ask("event", t, r.evs, 0, << >>,
        [kind |-> kind, state |-> r.state, rev |-> r.rev, msg |-> message, sub |-> submission,
         art |-> artifact, at |-> r.upd])

When2(wanted, o) == IF wanted THEN <<o>> ELSE << >>

\* CreateTask
CreateOps(a, s, t, ctx) ==
    LET r == [ctx |-> ctx, state |-> "submitted", rev |-> 1, msgs |-> 1, evs |-> 1, owner |-> "",
              fence |-> 0, made |-> clock, upd |-> clock, art |-> 0, fate |-> "none",
              sub |-> NoSubmission]
    IN  <<Ask("task", t, 0, 0, << >>, r), MessageOp(t, 1, "caller", clock),
          EventOp(t, r, "task_submitted", MessageId(t, 1), 0, 0), CommandOp(s)>>

\* AcceptTask ... CompleteTask: the states a command is allowed in, the next one, its event,
\* the author of its message, whether a worker's lease authorizes it, and whether it
\* discards the artifact
TaskChange(kind) ==
    LET is(allowed, next, event, author, worker, discards) ==
            [allowed |-> allowed, next |-> next, event |-> event, author |-> author,
             worker |-> worker, discards |-> discards]
        open == {"submitted", "working", "input_required"}
    IN  CASE kind = "accept" -> is({"submitted"}, "working", "task_accepted", "", TRUE, FALSE)
          [] kind = "reject" -> is({"submitted"}, "rejected", "task_rejected", "", TRUE, FALSE)
          [] kind = "ask" -> is({"working"}, "input_required", "input_required", "agent", TRUE, FALSE)
          [] kind = "reply" -> is({"input_required"}, "working", "caller_replied", "caller", FALSE, FALSE)
          [] kind = "cancel" -> is(open, "canceled", "task_canceled", "", FALSE, TRUE)
          [] kind = "fail" -> is(open \ {"submitted"}, "failed", "task_failed", "", TRUE, TRUE)
          [] kind = "complete" -> is({"working"}, "completed", "task_completed", "agent", TRUE, FALSE)

\* what a command does to a frozen artifact: publish it, discard it, or leave it alone
FateOps(t, r, kind, now) ==
    LET ends(state) == Ask("swapArtifact", t, <<t[1], r.art>>, "frozen", << >>,
                           [state |-> state, published |-> IF state = "published" THEN now ELSE 0,
                            discarded |-> IF state = "discarded" THEN now ELSE 0])
    IN  When2(TaskChange(kind).discards /\ r.art # 0, ends("discarded"))
        \o When2(kind = "complete" /\ r.art # 0, ends("published"))

\* transition, from the task it loaded
TransitionOps(a, s, t, kind) ==
    LET r == LoadTask(a, s, t)
        c == TaskChange(kind)
        now == AtLeast(clock, r.upd)
        says == c.author # ""
        n == IF says THEN r.msgs + 1 ELSE r.msgs
        submits == kind = "complete"
        sub == IF submits THEN [id |-> t[2], msg |-> MessageId(t, n), art |-> r.art, at |-> now]
               ELSE r.sub
        next == [r EXCEPT !.state = c.next, !.rev = @ + 1, !.evs = @ + 1, !.msgs = n, !.upd = now,
                          !.sub = sub,
                          !.owner = IF TerminalState(c.next) THEN "" ELSE @,
                          !.fate = IF r.art = 0 THEN @ ELSE IF c.discards THEN "discarded"
                                   ELSE IF submits THEN "published" ELSE @]
    IN  <<Ask("swapTask", t, 0, r.rev, IF c.worker THEN <<r.owner, r.fence>> ELSE << >>, next)>>
        \o When2(says, MessageOp(t, n, c.author, now))
        \o FateOps(t, r, kind, now)
        \o When2(submits, Ask("submission", t, 0, 0, << >>, sub))
        \o <<EventOp(t, next, c.event, IF says THEN MessageId(t, n) ELSE 0,
                     IF submits THEN sub.id ELSE 0, IF submits THEN r.art ELSE 0),
             CommandOp(s)>>

\* AcquireLease, and ClaimLease for the task it selected
LeaseOps(a, s, t, w) ==
    LET r == LoadTask(a, s, t)
        granted == {g[2].at : g \in LatestGrant(a, s, t)}
        now == AtLeast(AtLeast(clock, r.upd), Max({0} \cup granted))
    IN  <<Ask("grant", t, r.fence + 1, 0, << >>, [worker |-> w, at |-> now]),
          Ask("swapTask", t, 0, r.rev, <<r.owner, r.fence>>,
              [r EXCEPT !.owner = w, !.fence = @ + 1]),
          CommandOp(s)>>

\* FenceLease
FenceOps(a, s, t) ==
    LET r == LoadTask(a, s, t)
    IN  <<Ask("swapTask", t, 0, r.rev, <<r.owner, r.fence>>, [r EXCEPT !.owner = ""]), CommandOp(s)>>

\* FreezeArtifact on the confirmed head, or on revision 1 of a workspace without one
FreezeOps(a, s, t) ==
    LET r == LoadTask(a, s, t)
        now == AtLeast(clock, r.upd)
        base == IF LoadHead(a, s, t[1]) = {} THEN 1 ELSE (CHOOSE h \in LoadHead(a, s, t[1]) : TRUE).rev
        next == [r EXCEPT !.rev = @ + 1, !.evs = @ + 1, !.upd = now, !.art = t[2], !.fate = "frozen"]
    IN  <<Ask("head", t, t[1], 0, << >>, [rev |-> base, at |-> now]),
          Ask("artifact", t, <<t[1], t[2]>>, 0, << >>,
              [task |-> t, state |-> "frozen", base |-> base, result |-> 10 * base + t[2],
               frozen |-> now, published |-> 0, discarded |-> 0]),
          Ask("swapTask", t, 0, r.rev, <<r.owner, r.fence>>, next),
          EventOp(t, next, "artifact_frozen", 0, 0, t[2]),
          CommandOp(s)>>

\* RecordApplyReceipt of a published artifact; the same decision again writes only its
\* command
ReceiptOps(a, s, art, decision) ==
    LET r == s.artifacts[art]
        now == AtLeast(AtLeast(clock, r.frozen), r.published)
        new == art \notin DOMAIN s.receipts
    IN  When2(new /\ decision = "success",
              Ask("swapHead", <<0, 0>>, art[1], r.base, << >>, [rev |-> r.result, at |-> now]))
        \o When2(new, Ask("receipt", <<0, 0>>, art, 0, << >>,
                          [id |-> art[2], base |-> r.base, result |-> r.result,
                           decision |-> decision, at |-> now]))
        \o <<CommandOp(s)>>

-----------------------------------------------------------------------------
(* The actions *)

AgendaInit ==
    /\ rows = NoTables
    /\ heap = EmptyHeap
    /\ replies = <<"done", "done">>
    /\ clock = 2
    /\ agenda \in AgendaScenes

\* one transaction, written to both stores; a store that is told apart by its answer ends
\* the comparison
Transact(kind, ops(_, _)) ==
    LET x == Update("rows", rows, ops("rows", rows))
        y == Update("heap", heap, ops("heap", heap))
    IN  /\ replies[1] = replies[2]
        /\ kind \in agenda.kinds
        /\ agenda.steps > 0
        /\ agenda' = [agenda EXCEPT !.steps = @ - 1]
        /\ rows' = x.at
        /\ heap' = y.at
        /\ replies' = <<x.got, y.got>>
        /\ UNCHANGED clock

CreateTaskRow(t) ==
    /\ Cardinality(DOMAIN rows.tasks) < agenda.held
    /\ Transact("create", LAMBDA a, s : CreateOps(a, s, t, (t[2] % 2) + 1))

TransitionRow(t, kind) ==
    /\ t \in DOMAIN rows.tasks
    /\ rows.tasks[t].state \in TaskChange(kind).allowed
    /\ TaskChange(kind).worker => rows.tasks[t].owner # ""
    /\ Transact(kind, LAMBDA a, s : TransitionOps(a, s, t, kind))

AcquireLeaseRow(t, w) ==
    /\ t \in DOMAIN rows.tasks
    /\ rows.tasks[t].owner = "" /\ ~TerminalState(rows.tasks[t].state)
    /\ Transact("acquire", LAMBDA a, s : LeaseOps(a, s, t, w))

\* each store selects the task by its own order
ClaimLeaseRow(w) ==
    /\ FindClaimable("rows", rows) # << >>
    /\ Transact("claim", LAMBDA a, s :
           LET first == FindClaimable(a, s)[1] IN LeaseOps(a, s, <<first[2], first[3]>>, w))

FenceLeaseRow(t) ==
    /\ t \in DOMAIN rows.tasks
    /\ rows.tasks[t].owner # ""
    /\ Transact("fence", LAMBDA a, s : FenceOps(a, s, t))

FreezeArtifactRow(t) ==
    /\ t \in DOMAIN rows.tasks
    /\ rows.tasks[t].state = "working" /\ rows.tasks[t].owner # ""
    /\ RowLoadTask(rows, t).art = 0
    /\ Transact("freeze", LAMBDA a, s : FreezeOps(a, s, t))

RecordReceiptRow(art, decision) ==
    /\ art \in DOMAIN rows.artifacts
    /\ art \in DOMAIN rows.receipts => rows.receipts[art].decision = decision
    /\ rows.artifacts[art].state = "published"
    /\ Transact("receipt", LAMBDA a, s : ReceiptOps(a, s, art, decision))

\* the wall clock moves, forward or back
SetClock(c) ==
    /\ agenda.ticks > 0
    /\ clock' = c
    /\ clock' # clock
    /\ agenda' = [agenda EXCEPT !.ticks = @ - 1]
    /\ UNCHANGED <<rows, heap, replies>>

AgendaNext ==
    \/ \E t \in agenda.tasks :
         \/ CreateTaskRow(t)
         \/ \E kind \in {"accept", "reject", "ask", "reply", "cancel", "fail", "complete"} :
              TransitionRow(t, kind)
         \/ \E w \in agenda.workers : AcquireLeaseRow(t, w)
         \/ FenceLeaseRow(t)
         \/ FreezeArtifactRow(t)
         \/ \E decision \in {"success", "conflict"} : RecordReceiptRow(t, decision)
    \/ \E w \in agenda.workers : ClaimLeaseRow(w)
    \/ \E c \in 1..3 : SetClock(c)

AgendaSpec == AgendaInit /\ [][AgendaNext]_agendaVars

-----------------------------------------------------------------------------
(* How the core reads: what it accepts as valid, and its pages *)

\* validateStoredTask
ValidStoredTask(r) ==
    /\ r.rev > 0 /\ r.msgs > 0 /\ r.rev = r.evs /\ r.msgs <= r.rev /\ r.upd >= r.made
    /\ (r.state = "completed") = (r.sub # NoSubmission)
    /\ r.sub # NoSubmission => r.sub.at = r.upd /\ r.sub.art = r.art

\* validateStoreTaskRecord
ValidTaskRecord(r) ==
    /\ ValidStoredTask(r)
    /\ r.owner # "" => r.fence # 0 /\ ~TerminalState(r.state)
    /\ (r.art = 0) = (r.fate = "none")
    /\ \/ r.fate = "none"
       \/ r.fate = "frozen" /\ r.state \in {"working", "input_required"}
       \/ r.fate = "published" /\ r.state = "completed"
       \/ r.fate = "discarded" /\ r.state \in {"canceled", "failed"}

\* validateStoredMessage, validateStoredEvent
ValidMessage(m) == m.seq > 0 /\ m.author = (IF m.seq % 2 = 1 THEN "caller" ELSE "agent")
ValidEvent(n, e) ==
    /\ n > 0 /\ n = e.rev
    /\ \/ e.kind = "task_submitted" /\ e.state = "submitted"
       \/ e.kind \in {"task_accepted", "caller_replied", "artifact_frozen"} /\ e.state = "working"
       \/ e.kind = "task_rejected" /\ e.state = "rejected"
       \/ e.kind = "input_required" /\ e.state = "input_required"
       \/ e.kind = "task_canceled" /\ e.state = "canceled"
       \/ e.kind = "task_failed" /\ e.state = "failed"
       \/ e.kind = "task_completed" /\ e.state = "completed"
    /\ (e.msg # 0) = (e.kind \in {"task_submitted", "input_required", "caller_replied",
                                  "task_completed"})
    /\ (e.sub # 0) = (e.kind = "task_completed")
    /\ e.kind = "artifact_frozen" => e.art # 0
    /\ e.kind \notin {"artifact_frozen", "task_completed"} => e.art = 0

\* validateLeaseHistoryHeadFromStore: the lease on the task is the last grant of its history
ValidLeaseHead(a, s, t) ==
    LET r == LoadTask(a, s, t)
    IN  IF LatestGrant(a, s, t) = {} THEN r.fence = 0 /\ r.owner = ""
        ELSE \A g \in LatestGrant(a, s, t) :
               g[1] = r.fence /\ g[2].at >= r.made /\ (r.owner # "" => g[2].worker = r.owner)

\* validateStoredArtifactMetadata, loadVerifiedApplyReceipt
ValidArtifact(r) ==
    /\ r.base # r.result
    /\ CASE r.state = "frozen" -> r.published = 0 /\ r.discarded = 0
         [] r.state = "published" -> r.published >= r.frozen /\ r.discarded = 0
         [] r.state = "discarded" -> r.published = 0 /\ r.discarded >= r.frozen
VerifiedReceipt(s, art) ==
    /\ art \in DOMAIN s.artifacts
    /\ LET r == s.artifacts[art]
           c == s.receipts[art]
       IN  /\ ValidArtifact(r) /\ r.state = "published"
           /\ c.base = r.base /\ c.result = r.result /\ c.at >= r.published

\* a page: its items, whether there is more, the cursor for it, and whether the core
\* accepted what the store returned
PageOf(items, more, next, ok) == [items |-> items, more |-> more, next |-> next, ok |-> ok]
CutPage(found, limit, ok) ==
    LET items == SubSeq(found, 1, IF Len(found) > limit THEN limit ELSE Len(found))
    IN  PageOf(items, Len(found) > limit, IF items = << >> THEN << >> ELSE items[Len(items)], ok)

\* ListTasks: one record beyond the limit tells whether there is more
ListTasks(a, s, ctx, after, limit) ==
    LET found == IF a = "rows" THEN RowScanContext(s, ctx, after, limit + 1)
                 ELSE HeapScanContext(s, ctx, after, limit + 1)
    IN  CutPage(found, limit, \A i \in DOMAIN found :
            LET r == LoadTask(a, s, <<found[i][2], found[i][3]>>) IN ValidTaskRecord(r) /\ r.ctx = ctx)

\* ListAuthorityTasks: the core also checks the filter, the cursor and the order
ListAuthorityTasks(a, s, q, after, limit) ==
    LET found == IF a = "rows" THEN RowScanAuthority(s, q, after, limit + 1)
                 ELSE HeapScanAuthority(s, q, after, limit + 1)
        task(i) == LoadTask(a, s, <<found.rows[i][2], found.rows[i][3]>>)
    IN  CutPage(found.rows, limit,
            /\ Len(found.rows) <= limit + 1 /\ found.total >= Len(found.rows)
            /\ \A i \in DOMAIN found.rows :
                 /\ ValidTaskRecord(task(i))
                 /\ q.ctx = 0 \/ task(i).ctx = q.ctx
                 /\ q.state = "" \/ task(i).state = q.state
                 /\ q.since = 0 \/ task(i).upd >= q.since
                 /\ after = << >> \/ Orders(after, found.rows[i])
                 /\ i > 1 => Orders(found.rows[i - 1], found.rows[i]))

\* ListMessages: the sequence has no gap and ends at the task's count; a page cut by the
\* byte budget has more
ListMessages(a, s, t, after, limit, max) ==
    LET found == IF a = "rows" THEN RowScanMessages(s, t, after, limit + 1, max)
                 ELSE HeapScanMessages(s, t, after, limit + 1, max)
        count == LoadTask(a, s, t).msgs
        page == CutPage([i \in DOMAIN found |-> found[i].at[2]], limit, TRUE)
        next == IF page.items = << >> THEN after ELSE page.next
    IN  PageOf(page.items, page.more \/ next < count, next,
            /\ found # TooLarge
            /\ \A i \in DOMAIN page.items : page.items[i] = after + i
            /\ next <= count
            /\ next < count => page.items # << >>)

\* ReadEvents
ReadEvents(a, s, t, after, limit) ==
    LET found == IF a = "rows" THEN RowScanEvents(s, t, after, limit + 1)
                 ELSE HeapScanEvents(s, t, after, limit + 1)
        page == CutPage([i \in DOMAIN found |-> found[i][1]], limit, TRUE)
        next == IF page.items = << >> THEN after ELSE page.next
    IN  PageOf(page.items, page.more, next,
            /\ \A i \in DOMAIN page.items : page.items[i] = after + i
                                            /\ ValidEvent(after + i, s.events[<<t, after + i>>])
            /\ ~page.more => next = LoadTask(a, s, t).evs)

\* ListLeases: what the scan returned is the current lease of a valid task
ListLeases(a, s, w, after, limit) ==
    LET found == IF a = "rows" THEN RowScanLeases(s, w, after, limit + 1)
                 ELSE HeapScanLeases(s, w, after, limit + 1)
    IN  IF found = <<"corrupt">> THEN PageOf(<< >>, FALSE, << >>, FALSE)
        ELSE CutPage(found, limit, \A i \in DOMAIN found :
                LET t == <<found[i][2], found[i][3]>>
                    r == LoadTask(a, s, t)
                IN  /\ ValidTaskRecord(r) /\ ~TerminalState(r.state)
                    /\ found[i][1] >= r.made
                    /\ r.owner = w /\ r.fence = found[i][4])

\* a caller's walk: page after page from the cursor it was given
RECURSIVE Pages(_, _)
Pages(page(_), after) ==
    LET p == page(after)
    IN  IF ~p.ok THEN <<"corrupt">>
        ELSE IF ~p.more THEN p.items
        ELSE p.items \o Pages(page, p.next)

-----------------------------------------------------------------------------
(* Properties *)

\* The stores, as the port shows them
Shown(a, s) ==
    [tasks |-> [t \in DOMAIN s.tasks |-> LoadTask(a, s, t)],
     heads |-> [w \in DOMAIN s.heads |-> LoadHead(a, s, w)],
     rest |-> <<s.commands, s.messages, s.events, s.grants, s.artifacts, s.submissions, s.receipts>>]

Queries == {[ctx |-> 0, state |-> "", since |-> 0], [ctx |-> 1, state |-> "", since |-> 0],
            [ctx |-> 0, state |-> "working", since |-> 0], [ctx |-> 0, state |-> "", since |-> 2]}
Items(rowsOf) == {rowsOf[i] : i \in DOMAIN rowsOf}
InStep(seq) == \A i \in 2..Len(seq) : Orders(seq[i - 1], seq[i])

\* The core can always read what it wrote, whatever the wall clock did: every task it loads
\* passes its own checks, its lease is the head of its history, its events and messages are
\* valid, an artifact and its receipt agree (agent/storage_test.go,
\* TestClockRollbackCannotCommitUnreadableState).
StoredStateReadable ==
    \A a \in {"rows", "heap"} :
        LET s == IF a = "rows" THEN rows ELSE heap
        IN  /\ \A t \in DOMAIN s.tasks : ValidTaskRecord(LoadTask(a, s, t)) /\ ValidLeaseHead(a, s, t)
            /\ \A m \in DOMAIN s.messages : ValidMessage(s.messages[m])
            /\ \A x \in DOMAIN s.artifacts : ValidArtifact(s.artifacts[x])
            /\ \A x \in DOMAIN s.receipts : VerifiedReceipt(s, x)

\* The schema's CHECKs and foreign keys never refuse what the core writes, with one
\* exception: a success receipt dated before its workspace's head was created.  The head
\* was created by another task's artifact, whose time is no floor of the receipt's
\* (README, section 6).
SchemaFitsCore ==
    replies[1] = "error" =>
        \E x \in DOMAIN rows.artifacts :
            /\ rows.artifacts[x].state = "published" /\ x \notin DOMAIN rows.receipts
            /\ rows.heads[x[1]].made > clock
            /\ rows.heads[x[1]].made > rows.artifacts[x].published

\* The core cannot tell the adapters apart: they answer every transaction it composes alike,
\* show the same records after it, and choose the same task for a claim.
AgentStoresAgree ==
    rows # NoTables /\ replies[1] # "error" =>
        /\ replies[1] = replies[2]
        /\ Shown("rows", rows) = Shown("heap", heap)
        /\ FindClaimable("rows", rows) = FindClaimable("heap", heap)
        /\ \A q \in Queries : RowScanAuthority(rows, q, << >>, 9) = HeapScanAuthority(heap, q, << >>, 9)
        /\ \A w \in agenda.workers, f \in 0..2, t \in DOMAIN rows.tasks :
             /\ RowScanLeases(rows, w, <<f, t[1], t[2], 1>>, 2) = HeapScanLeases(heap, w, <<f, t[1], t[2], 1>>, 2)
             /\ RowLoadGrant(rows, t, f) = HeapLoadGrant(heap, t, f)
        /\ \A x \in DOMAIN rows.artifacts, max \in 0..1 :
             /\ RowLoadArtifact(rows, x, max) = HeapLoadArtifact(heap, x, max)
             /\ RowLoadReceipt(rows, x) = HeapLoadReceipt(heap, x)
        /\ \A m \in DOMAIN rows.messages \cup {0}, max \in 0..2 :
             RowLoadMessage(rows, m, max) = HeapLoadMessage(heap, m, max)
        /\ \A t \in agenda.tasks, c \in 0..2 :
             /\ RowResolveTask(rows, t[2]) = HeapResolveTask(heap, t[2])
             /\ RowLookupCommand(rows, c, 1) = HeapLookupCommand(heap, c, 1)

\* A walk by cursor with the smallest pages returns every record once and in order, and the
\* core accepts every page: no task is lost to ListTasks or ListAuthorityTasks because two
\* share a time, no message to a byte budget, no lease to a dispatcher that recovers its
\* worker's assignments (ListLeases).
AgentPagesComplete ==
    rows # NoTables => \A a \in {"rows", "heap"}, limit \in 1..2 :
        LET s == IF a = "rows" THEN rows ELSE heap
            whole(walk, wanted) == Items(walk) = wanted /\ InStep(walk)
        IN  /\ \A ctx \in 1..2 :
                 whole(Pages(LAMBDA c : ListTasks(a, s, ctx, c, limit), << >>),
                       {<<s.tasks[t].made, t[1], t[2]>> : t \in {u \in DOMAIN s.tasks : s.tasks[u].ctx = ctx}})
            /\ whole(Pages(LAMBDA c : ListAuthorityTasks(a, s, [ctx |-> 0, state |-> "", since |-> 0], c, limit), << >>),
                     {<<-s.tasks[t].upd, t[1], t[2]>> : t \in DOMAIN s.tasks})
            /\ \A t \in DOMAIN s.tasks :
                 /\ \A max \in {2, 3} : Pages(LAMBDA c : ListMessages(a, s, t, c, limit, max), 0)
                                          = [i \in 1..s.tasks[t].msgs |-> i]
                 /\ Pages(LAMBDA c : ReadEvents(a, s, t, c, limit), 0) = [i \in 1..s.tasks[t].evs |-> i]
            /\ \A w \in agenda.workers :
                 whole(Pages(LAMBDA c : ListLeases(a, s, w, c, limit), << >>),
                       {<<s.grants[<<t, s.tasks[t].fence>>].at, t[1], t[2], s.tasks[t].fence>> :
                          t \in {u \in DOMAIN s.tasks : s.tasks[u].owner = w}})

\* What the core writes fits the schema and passes the core's checks when it is read again,
\* whatever the wall clock did.
StoredStateFits == StoredStateReadable /\ SchemaFitsCore

\* The adapters are one Store to HumanAgent: alike in every transaction, complete in every walk.
AgentStoresMatch == AgentStoresAgree /\ AgentPagesComplete
=============================================================================
