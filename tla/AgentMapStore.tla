--------------------------- MODULE AgentMapStore ---------------------------
(***************************************************************************)
(* The primitives of the in-memory HumanAgent Store (humantest): maps with *)
(* no schema.  A task record is kept as the core wrote it, its artifact    *)
(* and its submission included, and the head of a workspace has no birth.  *)
(***************************************************************************)
EXTENDS StoreRecords

LOCAL INSTANCE SequencesExt

EmptyHeap == [commands |-> {}, tasks |-> << >>, messages |-> << >>, events |-> << >>,
              grants |-> << >>, artifacts |-> << >>, submissions |-> << >>,
              heads |-> << >>, receipts |-> << >>]

HeapEnded(r) == r.state \in {"completed", "canceled", "rejected", "failed"}

-----------------------------------------------------------------------------
(* Reads *)

\* LoadTask, ResolveTask
HeapLoadTask(s, t) == s.tasks[t]
HeapResolveTask(s, id) == {t \in DOMAIN s.tasks : t[2] = id}

\* LookupCommand, LoadMessage, LoadArtifact
HeapBudget(there, size, max) ==
    CASE max < 1 -> "limit" [] max >= 1 /\ ~there -> "missing"
      [] max >= 1 /\ there -> IF size > max THEN "limit" ELSE "found"
HeapLookupCommand(s, c, max) == HeapBudget(c \in s.commands, 1, max)
HeapLoadMessage(s, m, max) ==
    HeapBudget(m \in DOMAIN s.messages,
               IF m \in DOMAIN s.messages THEN s.messages[m].size ELSE 0, max)
HeapLoadArtifact(s, a, max) == HeapBudget(a \in DOMAIN s.artifacts, 1, max)

\* LoadApplyReceipt, LoadWorkspaceHead, LoadLeaseGrant
HeapLoadReceipt(s, a) == {s.receipts[x] : x \in DOMAIN s.receipts \cap {a}}
HeapLoadHead(s, w) == {s.heads[x] : x \in DOMAIN s.heads \cap {w}}
HeapLoadGrant(s, t, f) == {s.grants[x] : x \in DOMAIN s.grants \cap {<<t, f>>}}

\* LoadLatestLeaseGrant: the highest fence met in a walk over the map
HeapLatestGrant(s, t) ==
    {<<x[2], s.grants[x]>> : x \in {y \in DOMAIN s.grants :
        y[1] = t /\ ~\E z \in DOMAIN s.grants : z[1] = t /\ z[2] > y[2]}}

\* memoryAgentTaskCreatedLess, memoryAgentTaskAfterContextCursor
HeapCreatedLess(a, b) ==
    IF a[1] # b[1] THEN a[1] < b[1] ELSE IF a[2] # b[2] THEN a[2] < b[2] ELSE a[3] < b[3]
HeapPastContext(row, after) == after = << >> \/ HeapCreatedLess(after, row)

\* memoryAgentTaskUpdatedLess, memoryAgentTaskAfterAuthorityCursor, over negated times
HeapUpdatedLess(a, b) ==
    IF a[1] # b[1] THEN -a[1] > -b[1] ELSE IF a[2] # b[2] THEN a[2] < b[2] ELSE a[3] < b[3]
HeapPastAuthority(row, after) ==
    \/ after = << >>
    \/ IF row[1] # after[1] THEN -row[1] < -after[1]
       ELSE IF row[2] # after[2] THEN row[2] > after[2] ELSE row[3] > after[3]

\* memoryAgentLeaseLess, memoryAgentLeaseAfterCursor
HeapLeaseLess(a, b) ==
    IF a[1] # b[1] THEN a[1] < b[1] ELSE IF a[2] # b[2] THEN a[2] < b[2]
    ELSE IF a[3] # b[3] THEN a[3] < b[3] ELSE a[4] < b[4]
HeapPastLease(row, after) == after = << >> \/ HeapLeaseLess(after, row)

HeapFirst(list, n) == SubSeq(list, 1, IF Len(list) > n THEN n ELSE Len(list))

\* FindClaimableTask
HeapFindClaimable(s) ==
    HeapFirst(SetToSortSeq({<<s.tasks[t].made, t[1], t[2]>> : t \in {u \in DOMAIN s.tasks :
                  s.tasks[u].owner = "" /\ ~HeapEnded(s.tasks[u])}}, HeapCreatedLess), 1)

\* ScanContextTasks
HeapScanContext(s, ctx, after, n) ==
    LET mine == {t \in DOMAIN s.tasks : s.tasks[t].ctx = ctx}
        list == {row \in {<<s.tasks[t].made, t[1], t[2]>> : t \in mine} : HeapPastContext(row, after)}
    IN  HeapFirst(SetToSortSeq(list, HeapCreatedLess), n)

\* ScanAuthorityTasks: filtered, sorted, counted; the page is what follows the cursor
HeapScanAuthority(s, q, after, n) ==
    LET filtered == {t \in DOMAIN s.tasks : ~\/ q.ctx # 0 /\ s.tasks[t].ctx # q.ctx
                                             \/ q.state # "" /\ s.tasks[t].state # q.state
                                             \/ q.since # 0 /\ s.tasks[t].upd < q.since}
        sorted == SetToSortSeq({<<-s.tasks[t].upd, t[1], t[2]>> : t \in filtered}, HeapUpdatedLess)
    IN  [rows |-> HeapFirst(SelectSeq(sorted, LAMBDA row : HeapPastAuthority(row, after)), n),
         total |-> Len(sorted)]

\* ScanMessages: the items are limited first, then the bytes
HeapScanMessages(s, t, after, n, max) ==
    LET mine == {m \in DOMAIN s.messages : s.messages[m].task = t /\ s.messages[m].seq > after}
        list == HeapFirst(InOrder({[at |-> <<0, s.messages[m].seq>>, flag |-> FALSE,
                                    size |-> s.messages[m].size] : m \in mine}), n)
        fit == {j \in 0..Len(list) : Bytes(SubSeq(list, 1, j)) <= max}
    IN  IF list # << >> /\ list[1].size > max THEN TooLarge
        ELSE SubSeq(list, 1, CHOOSE j \in fit : j + 1 \notin fit)

\* ScanEvents
HeapScanEvents(s, t, after, n) ==
    HeapFirst(SetToSortSeq({<<x[2]>> : x \in {y \in DOMAIN s.events : y[1] = t /\ y[2] > after}},
                           LAMBDA a, b : a[1] < b[1]), n)

\* ScanLeases: a held lease without its grant is met before any cursor
HeapScanLeases(s, w, after, n) ==
    LET held == {t \in DOMAIN s.tasks : s.tasks[t].owner = w}
        granted(t) == \E g \in HeapLoadGrant(s, t, s.tasks[t].fence) : g.worker = w
        row(t) == <<s.grants[<<t, s.tasks[t].fence>>].at, t[1], t[2], s.tasks[t].fence>>
    IN  IF \E t \in held : ~granted(t) THEN <<"corrupt">>
        ELSE HeapFirst(SetToSortSeq({r \in {row(t) : t \in held} : HeapPastLease(r, after)},
                                    HeapLeaseLess), n)

-----------------------------------------------------------------------------
(* Writes *)

\* InsertCommand
HeapInsertCommand(s, c) ==
    IF c \in s.commands THEN Refused(s, "command_id")
    ELSE Wrote([s EXCEPT !.commands = @ \cup {c}])

\* InsertTask
HeapInsertTask(s, t, r) ==
    IF t \in DOMAIN s.tasks THEN Refused(s, "task_key")
    ELSE IF \E u \in DOMAIN s.tasks : u[2] = t[2] THEN Refused(s, "public_task_id")
    ELSE Wrote([s EXCEPT !.tasks = Put(@, t, r)])

\* CompareAndSwapTask
HeapSwapTask(s, t, was, lease, r) ==
    IF t \notin DOMAIN s.tasks THEN Refused(s, "missing")
    ELSE IF was = 0 THEN Refused(s, "invalid")
    ELSE IF \/ s.tasks[t].rev # was
            \/ lease # << >> /\ lease # <<s.tasks[t].owner, s.tasks[t].fence>>
         THEN Refused(s, "stale")
    ELSE IF s.tasks[t].ctx # r.ctx \/ s.tasks[t].made # r.made THEN Refused(s, "invalid")
    ELSE Wrote([s EXCEPT !.tasks[t] = r])

\* InsertMessage
HeapInsertMessage(s, m, r) ==
    IF m \in DOMAIN s.messages THEN Refused(s, "message_id")
    ELSE IF \E x \in DOMAIN s.messages : s.messages[x].task = r.task /\ s.messages[x].seq = r.seq
         THEN Refused(s, "message_sequence")
    ELSE Wrote([s EXCEPT !.messages = Put(@, m, r)])

\* InsertEvent, InsertLeaseGrant
HeapInsertEvent(s, t, n, e) ==
    IF <<t, n>> \in DOMAIN s.events THEN Refused(s, "event_sequence")
    ELSE Wrote([s EXCEPT !.events = Put(@, <<t, n>>, e)])
HeapInsertGrant(s, t, f, g) ==
    IF <<t, f>> \in DOMAIN s.grants THEN Refused(s, "lease_fence")
    ELSE Wrote([s EXCEPT !.grants = Put(@, <<t, f>>, g)])

\* InsertArtifact
HeapInsertArtifact(s, a, r) ==
    IF \E x \in DOMAIN s.artifacts : x[2] = a[2] THEN Refused(s, "artifact_id")
    ELSE IF \E x \in DOMAIN s.artifacts : s.artifacts[x].task = r.task
         THEN Refused(s, "artifact_task")
    ELSE Wrote([s EXCEPT !.artifacts = Put(@, a, r)])

\* CompareAndSwapArtifact
HeapSwapArtifact(s, a, t, was, r) ==
    IF t[1] # a[1] THEN Refused(s, "invalid")
    ELSE IF ~\E x \in DOMAIN s.artifacts : x = a /\ s.artifacts[x].task = t /\ s.artifacts[x].state = was
         THEN Refused(s, "stale")
    ELSE Wrote([s EXCEPT !.artifacts[a].state = r.state, !.artifacts[a].published = r.published,
                         !.artifacts[a].discarded = r.discarded])

\* InsertSubmission
HeapInsertSubmission(s, t, r) ==
    IF t \in DOMAIN s.submissions \/ \E x \in DOMAIN s.submissions : s.submissions[x].id = r.id
    THEN Refused(s, "submission_id")
    ELSE Wrote([s EXCEPT !.submissions = Put(@, t, r)])

\* InsertWorkspaceHead, CompareAndSwapWorkspaceHead
HeapInsertHead(s, w, r) ==
    IF w \in DOMAIN s.heads THEN Wrote(s) ELSE Wrote([s EXCEPT !.heads = Put(@, w, r)])
HeapSwapHead(s, w, was, r) ==
    IF ~\E x \in DOMAIN s.heads : x = w /\ s.heads[x].rev = was THEN Refused(s, "stale")
    ELSE Wrote([s EXCEPT !.heads[w] = r])

\* InsertApplyReceipt
HeapInsertReceipt(s, a, r) ==
    IF a \in DOMAIN s.receipts \/ \E x \in DOMAIN s.receipts : s.receipts[x].id = r.id
    THEN Refused(s, "receipt_id")
    ELSE Wrote([s EXCEPT !.receipts = Put(@, a, r)])

=============================================================================
