-------------------------- MODULE AgentSqliteStore --------------------------
(***************************************************************************)
(* The primitives of the official SQLite adapter of the HumanAgent Store   *)
(* (agent/sqlite), the constraints of its schema included.  There is one   *)
(* authority.  A task is <<workspace, id>>, an artifact <<workspace, id>>; *)
(* ids and times are numbers because scans order by them (0 is nil).       *)
(* SQLite evaluates a row's CHECKs before its unique indexes and its       *)
(* foreign keys last; a failed CHECK or foreign key answers "error": the   *)
(* adapter returns it untyped.                                             *)
(***************************************************************************)
EXTENDS StoreRecords

LOCAL INSTANCE SequencesExt

NoTables == [commands |-> {}, tasks |-> << >>, messages |-> << >>, events |-> << >>,
             grants |-> << >>, artifacts |-> << >>, submissions |-> << >>,
             heads |-> << >>, receipts |-> << >>]

\* a task without a submission
NoSubmission == [id |-> 0, msg |-> 0, art |-> 0, at |-> 0]

TerminalState(state) == state \in {"completed", "canceled", "rejected", "failed"}

\* the columns of agent_tasks: what LoadTask joins to them is not stored with the task
TaskColumns(r) == [ctx |-> r.ctx, state |-> r.state, rev |-> r.rev, msgs |-> r.msgs,
                   evs |-> r.evs, owner |-> r.owner, fence |-> r.fence, made |-> r.made,
                   upd |-> r.upd]

\* the CHECKs of agent_tasks
RowTaskFits(r) ==
    /\ r.rev > 0 /\ r.msgs > 0 /\ r.rev = r.evs
    /\ r.owner = "" \/ r.fence > 0
    /\ TerminalState(r.state) => r.owner = ""
    /\ r.upd >= r.made

\* the CHECKs of agent_artifacts
RowArtifactFits(a) ==
    /\ a.base # a.result
    /\ CASE a.state = "frozen" -> a.published = 0 /\ a.discarded = 0
         [] a.state = "published" -> a.published >= a.frozen /\ a.discarded = 0
         [] a.state = "discarded" -> a.published = 0 /\ a.discarded >= a.frozen

-----------------------------------------------------------------------------
(* Reads *)

\* loadSQLiteStoreTask: the row, its artifact and its submission, joined
RowLoadTask(s, t) ==
    LET arts == {x \in DOMAIN s.artifacts : x[1] = t[1] /\ s.artifacts[x].task = t}
        art == CHOOSE x \in arts : TRUE
    IN  [ctx |-> s.tasks[t].ctx, state |-> s.tasks[t].state, rev |-> s.tasks[t].rev,
         msgs |-> s.tasks[t].msgs, evs |-> s.tasks[t].evs, owner |-> s.tasks[t].owner,
         fence |-> s.tasks[t].fence, made |-> s.tasks[t].made, upd |-> s.tasks[t].upd,
         art |-> IF arts = {} THEN 0 ELSE art[2],
         fate |-> IF arts = {} THEN "none" ELSE s.artifacts[art].state,
         sub |-> IF t \in DOMAIN s.submissions THEN s.submissions[t] ELSE NoSubmission]

\* ResolveTask
RowResolveTask(s, id) == {t \in DOMAIN s.tasks : t[2] = id}

\* LookupCommand, LoadMessage, LoadArtifact: the bytes fit the reader's budget or are not read
RowBudget(there, size, max) ==
    IF max < 1 THEN "limit" ELSE IF ~there THEN "missing"
    ELSE IF size > max THEN "limit" ELSE "found"
RowLookupCommand(s, c, max) == RowBudget(c \in s.commands, 1, max)
RowLoadMessage(s, m, max) ==
    RowBudget(m \in DOMAIN s.messages,
              IF m \in DOMAIN s.messages THEN s.messages[m].size ELSE 0, max)
RowLoadArtifact(s, a, max) == RowBudget(a \in DOMAIN s.artifacts, 1, max)

\* LoadApplyReceipt, LoadWorkspaceHead, LoadLeaseGrant
RowLoadReceipt(s, a) == {s.receipts[x] : x \in DOMAIN s.receipts \cap {a}}
RowLoadHead(s, w) == {[rev |-> s.heads[x].rev, at |-> s.heads[x].at] : x \in DOMAIN s.heads \cap {w}}
RowLoadGrant(s, t, f) == {s.grants[x] : x \in DOMAIN s.grants \cap {<<t, f>>}}

\* LoadLatestLeaseGrant: ORDER BY fence DESC LIMIT 1
RowLatestGrant(s, t) ==
    LET own == {x \in DOMAIN s.grants : x[1] = t}
    IN  {<<x[2], s.grants[x]>> : x \in {y \in own : \A z \in own : z[2] <= y[2]}}

\* ORDER BY: the first column that differs decides
Orders(a, b) == \E i \in DOMAIN a : a[i] < b[i] /\ \A j \in 1..(i - 1) : a[j] = b[j]
RowSorted(keys) == SetToSortSeq(keys, Orders)

\* LIMIT
RowLimit(rows, n) == SubSeq(rows, 1, IF n < Len(rows) THEN n ELSE Len(rows))

\* FindClaimableTask: the oldest task without an owner that has not ended
RowFindClaimable(s) ==
    LET rows == RowSorted({<<s.tasks[t].made, t[1], t[2]>> : t \in {u \in DOMAIN s.tasks :
                    s.tasks[u].owner = "" /\ ~TerminalState(s.tasks[u].state)}})
    IN  RowLimit(rows, 1)

\* the cursor condition of the scans: created_at > ? OR (created_at = ? AND (workspace_id
\* > ? OR (workspace_id = ? AND task_id > ?))); no cursor is << >>
RowPast(row, after) ==
    \/ after = << >>
    \/ row[1] > after[1]
    \/ /\ row[1] = after[1]
       /\ \/ row[2] > after[2]
          \/ row[2] = after[2] /\ row[3] > after[3]

\* ScanContextTasks
RowScanContext(s, ctx, after, n) ==
    RowLimit(RowSorted({row \in {<<s.tasks[t].made, t[1], t[2]>> :
                t \in {u \in DOMAIN s.tasks : s.tasks[u].ctx = ctx}} : RowPast(row, after)}), n)

\* ScanAuthorityTasks: updated_at DESC, so the time is ordered by its negation; ctx 0,
\* state "" and since 0 filter nothing.  The total is counted before the cursor.
RowScanAuthority(s, q, after, n) ==
    LET wanted == {t \in DOMAIN s.tasks :
                     /\ q.ctx = 0 \/ s.tasks[t].ctx = q.ctx
                     /\ q.state = "" \/ s.tasks[t].state = q.state
                     /\ q.since = 0 \/ s.tasks[t].upd >= q.since}
        rows == {<<-s.tasks[t].upd, t[1], t[2]>> : t \in wanted}
    IN  [rows |-> RowLimit(RowSorted({row \in rows : RowPast(row, after)}), n),
         total |-> Cardinality(wanted)]

\* ScanMessages: rows in sequence until the byte budget is spent; a first row beyond the
\* budget is an error
RowScanMessages(s, t, after, n, max) ==
    LET mine == {m \in DOMAIN s.messages : s.messages[m].task = t /\ s.messages[m].seq > after}
        rows == RowLimit(InOrder({[at |-> <<0, s.messages[m].seq>>, flag |-> FALSE,
                                   size |-> s.messages[m].size] : m \in mine}), n)
        fit == {j \in 0..Len(rows) : Bytes(SubSeq(rows, 1, j)) <= max}
    IN  IF rows # << >> /\ rows[1].size > max THEN TooLarge
        ELSE SubSeq(rows, 1, CHOOSE j \in fit : \A i \in fit : i <= j)

\* ScanEvents
RowScanEvents(s, t, after, n) ==
    RowLimit(RowSorted({<<x[2]>> : x \in {y \in DOMAIN s.events : y[1] = t /\ y[2] > after}}), n)

\* ScanLeases: the history is checked before the cursor is applied; <<"corrupt">> is the
\* answer when a held lease is not the worker's grant
RowScanLeases(s, w, after, n) ==
    LET held == {t \in DOMAIN s.tasks : s.tasks[t].owner = w}
        wrong == {t \in held : \A g \in RowLoadGrant(s, t, s.tasks[t].fence) : g.worker # w}
        rows == {<<s.grants[<<t, s.tasks[t].fence>>].at, t[1], t[2], s.tasks[t].fence>> : t \in held}
    IN  IF wrong # {} THEN <<"corrupt">>
        ELSE RowLimit(RowSorted({row \in rows : after = << >> \/ Orders(after, row)}), n)

-----------------------------------------------------------------------------
(* Writes *)

\* InsertCommand
RowInsertCommand(s, c) ==
    IF c \in s.commands THEN Refused(s, "command_id")
    ELSE Wrote([s EXCEPT !.commands = @ \cup {c}])

\* mutant: a task id is unique in its workspace only
RowInsertTaskPerWorkspace(s, t, r) ==
    IF t \in DOMAIN s.tasks THEN Refused(s, "task_key")
    ELSE Wrote([s EXCEPT !.tasks = Put(@, t, TaskColumns(r))])

\* InsertTask
RowInsertTask(s, t, r) ==
    IF r.art # 0 \/ r.sub # NoSubmission \/ r.fate # "none" THEN Refused(s, "invalid")
    ELSE IF r.owner # "" \/ r.fence # 0 THEN Refused(s, "invalid")
    ELSE IF ~RowTaskFits(r) THEN Refused(s, "error")
    ELSE IF t \in DOMAIN s.tasks THEN Refused(s, "task_key")
    ELSE IF RowResolveTask(s, t[2]) # {} THEN Refused(s, "public_task_id")
    ELSE Wrote([s EXCEPT !.tasks = Put(@, t, TaskColumns(r))])

\* CompareAndSwapTask: was is the expected revision, lease the expected lease or << >>
RowSwapTask(s, t, was, lease, r) ==
    IF was = 0 THEN Refused(s, "invalid")
    ELSE IF t \notin DOMAIN s.tasks THEN Refused(s, "missing")
    ELSE IF s.tasks[t].rev # was THEN Refused(s, "stale")
    ELSE IF lease # << >> /\ lease # <<s.tasks[t].owner, s.tasks[t].fence>>
         THEN Refused(s, "stale")
    ELSE IF s.tasks[t].ctx # r.ctx \/ s.tasks[t].made # r.made THEN Refused(s, "invalid")
    ELSE IF ~RowTaskFits(r) THEN Refused(s, "error")
    ELSE Wrote([s EXCEPT !.tasks[t] = TaskColumns(r)])

\* InsertMessage
RowInsertMessage(s, m, r) ==
    IF r.seq = 0 \/ r.author # (IF r.seq % 2 = 1 THEN "caller" ELSE "agent")
    THEN Refused(s, "error")
    ELSE IF m \in DOMAIN s.messages THEN Refused(s, "message_id")
    ELSE IF \E x \in DOMAIN s.messages : s.messages[x].task = r.task /\ s.messages[x].seq = r.seq
         THEN Refused(s, "message_sequence")
    ELSE IF r.task \notin DOMAIN s.tasks THEN Refused(s, "error")
    ELSE Wrote([s EXCEPT !.messages = Put(@, m, r)])

\* InsertEvent
RowInsertEvent(s, t, n, e) ==
    IF n = 0 \/ n # e.rev THEN Refused(s, "error")
    ELSE IF <<t, n>> \in DOMAIN s.events THEN Refused(s, "event_sequence")
    ELSE IF t \notin DOMAIN s.tasks THEN Refused(s, "error")
    ELSE Wrote([s EXCEPT !.events = Put(@, <<t, n>>, e)])

\* InsertLeaseGrant
RowInsertGrant(s, t, f, g) ==
    IF f = 0 \/ g.worker = "" THEN Refused(s, "error")
    ELSE IF <<t, f>> \in DOMAIN s.grants THEN Refused(s, "lease_fence")
    ELSE IF t \notin DOMAIN s.tasks THEN Refused(s, "error")
    ELSE Wrote([s EXCEPT !.grants = Put(@, <<t, f>>, g)])

\* InsertArtifact
RowInsertArtifact(s, a, r) ==
    IF ~RowArtifactFits(r) THEN Refused(s, "error")
    ELSE IF \E x \in DOMAIN s.artifacts : x[2] = a[2] THEN Refused(s, "artifact_id")
    ELSE IF \E x \in DOMAIN s.artifacts : s.artifacts[x].task = r.task
         THEN Refused(s, "artifact_task")
    ELSE IF r.task \notin DOMAIN s.tasks THEN Refused(s, "error")
    ELSE Wrote([s EXCEPT !.artifacts = Put(@, a, r)])

\* CompareAndSwapArtifact: the row of that task in that state, or nothing
RowSwapArtifact(s, a, t, was, r) ==
    IF t[1] # a[1] THEN Refused(s, "invalid")
    ELSE IF a \notin DOMAIN s.artifacts THEN Refused(s, "stale")
    ELSE LET next == [s.artifacts[a] EXCEPT !.state = r.state, !.published = r.published,
                                            !.discarded = r.discarded]
         IN  IF s.artifacts[a].task # t \/ s.artifacts[a].state # was THEN Refused(s, "stale")
             ELSE IF ~RowArtifactFits(next) THEN Refused(s, "error")
             ELSE Wrote([s EXCEPT !.artifacts[a] = next])

\* InsertSubmission
RowInsertSubmission(s, t, r) ==
    IF t \in DOMAIN s.submissions \/ \E x \in DOMAIN s.submissions : s.submissions[x].id = r.id
    THEN Refused(s, "submission_id")
    ELSE IF \/ t \notin DOMAIN s.tasks
            \/ r.msg \notin DOMAIN s.messages \/ s.messages[r.msg].task # t
            \/ r.art # 0 /\ (<<t[1], r.art>> \notin DOMAIN s.artifacts
                             \/ s.artifacts[<<t[1], r.art>>].task # t)
         THEN Refused(s, "error")
    ELSE Wrote([s EXCEPT !.submissions = Put(@, t, r)])

\* InsertWorkspaceHead: ON CONFLICT DO NOTHING
RowInsertHead(s, w, r) ==
    IF w \in DOMAIN s.heads THEN Wrote(s)
    ELSE Wrote([s EXCEPT !.heads = Put(@, w, [rev |-> r.rev, made |-> r.at, at |-> r.at])])

\* CompareAndSwapWorkspaceHead
RowSwapHead(s, w, was, r) ==
    IF w \notin DOMAIN s.heads THEN Refused(s, "stale")
    ELSE IF s.heads[w].rev # was THEN Refused(s, "stale")
    ELSE IF r.at < s.heads[w].made THEN Refused(s, "error")
    ELSE Wrote([s EXCEPT !.heads[w].rev = r.rev, !.heads[w].at = r.at])

\* InsertApplyReceipt
RowInsertReceipt(s, a, r) ==
    IF a \in DOMAIN s.receipts \/ \E x \in DOMAIN s.receipts : s.receipts[x].id = r.id
    THEN Refused(s, "receipt_id")
    ELSE IF \/ a \notin DOMAIN s.artifacts
            \/ s.artifacts[a].base # r.base \/ s.artifacts[a].result # r.result
         THEN Refused(s, "error")
    ELSE Wrote([s EXCEPT !.receipts = Put(@, a, r)])

=============================================================================
