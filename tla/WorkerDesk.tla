----------------------------- MODULE WorkerDesk -----------------------------
(* The human's desk: workerkit (inbox, conversations, commands) together with *)
(* the filesystem mirror that offers the human's edits for delivery           *)
(* (workerkit/workerkit.go, workerkit/fsmirror/fsmirror.go).                  *)
(*                                                                            *)
(* The command mutex serialises every command and every handler of the wire   *)
(* loop, so each is one action.  What can come between its durable steps is   *)
(* a step that fails, after which the handler returns, or a crash: a failing  *)
(* step followed by DeskCrash leaves the disk of a crash at that step.        *)
(*                                                                            *)
(* One harness session is shared by all tasks, its workspace holds one path,  *)
(* and a change is identified by that path's reviewed content: changeID       *)
(* hashes the path and the bytes, and a deletion hashes no bytes.             *)
EXTENDS Integers, FiniteSets

CONSTANTS
    DeskTasks,      \* tasks, each a conversation of the human
    DeskTurns,      \* bound on the requests the caller makes in one task
    DeskContents,   \* contents of the path; 0 is the absent file
    DeskParked,     \* MaxParkedContinuations
    DeskRoots,      \* directories the human may work in; 1 is the default
    DeskBudgets     \* bounds: what one behaviour may spend; records of the faults,
                    \* crashes, edits and turns left, the tasks and the directories

VARIABLES
    desk,     \* memory and disk of workerkit
    mirror,   \* memory and disk of fsmirror
    wire,     \* the transport and the service behind it
    tree,     \* the path's content in each directory of the human
    left      \* what is left of the behaviour's budget

deskVars == <<desk, mirror, wire, tree, left>>

NoContent == -1
NoBatch == [before |-> NoContent, after |-> NoContent]
NoTalk == [req |-> <<>>]
DeskRequests == DeskTasks \X (1 .. DeskTurns)
TaskOf(r) == r[1]

Talk(r, phase, batch, path) ==
    [req |-> r, phase |-> phase, batch |-> batch, gone |-> FALSE, path |-> path]

Live(c) == c # NoTalk /\ c.phase # "terminal"

Event(r, type, before, after) ==
    [req |-> r, type |-> type, before |-> before, after |-> after]
Note(r, type) == Event(r, type, NoContent, NoContent)

\* Events that hand the turn back, so that the request is answered.
EndsTurn(e) == e.type # "progress"
Answering(r) == \E e \in wire.outbox : e.req = r /\ EndsTurn(e)

------------------------------------------------------------------------------
(* The mirror.                                                                *)

\* publish: one complete review against the baseline.  A change in flight is
\* hidden while the file still holds the frozen bytes; a deleted file does not.
ReviewOf(m, t) ==
    IF m.root = 0 THEN NoContent
    ELSE LET now == t[m.root]
         IN  IF (m.flight # NoContent /\ now # 0 /\ now = m.flight) \/ now = m.base
             THEN NoContent ELSE now

Publish(m, t) == [m EXCEPT !.review = ReviewOf(m, t), !.stale = FALSE]

NothingInFlight == [c \in DeskContents |-> NoContent]
Saved(m) == [m EXCEPT !.disk = [base |-> m.base, root |-> m.baseRoot]]

\* PrepareSession: bind the session to a directory; a directory other than the
\* one the baseline was taken in reseeds the baseline from its current files.
PrepareSession(m, path, t) ==
    LET bound == IF m.baseRoot = path
                 THEN [m EXCEPT !.root = path]
                 ELSE [m EXCEPT !.root = path, !.baseRoot = path, !.base = t[path],
                                !.flight = NoContent, !.byID = NothingInFlight]
    IN  Publish(Saved(bound), t)

\* A baseline that cannot be written back restores the baseline and the
\* session, not the in-flight records the reseed has cleared.
PrepareFailed(m, path) ==
    IF m.baseRoot = path THEN m
    ELSE [m EXCEPT !.flight = NoContent, !.byID = NothingInFlight, !.review = NoContent]

\* Resolve: freeze the file's current bytes under the reviewed change's id.
Frozen(id) == IF id = 0 THEN 0 ELSE tree[mirror.root]
Resolve(m, id, bytes, t) ==
    Publish([m EXCEPT !.byID[id] = bytes, !.flight = bytes], t)

Release(m, id) == [m EXCEPT !.flight = NoContent, !.byID[id] = NoContent]

Cancel(m, id, t) ==
    Publish(IF m.byID[id] = NoContent THEN m ELSE Release(m, id), t)

\* Settle(Delivered): the baseline takes the frozen bytes of a batch still in
\* flight; an id no longer known is the repeat of a settled batch.
SettleDelivered(m, id, t) ==
    Publish(Saved(IF m.byID[id] = NoContent THEN m
                  ELSE [Release(m, id) EXCEPT !.base = m.byID[id]]), t)

\* Settle(Discarded): the baseline takes the file as it is now.
SettleDiscarded(m, id, t) ==
    Publish(Saved(IF m.byID[id] = NoContent /\ m.review # id THEN m
                  ELSE [Release(m, id) EXCEPT !.base = t[m.root]]), t)

------------------------------------------------------------------------------
(* The wire loop: assignments, rejections and notices.                        *)

Fault == left.faults > 0
SpendIf(failed) == left' = [left EXCEPT !.faults = @ - (IF failed THEN 1 ELSE 0)]
Outcome(steps) == {"ok"} \cup (IF Fault THEN steps ELSE {})

Confirm(w, r) == [w EXCEPT !.confirmed = @ \cup {r}]
ConfirmUnless(w, r, failed) == IF failed THEN w ELSE Confirm(w, r)
Taken(r) == [wire EXCEPT !.offered = @ \ {r}]

\* Records that an assignment is taken up although it was answered before.
TakenUp(w, r) ==
    [w EXCEPT !.late = IF r \in wire.open /\ ~Answering(r) THEN @ ELSE @ \cup {r}]
Keep(d, c) == [d EXCEPT !.talk[TaskOf(c.req)] = c, !.saved[TaskOf(c.req)] = c]
DeleteConversation(d, t) == [d EXCEPT !.saved[t] = NoTalk]
DropInbox(d, r) == [d EXCEPT !.inbox = @ \ {r}]

\* resumeInto: the continuation replaces the assignment and ends the parked
\* batch; the mirror settles it only when every call came back successfully.
Resumed(c, r) == Talk(r, "active", NoContent, c.path)
\* mutant: a call without a result counts as successful
EarnedByAnswer(c, r) ==
    IF c.batch = NoContent THEN "nothing"
    ELSE IF wire.result[r] # "error" THEN "settle" ELSE "retry"

Earned(c, r) ==
    IF c.batch = NoContent THEN "nothing"
    ELSE IF wire.result[r] = "ok" THEN "settle" ELSE "retry"

Resume(r, c, fail) ==
    LET ready == PrepareSession(mirror, c.path, tree)
        kept == Keep(desk, Resumed(c, r))
    IN  /\ fail \in Outcome({"prepare", "save", "confirm"})
        /\ SpendIf(fail # "ok")
        /\ desk' = IF fail \in {"prepare", "save"} THEN desk ELSE kept
        /\ wire' = IF fail \in {"prepare", "save"} THEN Taken(r)
                   ELSE ConfirmUnless(TakenUp(Taken(r), r), r, fail = "confirm")
        /\ mirror' = CASE fail = "prepare" -> PrepareFailed(mirror, c.path)
                       [] fail = "save" -> ready
                       [] Earned(c, r) = "settle" -> SettleDelivered(ready, c.batch, tree)
                       [] Earned(c, r) = "retry" -> Cancel(ready, c.batch, tree)
                       [] OTHER -> ready

\* autoFinal: confirm, then send; a failure falls back to the inbox.
AutoFinal(r, fail) ==
    /\ wire.kind = "connection"
    /\ fail \in Outcome({"confirm", "send"})
    /\ SpendIf(fail # "ok")
    /\ LET sure == ConfirmUnless(Taken(r), r, fail = "confirm")
       IN  wire' = IF fail = "ok"
                   THEN [sure EXCEPT !.outbox = @ \cup {Note(r, "final")}]
                   ELSE sure
    /\ desk' = IF fail = "ok" THEN desk ELSE [desk EXCEPT !.inbox = @ \cup {r}]
    /\ UNCHANGED mirror

\* The channel presents a task's assignments in order, and each once to a
\* process: the test for one that waits in the inbox already never applies.
HandleAssignment(r) ==
    /\ r \in wire.offered
    /\ \A q \in wire.offered : TaskOf(q) = TaskOf(r) => r[2] <= q[2]
    /\ UNCHANGED tree
    /\ LET c == desk.talk[TaskOf(r)] IN
       \/ /\ Live(c) /\ c.req = r
          /\ \E fail \in Outcome({"confirm"}) :
                /\ wire' = ConfirmUnless(Taken(r), r, fail = "confirm")
                /\ SpendIf(fail # "ok")
          /\ UNCHANGED <<desk, mirror>>
       \/ /\ Live(c) /\ c.req # r
          /\ \E fail \in {"ok", "prepare", "save", "confirm"} : Resume(r, c, fail)
       \/ /\ ~Live(c)
          /\ \/ \E fail \in {"ok", "confirm", "send"} : AutoFinal(r, fail)
             \/ /\ desk' = [desk EXCEPT !.inbox = @ \cup {r}]
                /\ wire' = Taken(r)
                /\ UNCHANGED <<mirror, left>>

\* mutant: a rejection is matched by task only
RejectionHitsTask(n) == desk.talk[TaskOf(n.req)] # NoTalk

\* handleRejection: only the exact current request is affected.  A definitive
\* NACK ends the conversation, any other returns it to the human.
RejectionHits(n) == desk.talk[TaskOf(n.req)] # NoTalk /\ desk.talk[TaskOf(n.req)].req = n.req
HandleRejection(n) ==
    /\ n \in wire.nacks
    /\ UNCHANGED <<mirror, tree>>
    /\ \/ /\ ~RejectionHits(n)
          /\ wire' = [wire EXCEPT !.nacks = @ \ {n}]
          /\ UNCHANGED <<desk, left>>
       \/ /\ RejectionHits(n)
          /\ \E fail \in Outcome({"save"}) :
                LET t == TaskOf(n.req)
                    c == [desk.talk[t] EXCEPT
                            !.phase = IF n.code = "closed" THEN "terminal" ELSE "active",
                            !.batch = NoContent]
                IN  /\ desk' = IF fail = "ok" THEN Keep(desk, c)
                               ELSE [desk EXCEPT !.talk[t] = c]
                    \* unconfirmed, the client's journal presents it again after a restart
                    /\ wire' = [wire EXCEPT !.nacks = @ \ {n},
                                            !.replay = IF fail = "ok" THEN @ ELSE @ \cup {n}]
                    /\ SpendIf(fail # "ok")

\* addAlert: a caller that left marks the conversation, an expired request
\* leaves the inbox and ends the conversation; published only once saved.
HandleNotice(n) ==
    /\ n \in wire.notices
    /\ UNCHANGED <<mirror, tree>>
    /\ wire' = [wire EXCEPT !.notices = @ \ {n}]
    /\ \E fail \in Outcome({"save"}) :
          LET t == TaskOf(n.req)
              c == desk.talk[t]
              d == IF n.code = "request_expired" THEN DropInbox(desk, n.req) ELSE desk
              told == IF n.code = "caller_gone" THEN [c EXCEPT !.gone = TRUE]
                      ELSE [c EXCEPT !.phase = "terminal", !.gone = FALSE, !.batch = NoContent]
          IN  /\ desk' = IF Live(c) /\ c.req = n.req /\ fail = "ok" THEN Keep(d, told) ELSE d
              /\ SpendIf(fail # "ok")

------------------------------------------------------------------------------
(* The human's commands.                                                      *)

\* mutant: the assignment is confirmed before the conversation is saved
AcceptConfirmsFirst(r) ==
    /\ r \in desk.inbox
    /\ UNCHANGED tree
    /\ \E fail \in Outcome({"save"}) :
          /\ SpendIf(fail # "ok")
          /\ mirror' = PrepareSession(mirror, 1, tree)
          /\ desk' = IF fail = "ok" THEN DropInbox(Keep(desk, Talk(r, "active", NoContent, 1)), r)
                     ELSE desk
          /\ wire' = Confirm(wire, r)

\* Accept: save, confirm, publish.  A failed confirmation leaves the saved
\* conversation and the inbox item; the assignment is presented again.
Accept(r) ==
    /\ r \in desk.inbox
    /\ UNCHANGED tree
    /\ \E fail \in Outcome({"prepare", "save", "confirm"}) :
          LET c == Talk(r, "active", NoContent, 1)
              t == TaskOf(r)
          IN  /\ SpendIf(fail # "ok")
              /\ mirror' = IF fail = "prepare" THEN PrepareFailed(mirror, 1)
                           ELSE PrepareSession(mirror, 1, tree)
              /\ desk' = CASE fail \in {"prepare", "save"} -> desk
                           [] fail = "confirm" -> [desk EXCEPT !.saved[t] = c]
                           [] OTHER -> DropInbox(Keep(desk, c), r)
              /\ wire' = IF fail \in {"prepare", "save"} THEN wire
                         ELSE ConfirmUnless(TakenUp(wire, r), r, fail = "confirm")

\* Reject: send, confirm, forget.  A conversation saved by an Accept that could
\* not confirm is deleted unless the task is live.
Reject(r) ==
    /\ r \in desk.inbox
    /\ UNCHANGED <<mirror, tree>>
    /\ \E fail \in Outcome({"send", "confirm", "delete"}) :
          LET t == TaskOf(r)
              sent == [wire EXCEPT !.outbox = @ \cup {Note(r, "rejected")}]
              gone == DropInbox(desk, r)
          IN  /\ SpendIf(fail # "ok")
              /\ wire' = IF fail = "send" THEN wire
                         ELSE ConfirmUnless(sent, r, fail = "confirm")
              /\ desk' = IF fail \in {"send", "confirm"} THEN desk
                         ELSE IF fail = "ok" /\ desk.talk[t] = NoTalk
                              THEN DeleteConversation(gone, t) ELSE gone

\* sendConversationEventWith: send, change the conversation in memory, save it.
\* A failed save leaves memory ahead of the disk.
SendEvent(t, type, phase, batch, bytes, m) ==
    LET c == desk.talk[t]
        e == IF batch = NoContent THEN Note(c.req, type)
             ELSE Event(c.req, type, mirror.base, bytes)
        next == [c EXCEPT !.phase = phase, !.batch = batch]
    IN  /\ Live(c) /\ c.phase = "active"
        /\ UNCHANGED tree
        /\ \E fail \in Outcome({"send", "save"}) :
              /\ SpendIf(fail # "ok")
              /\ wire' = IF fail = "send" THEN wire
                         ELSE [wire EXCEPT !.outbox = @ \cup {e}]
              /\ desk' = CASE fail = "send" -> desk
                           [] fail = "save" -> [desk EXCEPT !.talk[t] = next]
                           [] OTHER -> Keep(desk, next)
              \* DeliverChanges cancels a batch that was not sent
              /\ mirror' = IF fail = "send" /\ batch # NoContent
                           THEN Cancel(m, batch, tree) ELSE m

Reply(t) == SendEvent(t, "progress", "active", NoContent, NoContent, mirror)
Clarify(t) == SendEvent(t, "clarification", "awaiting_caller", NoContent, NoContent, mirror)
Final(t) == SendEvent(t, "final", "terminal", NoContent, NoContent, mirror)

\* sendToolCallBatch: at most MaxParkedContinuations conversations await results.
CanPark == Cardinality({t \in DeskTasks : desk.talk[t] # NoTalk
                           /\ desk.talk[t].phase = "awaiting_results"}) < DeskParked

SubmitToolCalls(t) ==
    /\ CanPark
    /\ SendEvent(t, "tool_calls", "awaiting_results", NoContent, NoContent, mirror)

\* DeliverChanges: the reviewed change, resolved in this conversation's own
\* directory, becomes one batch of tool calls; a batch refused by the parking
\* limit is cancelled again, which leaves the review as it was.
DeliverChanges(t) ==
    LET id == mirror.review
    IN  /\ id # NoContent
        /\ CanPark
        /\ desk.talk[t] # NoTalk
        /\ desk.talk[t].path = mirror.root
        /\ id = 0 \/ Frozen(id) # 0
        /\ SendEvent(t, "tool_calls", "awaiting_results", id, Frozen(id),
                     Resolve(mirror, id, Frozen(id), tree))

DiscardChanges ==
    /\ mirror.review # NoContent
    /\ mirror' = SettleDiscarded(mirror, mirror.review, tree)
    /\ UNCHANGED <<desk, wire, tree, left>>

\* SaveDraft: saves the conversation as memory has it.
SaveDraft(t) ==
    /\ desk.talk[t] # NoTalk
    /\ desk' = [desk EXCEPT !.saved[t] = desk.talk[t]]
    /\ UNCHANGED <<mirror, wire, tree, left>>

\* Abandon: cancel the batch, save the end, publish it.
Abandon(t) ==
    LET c == desk.talk[t]
        end == [c EXCEPT !.phase = "terminal", !.batch = NoContent, !.gone = FALSE]
    IN  /\ Live(c) /\ (c.phase # "active" \/ c.gone)
        /\ mirror' = IF c.batch = NoContent THEN mirror ELSE Cancel(mirror, c.batch, tree)
        /\ \E fail \in Outcome({"save"}) :
              /\ desk' = IF fail = "ok"
                         THEN [Keep(desk, end) EXCEPT !.abandoned = @ \cup {c.req}] ELSE desk
              /\ SpendIf(fail # "ok")
        /\ UNCHANGED <<wire, tree>>

\* SetHumanWorkspace: save the choice, then switch the watched directory.
SetHumanWorkspace(t, path) ==
    LET c == desk.talk[t]
        moved == [c EXCEPT !.path = path]
    IN  /\ Live(c) /\ c.batch = NoContent
        /\ \E fail \in Outcome({"save", "prepare"}) :
              /\ mirror' = CASE fail = "save" -> mirror
                             [] fail = "prepare" -> PrepareFailed(mirror, path)
                             [] OTHER -> PrepareSession(mirror, path, tree)
              /\ desk' = IF fail = "ok" THEN Keep(desk, moved)
                         ELSE IF fail = "prepare" THEN [desk EXCEPT !.saved[t] = c] ELSE desk
              /\ SpendIf(fail # "ok")
        /\ UNCHANGED <<wire, tree>>

------------------------------------------------------------------------------
(* The human's files, the process, and what is behind the wire (external).    *)

Edit(root, content) ==
    /\ left.edits > 0 /\ root \in left.roots
    /\ tree[root] # content
    /\ tree' = [tree EXCEPT ![root] = content]
    /\ mirror' = [mirror EXCEPT !.stale = mirror.stale \/ root = mirror.root]
    /\ left' = [left EXCEPT !.edits = @ - 1]
    /\ UNCHANGED <<desk, wire>>

\* run: the debounce timer fires after the watcher's event.
Debounce ==
    /\ mirror.stale
    /\ mirror' = Publish(mirror, tree)
    /\ UNCHANGED <<desk, wire, tree, left>>

\* fsmirror.Open reads the persisted baseline; no session is prepared yet.
Reopened(m) ==
    [base |-> m.disk.base, baseRoot |-> m.disk.root, root |-> 0, disk |-> m.disk,
     flight |-> NoContent, byID |-> NothingInFlight, review |-> NoContent, stale |-> FALSE]

BoundPaths == {desk.saved[t].path : t \in {u \in DeskTasks : desk.saved[u] # NoTalk}}

\* workerkit.Open prepares the workspace of every restored conversation in turn.
PrepareAll(m, paths, last) ==
    IF paths = {last} THEN PrepareSession(m, last, tree)
    ELSE PrepareSession(PrepareSession(m, CHOOSE p \in paths \ {last} : TRUE, tree), last, tree)

\* The client's journal presents what was not confirmed, the service what is open.
Reconnected(w) ==
    LET known == {r \in DeskRequests : r[2] <= w.turns[TaskOf(r)]}
    IN  [w EXCEPT !.offered = IF w.kind = "client" THEN known \ w.confirmed ELSE w.open,
                  !.nacks = IF w.kind = "client" THEN @ \cup w.replay ELSE {},
                  !.replay = {}, !.notices = {}]

Restored(d) == [d EXCEPT !.talk = d.saved, !.inbox = {}]

DeskCrash ==
    /\ left.crashes > 0
    /\ desk' = Restored(desk)
    /\ wire' = Reconnected(wire)
    /\ \E fail \in Outcome({"prepare"}) :
          /\ \/ (BoundPaths = {} \/ fail # "ok") /\ mirror' = Reopened(mirror)
             \/ /\ fail = "ok"
                /\ \E last \in BoundPaths :
                      mirror' = PrepareAll(Reopened(mirror), BoundPaths, last)
          /\ left' = [left EXCEPT !.crashes = @ - 1, !.faults = @ - (IF fail = "ok" THEN 0 ELSE 1)]
    /\ UNCHANGED tree

\* The native builders: a create writes the whole file, an edit names the bytes
\* it replaces and fails on any others.
Applies(batch, file) == batch.before \in {0, file}

\* The caller asks, or continues a task whose last event gave it the turn, with
\* or without the results of the batch it was sent.
CallerAsks(t, result) ==
    LET r == <<t, wire.turns[t] + 1>>
        batch == wire.asked[t]
    IN  /\ t \in left.tasks /\ wire.turns[t] < left.turns
        /\ wire.turns[t] > 0 => wire.yields[t]
        /\ result # "none" => batch # NoBatch
        /\ result = "ok" => Applies(batch, wire.file)
        /\ wire' = [wire EXCEPT !.turns[t] = @ + 1, !.open = @ \cup {r}, !.offered = @ \cup {r},
                                !.result[r] = result, !.asked[t] = NoBatch,
                                !.yields[t] = FALSE,
                                !.file = IF result = "ok" THEN batch.after ELSE @]
        /\ UNCHANGED <<desk, mirror, tree, left>>

\* The service takes an event of an open request, or refuses it for good; calls
\* of a tool the caller did not declare leave the request open.
ServiceTakes(e) ==
    /\ e \in wire.outbox
    /\ LET rest == [wire EXCEPT !.outbox = @ \ {e}]
       IN  \/ /\ e.req \in wire.open
              /\ wire' = IF ~EndsTurn(e) THEN rest
                         ELSE [rest EXCEPT !.open = @ \ {e.req},
                                           !.yields[TaskOf(e.req)] = e.type \in {"tool_calls", "clarification"},
                                           !.asked[TaskOf(e.req)] = [before |-> e.before, after |-> e.after]]
              /\ UNCHANGED left
           \/ /\ e.req \notin wire.open
              /\ wire' = [rest EXCEPT !.nacks = @ \cup {[req |-> e.req, code |-> "closed"]}]
              /\ UNCHANGED left
           \/ /\ e.req \in wire.open /\ e.type = "tool_calls" /\ Fault
              /\ wire' = [rest EXCEPT !.nacks = @ \cup {[req |-> e.req, code |-> "tool_conflict"]}]
              /\ SpendIf(TRUE)
    /\ UNCHANGED <<desk, mirror, tree>>

\* A request expires or its caller leaves; only a connection carries notices.
Expires(r) ==
    /\ r \in wire.open /\ Fault
    /\ SpendIf(TRUE)
    /\ \E code \in {"request_expired", "caller_gone"} :
          wire' = [wire EXCEPT !.open = IF code = "caller_gone" THEN @ ELSE @ \ {r},
                               !.notices = IF wire.kind = "client" THEN @
                                           ELSE @ \cup {[req |-> r, code |-> code]}]
    /\ UNCHANGED <<desk, mirror, tree>>

\* An in-process connection settles an event before SendEvent returns.
WireQuiet == wire.kind = "client" \/ wire.outbox = {}

DeskInit ==
    /\ desk = [inbox |-> {}, talk |-> [t \in DeskTasks |-> NoTalk],
               saved |-> [t \in DeskTasks |-> NoTalk], abandoned |-> {}]
    /\ tree = [p \in DeskRoots |-> 1]
    /\ mirror = Reopened([disk |-> [base |-> 0, root |-> 0]])
    /\ left \in DeskBudgets
    /\ \E kind \in {"client", "connection"} :
          wire = [kind |-> kind, offered |-> {}, confirmed |-> {}, open |-> {}, outbox |-> {},
                  nacks |-> {}, replay |-> {}, notices |-> {}, file |-> 1, late |-> {},
                  yields |-> [t \in DeskTasks |-> FALSE],
                  asked |-> [t \in DeskTasks |-> NoBatch], turns |-> [t \in DeskTasks |-> 0],
                  result |-> [r \in DeskRequests |-> "none"]]

HumanCommand(t) ==
    \/ Reply(t) \/ Clarify(t) \/ Final(t) \/ SubmitToolCalls(t) \/ DeliverChanges(t)
    \/ SaveDraft(t) \/ Abandon(t)
    \/ \E path \in left.roots : SetHumanWorkspace(t, path)

DeskNext ==
    \/ \E e \in wire.outbox : ServiceTakes(e)
    \/ /\ WireQuiet
       /\ \/ \E r \in DeskRequests : HandleAssignment(r) \/ Accept(r) \/ Reject(r) \/ Expires(r)
          \/ \E n \in wire.nacks : HandleRejection(n)
          \/ \E n \in wire.notices : HandleNotice(n)
          \/ \E t \in DeskTasks : HumanCommand(t)
          \/ \E t \in DeskTasks, result \in {"none", "ok", "error"} : CallerAsks(t, result)
          \/ \E p \in DeskRoots, c \in DeskContents : Edit(p, c)
          \/ DiscardChanges \/ Debounce \/ DeskCrash

DeskSpec == DeskInit /\ [][DeskNext]_deskVars

------------------------------------------------------------------------------
(* Properties.                                                                *)

\* A confirmed assignment is never lost (Accept persists "before the assignment
\* is confirmed"): while the service waits for it, its conversation is on disk,
\* or an answer is with the transport, or it is in the inbox of a process
\* whose service will deliver it again.  The exception is a task one of whose
\* older assignments was presented again and taken up after it was answered
\* (its ignored confirmation had failed, or the restart raced the answer): that
\* one takes the conversation back.
NoLostAssignment ==
    \A r \in wire.confirmed \cap wire.open :
       \/ \E n \in 1 .. r[2] - 1 : <<TaskOf(r), n>> \in wire.late
       \/ desk.saved[TaskOf(r)] # NoTalk /\ desk.saved[TaskOf(r)].req = r
       \/ Answering(r)
       \/ wire.kind = "connection" /\ r \in desk.inbox \cup wire.offered

\* A conversation the human sees as ended survives a restart as ended, or the
\* service has ended its task, or a refusal that ends it is not confirmed
\* (Abandon: a success "never persisted" would be lost on the next restart).
EndsAreDurable ==
    \A t \in DeskTasks :
       LET c == desk.talk[t] IN
       (c # NoTalk /\ c.phase = "terminal") =>
          \* accepted anew, not yet confirmed
          \/ desk.saved[t].req \in desk.inbox \/ desk.saved[t].req # c.req
          \/ desk.saved[t] # NoTalk /\ desk.saved[t].phase = "terminal"
          \/ c.req \notin wire.open /\ ~wire.yields[t]
          \/ Answering(c.req)
          \/ \E n \in wire.nacks \cup wire.replay : n.req = c.req

\* A conversation ends only with its own request: a rejection or an expiry of
\* an older request never ends a newer continuation of the task.
NoFalseEnd ==
    \A t \in DeskTasks :
       LET c == desk.talk[t] IN
       (c # NoTalk /\ c.phase = "terminal") =>
          c.req \notin wire.open \/ Answering(c.req) \/ c.req \in desk.abandoned

\* The baseline moves only with the caller's working tree: a step that changes
\* it presents a continuation whose results are all successful, or is the
\* human's discard, or binds another directory, or reads the disk again.  The
\* exception is a session whose conversations chose different directories: a
\* restart binds them in turn and takes each one's files as they are.
BaselineFollowsCaller ==
    [][mirror'.base # mirror.base =>
         \/ \E r \in wire.offered \ wire'.offered : wire.result[r] = "ok"
         \/ DiscardChanges
         \/ mirror'.baseRoot # mirror.baseRoot
         \/ mirror'.base = mirror.disk.base
         \/ Cardinality(BoundPaths) > 1]_deskVars

\* Once the watcher has settled, the review is exactly the difference between
\* the files and the baseline, without what is in flight.
ReviewIsCurrent == mirror.root # 0 /\ ~mirror.stale => mirror.review = ReviewOf(mirror, tree)

\* "neither invisible nor silently unsettled": a change hidden as in flight
\* belongs to a conversation that will settle it or return it to review.
NoHiddenEdit ==
    \A id \in DeskContents :
       mirror.byID[id] # NoContent =>
          \E t \in DeskTasks : desk.talk[t] # NoTalk /\ desk.talk[t].batch = id

\* A conversation that is shown as ended is over: it ended with its own request,
\* and a restart does not bring it back (Abandon, handleRejection, addAlert).
EndsAreTrue == EndsAreDurable /\ NoFalseEnd

\* The mirror shows what the human changed since the caller last agreed: its
\* review is current and its baseline moves only with the caller's tree.
MirrorIsFaithful == []ReviewIsCurrent /\ BaselineFollowsCaller
=============================================================================
