------------------------------ MODULE A2AFront ------------------------------
(***************************************************************************)
(* The A2A front end of HumanAgent (a2a): concurrent HTTP requests, each a *)
(* sequence of Agent calls with nothing held between them, against the     *)
(* task they share and the worker that moves it.  Ids are deterministic: a *)
(* message without a task creates the task named after it, so a task is    *)
(* known by its creating message.                                          *)
(*                                                                         *)
(*   jobs    the Agent's tasks: [ws, ctx, state, log, art], log being the  *)
(*           sequence of event states (its length is the revision)         *)
(*   notes   the caller's durable messages: [task, body]                   *)
(*   orders  the Agent's command records: the digest of each command id    *)
(*   slips   the recorded apply receipts: the decision by task             *)
(*   visits  each request's progress: its program counter, the task it     *)
(*           last loaded, the workspace resolved, the error to report,     *)
(*           what the caller was told, the states a stream yielded, where  *)
(*           the stream began, its cursor, and whether the message was     *)
(*           already durable when the request arrived                      *)
(*   allow   bounds: [calls, acts, faults]                                 *)
(***************************************************************************)
EXTENDS Integers, Sequences, FiniteSets

CONSTANTS Workspaces,    \* what the workspace resolver may answer
          FrontScenes    \* [calls, acts, faults]

VARIABLES jobs, notes, orders, slips, visits, allow

frontVars == <<jobs, notes, orders, slips, visits, allow>>

LOCAL With(f, k, v) == [x \in DOMAIN f \cup {k} |-> IF x = k THEN v ELSE f[x]]

NoJob == [ws |-> 0, ctx |-> 0, state |-> "none", log |-> << >>, art |-> FALSE]
NoVisit == [pc |-> "new", seen |-> NoJob, ws |-> 0, err |-> "none", told |-> "none",
            feed |-> << >>, from |-> 0, cursor |-> 0, late |-> FALSE]

JobOf(t) == IF t \in DOMAIN jobs THEN jobs[t] ELSE NoJob
Ended(j) == j.state \in {"completed", "canceled", "rejected", "failed"}
Paused(j) == Ended(j) \/ j.state = "input_required"
Revision(j) == Len(j.log)

\* the task a call is about: the one it names, or the one its message creates
TaskOfCall(c) == IF c.task = 0 THEN c.msg ELSE c.task
\* the context a taskless message asks for: its own when it names none
ContextOf(c) == IF c.ctx = 0 THEN c.msg + 100 ELSE c.ctx

-----------------------------------------------------------------------------
(* The Agent's commands: atomic, idempotent by command id and digest *)

Move(j, state) == [j EXCEPT !.state = state, !.log = Append(@, state)]

\* a command: what it answers, and the three tables after it
Did(answer, j, n, o) == [got |-> answer, jobs |-> j, notes |-> n, orders |-> o]
Nothing(answer) == Did(answer, jobs, notes, orders)

\* replayTaskCommandFromStore: the record of the command decides before anything else
Replayed(id, digest, otherwise) ==
    IF id \in DOMAIN orders THEN Nothing(IF orders[id] = digest THEN "done" ELSE "idempotency")
    ELSE otherwise

\* CreateTask
CreateJob(c, ws) ==
    LET id == <<"create", c.msg>>
        digest == <<ws, ContextOf(c), c.body>>
        born == [ws |-> ws, ctx |-> ContextOf(c), state |-> "submitted", log |-> <<"submitted">>,
                 art |-> FALSE]
    IN  Replayed(id, digest,
            IF c.msg \in DOMAIN jobs THEN Nothing("task")
            ELSE IF c.msg \in DOMAIN notes THEN Nothing("message")
            ELSE Did("done", With(jobs, c.msg, born), With(notes, c.msg, [task |-> c.msg, body |-> c.body]),
                     With(orders, id, digest)))

\* transition, for ReplyTask and CancelTask: the revision first, then the state
TransitJob(id, digest, t, rev, from, to, n) ==
    Replayed(id, digest,
        IF Revision(jobs[t]) # rev THEN Nothing("revision")
        ELSE IF jobs[t].state \notin from THEN Nothing("transition")
        ELSE Did("done", [jobs EXCEPT ![t] = Move(@, to)], n, With(orders, id, digest)))

\* ReplyTask
ReplyJob(c, rev) ==
    IF c.msg \in DOMAIN notes /\ <<"message", c.msg>> \notin DOMAIN orders /\ Revision(jobs[c.task]) = rev
    THEN Nothing("message")
    ELSE TransitJob(<<"message", c.msg>>, <<rev, c.task, c.body>>, c.task, rev, {"input_required"},
                    "working", With(notes, c.msg, [task |-> c.task, body |-> c.body]))

\* CancelTask
CancelJob(t, rev) ==
    TransitJob(<<"cancel", t>>, <<rev, t, 0>>, t, rev, {"submitted", "working", "input_required"},
               "canceled", notes)

-----------------------------------------------------------------------------
(* Requests *)

FrontInit ==
    /\ jobs = << >> /\ notes = << >> /\ orders = << >> /\ slips = << >>
    /\ allow \in FrontScenes
    /\ visits = [c \in allow.calls |-> NoVisit]

At(c, pc) == c \in allow.calls /\ visits[c].pc = pc
VisitAt(c, pc) == visits' = [visits EXCEPT ![c].pc = pc]
Loads(c, pc, j) == visits' = [visits EXCEPT ![c].pc = pc, ![c].seen = j]
Fails(c, pc, err) == visits' = [visits EXCEPT ![c].pc = pc, ![c].err = err]
Tell(c, told) == visits' = [visits EXCEPT ![c].pc = "end", ![c].told = told]

Steady == UNCHANGED <<jobs, notes, orders, slips, allow>>
Takes(o) == jobs' = o.jobs /\ notes' = o.notes /\ orders' = o.orders /\ UNCHANGED <<slips, allow>>

\* the message is durable, exactly as this call sends it
Matches(c) ==
    /\ c.msg \in DOMAIN notes
    /\ notes[c.msg] = [task |-> TaskOfCall(c), body |-> c.body]
    /\ c.task = 0 => JobOf(c.msg).ctx = ContextOf(c)
    /\ c.task # 0 /\ c.ctx # 0 => JobOf(c.task).ctx = c.ctx

\* a request arrives
Arrive(c) ==
    /\ At(c, "new")
    /\ visits' = [visits EXCEPT ![c].late = c.op \in {"send", "stream"} /\ Matches(c),
                                ![c].pc = CASE c.op \in {"send", "stream"} ->
                                                 IF c.task = 0 THEN "look" ELSE "find"
                                            [] c.op = "cancel" -> "load"
                                            [] c.op = "watch" -> "snap"
                                            [] c.op = "receipt" -> "check"]
    /\ Steady

\* existingInitialMessage: a durable message is this one or a reuse of its id; without it the
\* caller goes on, or reports the error it came with
LookInitial(c) ==
    /\ At(c, "look")
    /\ IF c.msg \notin DOMAIN notes
       THEN IF visits[c].err = "none" THEN VisitAt(c, "resolve") ELSE Tell(c, visits[c].err)
       ELSE IF Matches(c) THEN Loads(c, "answer", jobs[c.msg])
       ELSE Tell(c, "invalid")
    /\ Steady

\* ResolveWorkspace is the embedder's: it may answer differently each time, or fail
ResolveWorkspace(c) ==
    /\ At(c, "resolve")
    /\ \/ \E ws \in Workspaces : visits' = [visits EXCEPT ![c].pc = "create", ![c].ws = ws]
       \/ Tell(c, "resolver")
    /\ Steady

\* mutant: the loser of a race reports its conflict
CreateInitialPlainly(c) ==
    /\ At(c, "create")
    /\ LET o == CreateJob(c, visits[c].ws)
       IN  IF o.got = "done" THEN VisitAt(c, "get") /\ Takes(o) ELSE Tell(c, "invalid") /\ Steady

\* acceptMessage without a task: created, or looked up again
CreateInitial(c) ==
    /\ At(c, "create")
    /\ LET o == CreateJob(c, visits[c].ws)
       IN  IF o.got = "done" THEN VisitAt(c, "get") /\ Takes(o) ELSE Fails(c, "look", "invalid") /\ Steady

\* the store fails under a command: it was committed or it was not
StoreFails(c) ==
    /\ allow.faults > 0
    /\ allow' = [allow EXCEPT !.faults = @ - 1]
    /\ \/ /\ At(c, "create")
          /\ LET o == CreateJob(c, visits[c].ws)
             IN  \/ jobs' = o.jobs /\ notes' = o.notes /\ orders' = o.orders
                 \/ UNCHANGED <<jobs, notes, orders>>
          /\ Fails(c, "look", "internal")
       \/ /\ At(c, "reply")
          /\ LET o == ReplyJob(c, Revision(visits[c].seen))
             IN  \/ jobs' = o.jobs /\ notes' = o.notes /\ orders' = o.orders
                 \/ UNCHANGED <<jobs, notes, orders>>
          /\ Fails(c, "known", "internal")
       \/ /\ At(c, "cancel")
          /\ LET o == CancelJob(c.task, Revision(visits[c].seen))
             IN  \/ jobs' = o.jobs /\ notes' = o.notes /\ orders' = o.orders
                 \/ UNCHANGED <<jobs, notes, orders>>
          /\ Tell(c, "internal")
    /\ UNCHANGED slips

\* acceptMessage with a task: ResolveTask, GetTask and the context
FindTask(c) ==
    /\ At(c, "find")
    /\ IF c.task \notin DOMAIN jobs THEN Tell(c, "notfound")
       ELSE IF c.ctx # 0 /\ jobs[c.task].ctx # c.ctx THEN Tell(c, "invalid")
       ELSE Loads(c, "known", jobs[c.task])
    /\ Steady

\* existingCallerMessage, then the state that was loaded before it
KnownMessage(c) ==
    /\ At(c, "known")
    /\ IF c.msg \notin DOMAIN notes
       THEN IF visits[c].err # "none" THEN Tell(c, visits[c].err)
            ELSE IF visits[c].seen.state # "input_required" THEN Tell(c, "unsupported")
            ELSE VisitAt(c, "reply")
       ELSE IF Matches(c) THEN Loads(c, "answer", jobs[c.task])
       ELSE Tell(c, "invalid")
    /\ Steady

ReplyToTask(c) ==
    /\ At(c, "reply")
    /\ LET o == ReplyJob(c, Revision(visits[c].seen))
       IN  IF o.got = "done" THEN VisitAt(c, "get") /\ Takes(o) ELSE Fails(c, "known", "invalid") /\ Steady

\* GetTask after the command: the worker may have moved the task since
GetCurrent(c) == At(c, "get") /\ Loads(c, "answer", jobs[TaskOfCall(c)]) /\ Steady

\* SendMessage, SendStreamingMessage: what follows an accepted message.  A stream shows the
\* task and tails from its event count unless it is paused.
AnswerSend(c) ==
    /\ At(c, "answer")
    /\ LET j == visits[c].seen
       IN  IF c.op = "stream"
           THEN visits' = [visits EXCEPT ![c].feed = <<j.state>>, ![c].from = Revision(j),
                                         ![c].cursor = Revision(j),
                                         ![c].pc = IF Paused(j) THEN "end" ELSE "tail",
                                         ![c].told = IF Paused(j) THEN "task" ELSE "none"]
           ELSE IF c.wait THEN VisitAt(c, "wait") ELSE Tell(c, "task")
    /\ Steady

\* waitUntilPaused: polled
WaitUntilPaused(c) ==
    /\ At(c, "wait")
    /\ Paused(jobs[TaskOfCall(c)])
    /\ visits' = [visits EXCEPT ![c].pc = "end", ![c].told = "task", ![c].seen = jobs[TaskOfCall(c)]]
    /\ Steady

\* mutant: the task shown and the cursor come from two reads
SnapshotTwice(c) ==
    /\ At(c, "snap")
    /\ IF c.task \notin DOMAIN jobs THEN Tell(c, "notfound")
       ELSE IF Ended(jobs[c.task]) THEN Tell(c, "unsupported")
       ELSE \E i \in 1..Revision(jobs[c.task]) :
              LET state == jobs[c.task].log[i]
              IN  visits' = [visits EXCEPT ![c].feed = <<state>>, ![c].from = i,
                                           ![c].cursor = Revision(jobs[c.task]),
                                           ![c].pc = IF state = "input_required" THEN "end" ELSE "tail",
                                           ![c].told = IF state = "input_required" THEN "task" ELSE "none"]
    /\ Steady

\* SubscribeToTask: the task and its cursor are one snapshot
Subscribe(c) ==
    /\ At(c, "snap")
    /\ IF c.task \notin DOMAIN jobs THEN Tell(c, "notfound")
       ELSE IF Ended(jobs[c.task]) THEN Tell(c, "unsupported")
       ELSE LET j == jobs[c.task]
            IN  visits' = [visits EXCEPT ![c].feed = <<j.state>>, ![c].from = Revision(j),
                                         ![c].cursor = Revision(j),
                                         ![c].pc = IF Paused(j) THEN "end" ELSE "tail",
                                         ![c].told = IF Paused(j) THEN "task" ELSE "none"]
    /\ Steady

\* tailEvents and convertEvent: a frozen artifact is not shown; the stream ends where the
\* task pauses
TailEvent(c) ==
    LET t == TaskOfCall(c)
        next == jobs[t].log[visits[c].cursor + 1]
    IN  /\ At(c, "tail")
        /\ visits[c].cursor < Revision(jobs[t])
        /\ visits' = [visits EXCEPT ![c].cursor = @ + 1,
                                    ![c].feed = IF next = "frozen" THEN @ ELSE Append(@, next),
                                    ![c].pc = IF Paused([NoJob EXCEPT !.state = next]) THEN "end" ELSE @,
                                    ![c].told = IF Paused([NoJob EXCEPT !.state = next]) THEN "task" ELSE @]
        /\ Steady

\* cancelTaskWithRetry: load
CancelLoad(c) ==
    /\ At(c, "load")
    /\ IF c.task \notin DOMAIN jobs THEN Tell(c, "notfound")
       ELSE IF jobs[c.task].state = "canceled" THEN Tell(c, "canceled")
       ELSE IF Ended(jobs[c.task]) THEN Tell(c, "notcancelable")
       ELSE Loads(c, "cancel", jobs[c.task])
    /\ Steady

\* cancelTaskWithRetry: a revision conflict loads again; a digest that differs from the
\* recorded cancellation is an invalid argument.  A transition error cannot follow: a task
\* at the revision that was loaded is in the state that was loaded.
CancelAttempt(c) ==
    /\ At(c, "cancel")
    /\ LET o == CancelJob(c.task, Revision(visits[c].seen))
       IN  CASE o.got = "done" -> Tell(c, "canceled") /\ Takes(o)
             [] o.got = "revision" -> VisitAt(c, "load") /\ Steady
             [] o.got = "idempotency" -> Tell(c, "invalid") /\ Steady

\* the apply receipt extension: the embedder authorizes or not, then the task must be
\* completed with an artifact
CheckReceipt(c) ==
    /\ At(c, "check")
    /\ IF c.task \notin DOMAIN jobs THEN Tell(c, "notfound")
       ELSE \/ Tell(c, "forbidden")
            \/ IF jobs[c.task].state # "completed" \/ ~jobs[c.task].art THEN Tell(c, "precondition")
               ELSE VisitAt(c, "record")
    /\ Steady

\* RecordApplyReceipt: the first decision stands, the same one again is an answer
RecordReceipt(c) ==
    /\ At(c, "record")
    /\ IF c.task \in DOMAIN slips /\ slips[c.task] # c.body
       THEN Tell(c, "invalid") /\ UNCHANGED slips
       ELSE Tell(c, "recorded") /\ slips' = With(slips, c.task, c.body)
    /\ UNCHANGED <<jobs, notes, orders, allow>>

\* the caller goes away: the request's context ends between two calls
HangUpCall(c) ==
    /\ allow.faults > 0
    /\ visits[c].pc \notin {"new", "end"}
    /\ Tell(c, "gone")
    /\ allow' = [allow EXCEPT !.faults = @ - 1]
    /\ UNCHANGED <<jobs, notes, orders, slips>>

\* the worker's commands, through the worker link (AgentLedger has them in full)
WorkerMoves(t) ==
    /\ t \in DOMAIN jobs
    /\ allow.acts > 0
    /\ allow' = [allow EXCEPT !.acts = @ - 1]
    /\ \/ /\ jobs[t].state = "submitted"
          /\ \E to \in {"working", "rejected"} : jobs' = [jobs EXCEPT ![t] = Move(@, to)]
       \/ /\ jobs[t].state = "working"
          /\ \E to \in {"input_required", "completed", "failed"} :
               jobs' = [jobs EXCEPT ![t] = Move(@, to)]
       \/ /\ jobs[t].state = "working" /\ ~jobs[t].art
          /\ jobs' = [jobs EXCEPT ![t].log = Append(@, "frozen"), ![t].art = TRUE]
    /\ UNCHANGED <<notes, orders, slips, visits>>

FrontNext ==
    \/ \E c \in allow.calls :
         \/ Arrive(c) \/ LookInitial(c) \/ ResolveWorkspace(c) \/ CreateInitial(c) \/ StoreFails(c)
         \/ FindTask(c) \/ KnownMessage(c) \/ ReplyToTask(c) \/ GetCurrent(c)
         \/ AnswerSend(c) \/ WaitUntilPaused(c) \/ Subscribe(c) \/ TailEvent(c)
         \/ CancelLoad(c) \/ CancelAttempt(c) \/ CheckReceipt(c) \/ RecordReceipt(c)
         \/ HangUpCall(c)
    \/ \E t \in DOMAIN jobs : WorkerMoves(t)

FrontSpec == FrontInit /\ [][FrontNext]_frontVars

-----------------------------------------------------------------------------
(* Properties *)

Told(c, answers) == visits[c].told \in answers

\* A caller that sends again what is already durable is never refused, wherever the task
\* went meanwhile: acceptMessage recognizes the message before it looks at the task's state
\* (TestTerminalContinuationReplaysCommittedMessageAndRejectsNewMessage).
RetryIsRecognized ==
    \A c \in allow.calls : visits[c].late => ~Told(c, {"invalid", "unsupported", "notfound"})

\* Of several concurrent sends of one new message the first durable one wins, whatever
\* workspace each resolved, and the others recognize it: a taskless send is refused only
\* when the durable message or its context differs (request_handler.go, "recognize it
\* exactly instead of surfacing the losing resolver's command digest conflict").
RacesAreRecognized ==
    \A c \in allow.calls :
        c.op \in {"send", "stream"} /\ c.task = 0 /\ Told(c, {"invalid"}) =>
            c.msg \in DOMAIN notes /\ ~Matches(c)

\* What a caller was told of its message and of its receipt stays true: the message is
\* durable in that task with that content, and the decision is the one on record.
AnswersHold ==
    \A c \in allow.calls :
        /\ c.op \in {"send", "stream"} /\ Told(c, {"task"}) => Matches(c)
        /\ c.op = "send" /\ c.wait /\ Told(c, {"task"}) => Paused(visits[c].seen)
        /\ Told(c, {"recorded"}) => slips[c.task] = c.body

\* A stream shows the task once and then every later change once, in order, and ends by
\* itself only where the task paused: no event falls between the snapshot and the tail.
StreamIsFaithful ==
    \A c \in allow.calls :
        visits[c].feed # << >> =>
            LET log == jobs[TaskOfCall(c)].log
                later == SelectSeq(SubSeq(log, visits[c].from + 1, visits[c].cursor),
                                   LAMBDA s : s # "frozen")
            IN  /\ Tail(visits[c].feed) = later
                /\ Told(c, {"task"}) => Paused([NoJob EXCEPT !.state = log[visits[c].cursor]])

\* Cancel tells the truth: canceled when the task is, not cancelable when it ended otherwise.
\* "Invalid" is told only to a cancel that lost to another one with a later revision: the
\* two share a command id and not its digest (README, section 6).
CancelTellsTruth ==
    \A c \in allow.calls :
        c.op = "cancel" =>
            /\ Told(c, {"canceled", "invalid"}) => jobs[c.task].state = "canceled"
            /\ Told(c, {"notcancelable"}) =>
                 Ended(jobs[c.task]) /\ jobs[c.task].state # "canceled"

\* What a caller is told is true and stays true: a repeated or racing send finds the durable
\* message, an answer matches the records, a cancel reports how the task ended.
AnswersAreTrue == AnswersHold /\ RetryIsRecognized /\ RacesAreRecognized /\ CancelTellsTruth
=============================================================================
