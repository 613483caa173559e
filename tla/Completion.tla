----------------------------- MODULE Completion -----------------------------
(***************************************************************************)
(* The private gateway at work on its store: HTTP handlers that admit      *)
(* completions (internal/completion/gateway), the session hub              *)
(* (internal/completion/hub), the WebSocket transport of the worker        *)
(* (internal/workerws) and the worker's client with its durable outbox     *)
(* (internal/workerclient), with crashes, shutdowns, recovery, lost        *)
(* connections, damaged rows and callers that hang up.                     *)
(*                                                                         *)
(* A handler, a session consumer and recovery are programs that make one   *)
(* store call per step.  A store call that fails without a crash is        *)
(* retried by the code after it has read what is durable, so it stutters.  *)
(* One worker serves all tasks; a worker's reconnect is a new generation   *)
(* of the connection, and the handler of the old one may live on.          *)
(***************************************************************************)
EXTENDS CompletionStore, SequencesExt

CONSTANTS
    Worker,        \* the worker
    Calls,         \* HTTP requests: [key, task, digest, stream, results]
    Chat,          \* the tasks of the chat tier
    CallsOf,       \* the tool calls an event of type "tools" makes, by request
    Answers,       \* the events the worker may send
    KeyOrder,      \* the keys in the order ListRecoverableRequests returns them
    Capacity,      \* hub capacity
    Generations,   \* bound: connections 1..Generations
    MaxFaults,     \* bound: crashes, shutdowns, drops and hang-ups together
    MaxBeats,      \* bound: heartbeats per request
    DamageSettled  \* whether rows of settled requests may be damaged too

ASSUME GatewayAssumption ==
    /\ Worker \in Workers /\ Chat \subseteq Tasks
    /\ Calls \subseteq [key: Keys, task: Tasks, digest: Digests, stream: BOOLEAN,
                        results: SUBSET ToolCalls]
    /\ CallsOf \in [Keys -> SUBSET ToolCalls]
    /\ Answers \subseteq Events
    /\ ToSet(KeyOrder) = Keys
    /\ {Capacity, Generations, MaxFaults, MaxBeats} \subseteq Nat
    /\ DamageSettled \in BOOLEAN

(* Event.EndsResponse; what workers send and what the gateway makes up.    *)
Replies == {"final", "clarification", "tools"}
Closing == {"rejected", "expired", "failed", "unavailable"}
Ends(e) == e.type \in Replies \cup Closing
Event(k, type) == [key |-> k, type |-> type]

VARIABLES
    server,     \* "up", "stopping", "down", "recovering" or "refused"
    todo,       \* Recover: the requests it has still to recover, as listed
    believed,   \* Recover: the state of each task as it read and moved it
    damage,     \* what can no longer be read of a request
    call,       \* the HTTP handler of each call
    run,        \* dispatchCommittedRequest and consumeSession of each request
    reserved,   \* Hub.reserved
    active,     \* Hub.active
    sess,       \* Hub.sessions
    retired,    \* Hub.retired: the event of the receipt, or only the owner
    online,     \* Hub.workers: the generation that is registered, 0 for none
    conn,       \* workerws: each generation of the connection
    link,       \* Client: the generation it is connected with, 0 for none
    sent,       \* Client: the events written to the connection
    settled,    \* Client: how many of them are acknowledged
    batch,      \* Client.flush: the records listed and not yet looked at
    assigned,   \* the assignments the worker knows
    made,       \* the events the worker has sent
    outbox,     \* Outbox: the events to send
    rejected,   \* Outbox: rejected_inbox and rejected_confirmed
    stopped,    \* whether a shutdown ever began
    faults

memory == <<call, run, reserved, active, sess, retired, online>>
client == <<link, sent, settled, batch, assigned, made, outbox, rejected>>
process == <<server, todo, believed, damage, stopped, faults>>
vars == <<store, process, memory, conn, client>>

NoSession ==
    [live |-> FALSE, accepted |-> FALSE, seen |-> {}, ending |-> FALSE, inflight |-> {},
     queue |-> <<>>, assign |-> FALSE]
NoConn == [up |-> FALSE, in |-> <<>>, pub |-> None, done |-> 0, acked |-> 0, out |-> <<>>]
NoRun == [pc |-> "none", event |-> None]
Gens == 1..Generations

Init ==
    /\ StoreInit
    /\ server = "up" /\ todo = <<>> /\ believed = [t \in Tasks |-> "absent"]
    /\ damage = [k \in Keys |-> "none"] /\ stopped = FALSE /\ faults = 0
    /\ call = [c \in Calls |-> "idle"]
    /\ run = [k \in Keys |-> NoRun] /\ reserved = 0 /\ active = 0
    /\ sess = [k \in Keys |-> NoSession] /\ retired = [k \in Keys |-> None]
    /\ online = 0 /\ conn = [g \in Gens |-> NoConn]
    /\ link = 0 /\ sent = <<>> /\ settled = 0 /\ batch = <<>>
    /\ assigned = {} /\ made = {} /\ outbox = <<>> /\ rejected = {}

Serving == server \in {"up", "stopping"}
Working == server \in {"up", "recovering"}  \* Recover starts consumers as it goes
Fault == faults < MaxFaults /\ faults' = faults + 1

-----------------------------------------------------------------------------
(* Events and their durable stages.                                        *)

(* applyEventState: the transitions an event makes, from where to where.   *)
Effects(t) ==
    LET last == IF t \in Chat THEN "completed" ELSE "awaiting_caller" IN
    {<<"accepted", "admitted", "leased">>, <<"accepted", "reconciled", "leased">>,
     <<"accepted", "leased", "awaiting_human">>, <<"final", "responded", "completed">>,
     <<"clarification", "responded", last>>}
    \cup {<<type, "awaiting_human", "responded">> : type \in Replies}
    \cup (IF t \in Chat THEN {<<"tools", "responded", "completed">>}
          ELSE {<<"tools", "responded", "tools_dispatched">>,
                <<"tools", "tools_dispatched", "awaiting_results">>})
    \cup {<<type, s, IF type \in {"rejected", "expired"} THEN type ELSE "failed">> :
              type \in Closing, s \in States \ Terminal}

Moves(t, e) == {x \in Effects(t) : x[1] = e.type /\ x[2] = task[t].state}

(* BeginToolExecution of the calls an adapter task has not recorded yet.   *)
Unrecorded(t, e) ==
    IF e.type = "tools" /\ t \notin Chat /\ task[t].state # "awaiting_human"
    THEN {c \in CallsOf[e.key] : tools[t][c] = "none"} ELSE {}

(* validateEventState, validateToolCalls and validateNewToolCallIDs.       *)
Valid(t, e) ==
    CASE e.type = "accepted" -> task[t].state \in Fresh
      [] e.type \in Closing -> task[t].state \notin Terminal
      [] OTHER ->
           /\ task[t].state = "awaiting_human"
           /\ e.type = "tools" =>
                 /\ CallsOf[e.key] # {}
                 /\ t \notin Chat => \A c \in CallsOf[e.key] : tools[t][c] = "none"

(* nonStreamingDecision.                                                   *)
Decision(e) ==
    CASE e.type = "rejected" -> 409 [] e.type = "expired" -> 504
      [] e.type = "unavailable" -> 503 [] e.type = "failed" -> 500 [] OTHER -> OK

Complete(k, e) ==
    IF request[k].stream THEN CompleteRequest(k) ELSE CompleteNonStreaming(k, Decision(e))
\* mutant: the step is marked applied before it is
ApplyStageMarkFirst(k, e) ==
    LET t == request[k].task IN
    /\ Has(k, "step", e)
    /\ IF ~Has(k, "applied", e) THEN AppendWorkerResponseEvent(k, "applied", e)
       ELSE \E x \in Moves(t, e) : TransitionTask(t, x[2], x[3], Worker)

(* persistAndApplyEvent once the step is durable: the next stage that is   *)
(* missing.  applyEventState makes one transition or records one tool call *)
(* at a time.                                                              *)
ApplyStage(k, e) ==
    LET t == request[k].task IN
    /\ Has(k, "step", e) /\ ~Has(k, "applied", e)
    /\ IF Unrecorded(t, e) # {}
       THEN \E c \in Unrecorded(t, e) : BeginToolExecution(t, c)
       ELSE IF Moves(t, e) # {}
       THEN \E x \in Moves(t, e) : TransitionTask(t, x[2], x[3], Worker)
       ELSE AppendWorkerResponseEvent(k, "applied", e)

CloseStage(k, e) ==
    /\ Has(k, "applied", e)
    /\ IF Ends(e) /\ ~request[k].complete THEN Complete(k, e)
       ELSE e \notin receipts[k] /\ RecordWorkerEventReceipt(k, e)

Persisted(k, e) ==
    Has(k, "applied", e) /\ e \in receipts[k] /\ (Ends(e) => request[k].complete)

Advance(k, e) ==
    \/ /\ ~Has(k, "step", e) /\ Valid(request[k].task, e)
       /\ AppendWorkerResponseEvent(k, "step", e)
    \/ ApplyStage(k, e)
    \/ CloseStage(k, e)

-----------------------------------------------------------------------------
(* The hub.                                                                *)

(* Delivery.Commit: releases every publisher that waits on the delivery.   *)
Release(c, events, result) ==
    [g \in Gens |->
        IF c[g].pub # None /\ c[g].pub.event \in events /\ c[g].pub.stage = "wait"
        THEN [c[g] EXCEPT !.pub.stage = result] ELSE c[g]]

(* retireSessionLocked: frees the capacity, drops a queued assignment and  *)
(* commits every pending delivery with the error.                          *)
Retire(k) ==
    /\ sess' = [sess EXCEPT ![k] = NoSession]
    /\ active' = active - 1
(* Abort.                                                                  *)
Abort(k) ==
    IF sess[k].live
    THEN /\ Retire(k)
         /\ conn' = Release(conn, sess[k].inflight, "missing")
         /\ retired' = [retired EXCEPT ![k] = IF @ = None THEN Event(k, "owner") ELSE @]
    ELSE UNCHANGED <<sess, active, conn, retired>>

OpenSession(k, accepted, seen) ==
    /\ sess' = [sess EXCEPT ![k] = [NoSession EXCEPT !.live = TRUE, !.accepted = accepted,
                                        !.seen = seen, !.assign = TRUE]]
    /\ active' = active + 1

-----------------------------------------------------------------------------
(* serveCompletion, one step per store or hub call.                        *)

Goto(c, pc) == call' = [call EXCEPT ![c] = pc]

(* LookupRequest: a known key is replayed or refused, a new one goes on.   *)
Submit(c) ==
    /\ server = "up" /\ call[c] = "idle"
    /\ Goto(c, IF Exists(c.key) THEN "done" ELSE "route")
    /\ UNCHANGED <<store, process, run, reserved, active, sess, retired, online, conn, client>>

(* GetTask and WorkerRouter, then Hub.Reserve: an existing task needs its  *)
(* owner, which must be online.                                            *)
Route(c) ==
    /\ Serving /\ call[c] = "route"
    /\ LET ownerless == task[c.task].state # "absent" /\ task[c.task].owner = None IN
       Goto(c, IF ownerless THEN "done" ELSE "reserve")
    /\ UNCHANGED <<store, process, run, reserved, active, sess, retired, online, conn, client>>

Reserve(c) ==
    /\ Serving /\ call[c] = "reserve"
    /\ IF online # 0 /\ active + reserved < Capacity
       THEN Goto(c, "begin") /\ reserved' = reserved + 1
       ELSE Goto(c, "done") /\ UNCHANGED reserved
    /\ UNCHANGED <<store, process, run, active, sess, retired, online, conn, client>>

(* BeginRequest: a replay and a conflict give the reservation back.        *)
Begin(c) ==
    /\ Serving /\ call[c] = "begin"
    /\ IF CanBegin(c.key, c.task, c.digest, c.results)
       THEN /\ BeginRequest(c.key, c.task, c.digest, c.stream, Worker, c.results)
            /\ Goto(c, "checkpoint") /\ UNCHANGED reserved
       ELSE Goto(c, "done") /\ reserved' = reserved - 1 /\ UNCHANGED store
    /\ UNCHANGED <<process, run, active, sess, retired, online, conn, client>>

(* The stream metadata, the start frame of a stream, and BeginResponse.    *)
Checkpoint(c) ==
    /\ Serving /\ call[c] = "checkpoint"
    /\ AppendResponseEvent(c.key, "stream")
    /\ Goto(c, IF c.stream THEN "start" ELSE "handover")
    /\ UNCHANGED <<process, run, reserved, active, sess, retired, online, conn, client>>

Start(c) ==
    /\ Serving /\ call[c] = "start"
    /\ AppendResponseEvent(c.key, "wire")
    /\ Goto(c, "boundary")
    /\ UNCHANGED <<process, run, reserved, active, sess, retired, online, conn, client>>

Boundary(c) ==
    /\ Serving /\ call[c] = "boundary"
    /\ BeginResponse(c.key)
    /\ Goto(c, "handover")
    /\ UNCHANGED <<process, run, reserved, active, sess, retired, online, conn, client>>

(* The reservation goes to the background dispatcher, which waits until    *)
(* beginFreshStreamingResponse has flushed the 200.                        *)
Handover(c) ==
    /\ Serving /\ call[c] = "handover"
    /\ Goto(c, "flush")
    /\ run' = [run EXCEPT ![c.key].pc = "gate"]
    /\ UNCHANGED <<store, process, reserved, active, sess, retired, online, conn, client>>

Flush(c) ==
    /\ Serving /\ call[c] = "flush"
    /\ Goto(c, "done")
    /\ run' = [run EXCEPT ![c.key].pc = IF @ = "gate" THEN "enqueue" ELSE @]
    /\ UNCHANGED <<store, process, reserved, active, sess, retired, online, conn, client>>
\* mutant: an admitted request is left behind
HangUpForgets(c) ==
    /\ Serving /\ Fault
    /\ call[c] \in {"begin", "checkpoint", "start", "boundary"}
    /\ reserved' = reserved - 1
    /\ Goto(c, "done")
    /\ UNCHANGED <<store, server, todo, believed, damage, stopped, run, active, sess, retired,
                   online, conn, client>>

(* The caller hangs up: store calls of the request's context fail, and     *)
(* failBeforeStream ends an admitted request.                              *)
HangUp(c) ==
    /\ Serving /\ Fault
    /\ \/ /\ call[c] \in {"route", "reserve", "begin"} /\ UNCHANGED store
          /\ reserved' = IF call[c] = "begin" THEN reserved - 1 ELSE reserved
       \/ /\ call[c] \in {"checkpoint", "start", "boundary"}
          /\ FailRequest(c.key, task[c.task].state)
          /\ reserved' = reserved - 1
    /\ Goto(c, "done")
    /\ UNCHANGED <<server, todo, believed, damage, stopped, run, active, sess, retired, online,
                   conn, client>>

-----------------------------------------------------------------------------
(* dispatchCommittedRequest and consumeSession.                            *)
(* Reservation.Enqueue: without the worker the request is unavailable.     *)
Enqueue(k) ==
    /\ server = "up" /\ run[k].pc = "enqueue"
    /\ reserved' = reserved - 1
    /\ IF online # 0
       THEN /\ OpenSession(k, FALSE, {})
            /\ run' = [run EXCEPT ![k] = [pc |-> "wait", event |-> None]]
       ELSE /\ run' = [run EXCEPT ![k] = [pc |-> "busy", event |-> Event(k, "unavailable")]]
            /\ UNCHANGED <<sess, active>>
    /\ UNCHANGED <<store, process, call, retired, online, conn, client>>

(* The session takes its next delivery, or its time is over.               *)
Take(k) ==
    /\ Working /\ run[k].pc = "wait" /\ sess[k].queue # <<>>
    /\ run' = [run EXCEPT ![k] = [pc |-> "busy", event |-> Head(sess[k].queue)]]
    /\ sess' = [sess EXCEPT ![k].queue = Tail(@)]
    /\ UNCHANGED <<store, process, call, reserved, active, retired, online, conn, client>>
Expire(k) ==
    /\ Working /\ run[k].pc = "wait"
    /\ run' = [run EXCEPT ![k] = [pc |-> "busy", event |-> Event(k, "expired")]]
    /\ UNCHANGED <<store, process, call, reserved, active, sess, retired, online, conn, client>>

(* A heartbeat frame of a stream.                                          *)
Wires(k) == Cardinality({i \in 1..Len(log[k]) : log[k][i].kind = "wire"})

Heartbeat(k) ==
    /\ Working /\ run[k].pc = "wait" /\ request[k].stream
    /\ Wires(k) <= MaxBeats
    /\ AppendResponseEvent(k, "wire")
    /\ UNCHANGED <<process, memory, conn, client>>

Persist(k) ==
    /\ Working /\ run[k].pc = "busy"
    /\ Advance(k, run[k].event)
    /\ UNCHANGED <<process, memory, conn, client>>

(* The event is persisted: an expiry closes the session itself, the        *)
(* terminal event of the worker leaves that to its publisher.              *)
Finish(k) ==
    LET e == run[k].event IN
    /\ Working /\ run[k].pc = "busy" /\ Persisted(k, e)
    /\ run' = [run EXCEPT ![k] = IF Ends(e) THEN NoRun ELSE [pc |-> "wait", event |-> None]]
    /\ IF e.type = "expired" THEN Abort(k)
       ELSE conn' = Release(conn, {e}, "ok") /\ UNCHANGED <<sess, active, retired>>
    /\ UNCHANGED <<store, process, call, reserved, online, client>>
(* rejectableWorkerEventError: validation refused the event before its     *)
(* first durable step.                                                     *)
Refuse(k) ==
    LET e == run[k].event IN
    /\ Working /\ run[k].pc = "busy"
    /\ ~Has(k, "step", e) /\ ~Valid(request[k].task, e)
    /\ run' = [run EXCEPT ![k] = [pc |-> "wait", event |-> None]]
    /\ conn' = Release(conn, {e}, "refused")
    /\ UNCHANGED <<store, process, call, reserved, active, sess, retired, online, client>>

(* The runtime context is done: an event in hand fails with the context's  *)
(* error, a dispatcher gives its reservation back, a session is aborted.   *)
Stop(k) ==
    /\ server = "stopping"
    /\ \/ /\ run[k].pc = "busy" /\ run[k].event.type \notin {"expired", "unavailable"}
          /\ run' = [run EXCEPT ![k] = [pc |-> "wait", event |-> None]]
          /\ conn' = Release(conn, {run[k].event}, "error")
          /\ UNCHANGED <<reserved, active, sess, retired>>
       \/ /\ run[k].pc \in {"gate", "enqueue"}
          /\ run' = [run EXCEPT ![k] = NoRun]
          /\ reserved' = reserved - 1
          /\ UNCHANGED <<active, sess, retired, conn>>
       \/ /\ \/ run[k].pc = "wait"
             \/ run[k].pc = "busy" /\ run[k].event.type \in {"expired", "unavailable"}
          /\ run' = [run EXCEPT ![k] = NoRun]
          /\ Abort(k)
          /\ UNCHANGED reserved
    /\ UNCHANGED <<store, process, call, online, client>>

-----------------------------------------------------------------------------
(* workerws: the connection of the worker.                                 *)

Free(g) == ~conn[g].up /\ conn[g].pub = None /\ link # g

(* ServeHTTP and RegisterInstance: the new connection takes the worker     *)
(* over and is given the assignments of all its sessions.                  *)
Connect(g) ==
    /\ Serving /\ link = 0 /\ Free(g) /\ \A h \in 1..g - 1 : ~Free(h)
    /\ link' = g /\ online' = g
    /\ conn' = [conn EXCEPT ![g] = [NoConn EXCEPT !.up = TRUE]]
    /\ sess' = [k \in Keys |-> [sess[k] EXCEPT !.assign = sess[k].live]]
    /\ UNCHANGED <<store, process, call, run, reserved, active, retired, sent, settled, batch,
                   assigned, made, outbox, rejected>>

Closed(c, g) == [c EXCEPT ![g].up = FALSE, ![g].in = <<>>, ![g].out = <<>>]
Unregister(g) == online' = IF online = g THEN 0 ELSE online

(* The handler ends: its worker went away or another connection took over. *)
CloseConn(g) ==
    /\ conn[g].up /\ (link # g \/ online # g)
    /\ conn' = Closed(conn, g)
    /\ Unregister(g)
    /\ UNCHANGED <<store, process, call, run, reserved, active, sess, retired, client>>

(* outboundQueue.enqueue: the frame carries the watermark it found, never  *)
(* one below the frames before it.                                         *)
Post(c, g, type, what, reason, ack) ==
    LET n == IF ack < c[g].acked THEN c[g].acked ELSE ack IN
    [c EXCEPT ![g].acked = n,
              ![g].out = Append(@, [type |-> type, what |-> what, reason |-> reason, ack |-> n])]

SendAssignment(g, k) ==
    /\ conn[g].up /\ online = g /\ sess[k].live /\ sess[k].assign
    /\ sess' = [sess EXCEPT ![k].assign = FALSE]
    /\ conn' = Post(conn, g, "assignment", k, None, conn[g].done)
    /\ UNCHANGED <<store, process, call, run, reserved, active, retired, online, client>>

(* readLoop: an event with a durable receipt needs no publishing.          *)
Read(g) ==
    /\ conn[g].up /\ conn[g].pub = None /\ conn[g].in # <<>>
    /\ LET e == Head(conn[g].in)
           stage == IF e \in receipts[e.key] THEN "ok" ELSE "publish" IN
       conn' = [conn EXCEPT ![g].in = Tail(@),
                            ![g].pub = [event |-> e, stage |-> stage, owner |-> FALSE]]
    /\ UNCHANGED <<store, process, memory, client>>

(* Hub.publish up to the point where it waits for the delivery; a resend   *)
(* joins the delivery in flight, which may have its result already.        *)
DeliveryOf(e) ==
    conn[CHOOSE h \in Gens : conn[h].pub # None /\ conn[h].pub.owner /\ conn[h].pub.event = e]
        .pub.stage
\* mutant: a resend is acknowledged before its delivery
PublishAcksInFlight(g) ==
    /\ conn[g].pub # None /\ conn[g].pub.stage = "publish"
    /\ LET e == conn[g].pub.event
           s == sess[e.key]
           known == s.live /\ e \in s.seen \cup s.inflight
           fresh == s.live /\ ~known /\ ~s.ending
           stage == IF known \/ (~s.live /\ retired[e.key] = e) THEN "ok"
                    ELSE IF fresh THEN "wait" ELSE "missing" IN
       /\ conn' = [conn EXCEPT ![g].pub.stage = stage, ![g].pub.owner = fresh]
       /\ sess' = [sess EXCEPT ![e.key] =
             IF fresh THEN [@ EXCEPT !.inflight = @ \cup {e}, !.queue = Append(@, e),
                                     !.ending = Ends(e)] ELSE @]
    /\ UNCHANGED <<store, process, call, run, reserved, active, retired, online, client>>

Publish(g) ==
    /\ conn[g].pub # None /\ conn[g].pub.stage = "publish"
    /\ LET e == conn[g].pub.event
           k == e.key
           s == sess[k]
           known == s.live /\ (e \in s.seen \/ (e.type = "accepted" /\ s.accepted))
           fresh == s.live /\ ~known /\ e \notin s.inflight /\ ~s.ending
           stage == IF known \/ (~s.live /\ retired[k] = e) THEN "ok"
                    ELSE IF fresh THEN "wait"
                    ELSE IF e \in s.inflight THEN DeliveryOf(e) ELSE "missing" IN
       /\ conn' = [conn EXCEPT ![g].pub.stage = stage, ![g].pub.owner = fresh]
       /\ sess' = [sess EXCEPT ![k] =
             IF fresh THEN [@ EXCEPT !.inflight = @ \cup {e}, !.queue = Append(@, e),
                                     !.ending = Ends(e)]
             ELSE IF known THEN [@ EXCEPT !.seen = @ \cup {e}]
             ELSE @]
    /\ UNCHANGED <<store, process, call, run, reserved, active, retired, online, client>>

(* Hub.publish after the wait: its own delivery leaves the session, and a  *)
(* committed terminal event retires it.                                    *)
Deliver(g) ==
    LET e == conn[g].pub.event
        k == e.key
        s == sess[k]
        ok == conn[g].pub.stage = "ok" IN
    /\ conn[g].pub # None /\ conn[g].pub.owner
    /\ conn[g].pub.stage \in {"ok", "refused", "missing", "error"}
    /\ retired' = IF ok /\ Ends(e) THEN [retired EXCEPT ![k] = e] ELSE retired
    /\ IF s.live /\ ok /\ Ends(e)
       THEN /\ Retire(k)
            /\ conn' = [Release(conn, s.inflight \ {e}, "missing") EXCEPT ![g].pub.owner = FALSE]
       ELSE /\ sess' = IF ~s.live THEN sess
                       ELSE [sess EXCEPT ![k].inflight = @ \ {e},
                                ![k].seen = IF ok THEN @ \cup {e} ELSE @,
                                ![k].accepted = @ \/ (ok /\ e.type = "accepted"),
                                ![k].ending = @ /\ ~Ends(e)]
            /\ conn' = [conn EXCEPT ![g].pub.owner = FALSE]
            /\ UNCHANGED active
    /\ UNCHANGED <<store, process, call, run, reserved, online, client>>

(* readLoop's answer: the ACK, or the rejection frame before its watermark *)
(* (enqueueRejection), or the end of the connection.                       *)
Answer(g) ==
    /\ conn[g].pub # None /\ ~conn[g].pub.owner
    /\ LET n == conn[g].done + 1
           e == conn[g].pub.event
           finished(c) == [c EXCEPT ![g].pub = None, ![g].done = n] IN
       CASE ~conn[g].up /\ conn[g].pub.stage \notin {"publish", "wait"} ->
              conn' = [conn EXCEPT ![g].pub = None] /\ UNCHANGED online
         [] conn[g].up /\ conn[g].pub.stage = "ok" ->
              conn' = Post(finished(conn), g, "ack", e, None, n) /\ UNCHANGED online
         [] conn[g].up /\ conn[g].pub.stage \in {"refused", "missing"} ->
              /\ conn' = [Post(conn, g, "rejected", e, conn[g].pub.stage, n)
                             EXCEPT ![g].pub.stage = "store"]
              /\ UNCHANGED online
         [] conn[g].up /\ conn[g].pub.stage = "store" ->
              conn' = finished(conn) /\ UNCHANGED online
         [] conn[g].up /\ conn[g].pub.stage = "error" ->
              conn' = [Closed(conn, g) EXCEPT ![g].pub = None] /\ Unregister(g)
         [] OTHER -> FALSE
    /\ UNCHANGED <<store, process, call, run, reserved, active, sess, retired, client>>

-----------------------------------------------------------------------------
(* workerclient: the outbox and the connection's client side.              *)

Inflight == {sent[i] : i \in settled + 1..Len(sent)}

(* SendEvent: the event is durable before it is sent.  The worker bridge   *)
(* accepts an assignment when it has stored it, before it answers.         *)
SendEvent(e) ==
    /\ e.key \in assigned /\ e \notin made
    /\ e.type = "accepted" \/ Event(e.key, "accepted") \in made
    /\ made' = made \cup {e} /\ outbox' = Append(outbox, e)
    /\ UNCHANGED <<store, process, memory, conn, link, sent, settled, batch, assigned, rejected>>

(* flush lists the outbox, then sends what is not in flight, one record    *)
(* at a time; acknowledgements arrive in between.                          *)
FlushList ==
    /\ link # 0 /\ batch = <<>> /\ ~(ToSet(outbox) \subseteq Inflight)
    /\ batch' = outbox
    /\ UNCHANGED <<store, process, memory, conn, link, sent, settled, assigned, made, outbox,
                   rejected>>

SendOutboxRecord ==
    /\ batch # <<>>
    /\ IF Head(batch) \in Inflight \/ link = 0
       THEN /\ batch' = IF link = 0 THEN <<>> ELSE Tail(batch)
            /\ UNCHANGED <<sent, conn>>
       ELSE /\ batch' = Tail(batch)
            /\ sent' = Append(sent, Head(batch))
            /\ conn' = IF conn[link].up THEN [conn EXCEPT ![link].in = Append(@, Head(batch))]
                       ELSE conn
    /\ UNCHANGED <<store, process, memory, link, settled, assigned, made, outbox, rejected>>
\* mutant: what was in flight stays in flight
DisconnectKeepsInflight == link' = 0 /\ UNCHANGED <<sent, settled>>

Disconnect == link' = 0 /\ sent' = <<>> /\ settled' = 0

Without(events) == SelectSeq(outbox, LAMBDA e : e \notin events)
Covered(n) == {sent[i] : i \in settled + 1..n}

(* readConnection.  A rejection that contradicts the recorded one, or is   *)
(* of an event the outbox no longer knows, ends the connection.            *)
Receive ==
    /\ link # 0 /\ conn[link].out # <<>>
    /\ LET f == Head(conn[link].out)
           n == IF f.ack < settled THEN settled ELSE f.ack
           before == {r \in rejected : r[1] = f.what}
           known == f.what \in ToSet(outbox)
           refuse == f.type = "rejected"
                        /\ IF before # {} THEN <<f.what, f.reason>> \notin before ELSE ~known IN
       /\ conn' = [conn EXCEPT ![link].out = Tail(@)]
       /\ IF refuse
          THEN Disconnect /\ UNCHANGED <<outbox, rejected, assigned>>
          ELSE /\ settled' = n
               /\ outbox' = Without(Covered(n) \cup (IF f.type = "rejected" THEN {f.what} ELSE {}))
               /\ rejected' = IF f.type = "rejected" THEN rejected \cup {<<f.what, f.reason>>}
                              ELSE rejected
               /\ assigned' = IF f.type = "assignment" THEN assigned \cup {f.what} ELSE assigned
               /\ UNCHANGED <<link, sent>>
    /\ UNCHANGED <<store, process, memory, batch, made>>

(* The client finds its connection closed, or loses it.                    *)
LoseConnection ==
    /\ link # 0 /\ ~conn[link].up
    /\ Disconnect
    /\ UNCHANGED <<store, process, memory, conn, batch, assigned, made, outbox, rejected>>

Drop ==
    /\ link # 0 /\ conn[link].up /\ Fault
    /\ Disconnect
    /\ UNCHANGED <<store, server, todo, believed, damage, stopped, memory, conn, batch, assigned,
                   made, outbox, rejected>>

-----------------------------------------------------------------------------
(* Process life: crash, shutdown, damage while it is down, and Open.       *)

Forget(how) ==
    /\ server' = how /\ todo' = <<>>
    /\ call' = [c \in Calls |-> IF call[c] = "idle" THEN "idle" ELSE "done"]
    /\ run' = [k \in Keys |-> NoRun] /\ reserved' = 0 /\ active' = 0
    /\ sess' = [k \in Keys |-> NoSession] /\ retired' = [k \in Keys |-> None]
    /\ online' = 0 /\ conn' = [g \in Gens |-> NoConn]
    /\ Disconnect
    /\ UNCHANGED <<believed, damage, batch, assigned, made, outbox, rejected>>

Crash == Working /\ Fault /\ Forget("down") /\ UNCHANGED <<store, stopped>>

(* Gateway.Close: the runtime context ends first, the sockets later.       *)
Shutdown ==
    /\ server = "up" /\ Fault
    /\ server' = "stopping" /\ stopped' = TRUE
    /\ UNCHANGED <<store, todo, believed, damage, memory, conn, client>>

Exit == server = "stopping" /\ Forget("down") /\ UNCHANGED <<store, stopped, faults>>

(* A row can no longer be decrypted or decoded.                            *)
Damage(k) ==
    /\ server = "down" /\ damage[k] = "none"
    /\ Open(k) \/ (DamageSettled /\ Recoverable(k))
    /\ \E part \in {"request", "log"} : damage' = [damage EXCEPT ![k] = part]
    /\ UNCHANGED <<store, server, todo, believed, stopped, faults, memory, conn, client>>

(* Recover: ListRecoverableRequests reads every request with its task;     *)
(* requests that cannot be read are issues and come first.                 *)
Reopen ==
    LET issue(k) == Recoverable(k) /\ damage[k] = "request"
        readable(k) == Recoverable(k) /\ damage[k] # "request" IN
    /\ server \in {"down", "refused"}
    /\ server' = "recovering"
    /\ LET keys == SelectSeq(KeyOrder, issue) \o SelectSeq(KeyOrder, readable) IN
       todo' = [i \in DOMAIN keys |-> [key |-> keys[i], status |-> request[keys[i]].status]]
    /\ believed' = [t \in Tasks |-> task[t].state]
    /\ UNCHANGED <<store, damage, stopped, faults, memory, conn, client>>

Recovering(k) == server = "recovering" /\ todo # <<>> /\ Head(todo).key = k
NextKey(k) == Recovering(k) /\ todo' = Tail(todo)
RefuseToOpen == Forget("refused") /\ UNCHANGED <<stopped, faults>>

(* The steps of a request that recovery has still to bring to their end.   *)
Steps(k) == SelectSeq(log[k], LAMBDA row : row.kind = "step")
Unfinished(k) == SelectSeq(Steps(k), LAMBDA row : ~Persisted(k, row.event))
Ended(k) == \E i \in 1..Len(Steps(k)) : Ends(Steps(k)[i].event)
Stale(t) == believed[t] # task[t].state

RecoverIssue(k) ==
    /\ NextKey(k) /\ damage[k] = "request"
    /\ QuarantineRecoveryRequest(k)
    /\ UNCHANGED <<server, believed, damage, stopped, faults, memory, conn, client>>

(* recoverRequest up to the HTTP boundary: the checkpoint that is missing. *)
Uncheckpointed(k) ==
    \/ log[k] = <<>>
    \/ request[k].stream /\ (Wires(k) = 0 \/ request[k].status = 0)

RecoverCheckpoint(k) ==
    /\ Recovering(k) /\ damage[k] = "none" /\ Uncheckpointed(k)
    /\ IF log[k] = <<>> THEN AppendResponseEvent(k, "stream")
       ELSE IF Wires(k) = 0 THEN AppendResponseEvent(k, "wire")
       ELSE BeginResponse(k)
    /\ UNCHANGED <<process, memory, conn, client>>

(* recoverRequest: a step without Applied is applied from the state        *)
(* recovery believes the task is in.                                       *)
RecoverStep(k) ==
    LET t == request[k].task
        e == Unfinished(k)[1].event IN
    /\ Recovering(k) /\ damage[k] = "none" /\ ~Uncheckpointed(k) /\ Unfinished(k) # <<>>
    /\ IF Stale(t) /\ ~Has(k, "applied", e) THEN RefuseToOpen /\ UNCHANGED store
       ELSE /\ ApplyStage(k, e) \/ CloseStage(k, e)
            /\ believed' = [believed EXCEPT ![t] = task'[t].state]
            /\ UNCHANGED <<server, todo, damage, stopped, faults, memory, conn, client>>

Restorable(k) ==
    /\ damage[k] = "none" /\ ~Uncheckpointed(k) /\ Unfinished(k) = <<>>
    /\ Ended(k) \/ ~Stale(request[k].task)

(* Hub.Restore and a new consumer, unless the response has ended.          *)
RecoverSession(k) ==
    /\ NextKey(k) /\ Restorable(k)
    /\ IF Ended(k) THEN UNCHANGED <<sess, active, run>>
       ELSE /\ OpenSession(k, believed[request[k].task] = "awaiting_human",
                           {Steps(k)[i].event : i \in 1..Len(Steps(k))})
            /\ run' = [run EXCEPT ![k] = [pc |-> "wait", event |-> None]]
    /\ UNCHANGED <<store, server, believed, damage, stopped, faults, call, reserved, retired,
                   online, conn, client>>

(* failClosedRecoveryRequest of a log that cannot be read, or of a task    *)
(* that is not as it was listed.  A conflict stops the gateway.            *)
Unrecoverable(k) ==
    /\ damage[k] # "request"
    /\ \/ damage[k] = "log"
       \/ ~Uncheckpointed(k) /\ Unfinished(k) = <<>> /\ ~Restorable(k)

RecoverFailClosed(k) ==
    LET t == request[k].task
        failure == Event(k, "failed")
        before == Head(todo).status = 0 /\ believed[t] \in Fresh
        blocked == IF before THEN Stale(t) \/ request[k].complete \/ request[k].status # 0
                   ELSE IF Has(k, "step", failure) THEN Stale(t) /\ ~Has(k, "applied", failure)
                   ELSE request[k].complete \/ believed[t] \in Terminal IN
    /\ Recovering(k) /\ Unrecoverable(k)
    /\ IF blocked THEN RefuseToOpen /\ UNCHANGED store
       ELSE IF before
       THEN /\ FailRequest(k, believed[t]) /\ todo' = Tail(todo)
            /\ UNCHANGED <<server, believed, damage, stopped, faults, memory, conn, client>>
       ELSE /\ IF Persisted(k, failure) THEN todo' = Tail(todo) /\ UNCHANGED <<store, believed>>
               ELSE /\ \/ ~Has(k, "step", failure) /\ AppendWorkerResponseEvent(k, "step", failure)
                       \/ ApplyStage(k, failure)
                       \/ CloseStage(k, failure)
                    /\ believed' = IF Has(k, "step", failure)
                                   THEN [believed EXCEPT ![t] = task'[t].state] ELSE believed
                    /\ UNCHANGED todo
            /\ UNCHANGED <<server, damage, stopped, faults, memory, conn, client>>

Opened ==
    /\ server = "recovering" /\ todo = <<>>
    /\ server' = "up"
    /\ UNCHANGED <<store, todo, believed, damage, stopped, faults, memory, conn, client>>

(* purgeLoop: the grace (a day) outlasts the consumer of the response.     *)
PurgeExpired ==
    /\ server = "up"
    /\ \E ks \in SUBSET {k \in Keys : run[k].pc = "none"} : Purge(ks)
    /\ UNCHANGED <<process, memory, conn, client>>

-----------------------------------------------------------------------------
Handler(c) ==
    Submit(c) \/ Route(c) \/ Reserve(c) \/ Begin(c) \/ Checkpoint(c) \/ Start(c) \/ Boundary(c)
    \/ Handover(c) \/ Flush(c)

Consumer(k) == Enqueue(k) \/ Take(k) \/ Persist(k) \/ Finish(k) \/ Refuse(k) \/ Stop(k)

Reader(g) == Read(g) \/ Publish(g) \/ Deliver(g) \/ Answer(g)

Recovery(k) ==
    RecoverIssue(k) \/ RecoverCheckpoint(k) \/ RecoverStep(k) \/ RecoverSession(k)
    \/ RecoverFailClosed(k)

Faults ==
    \/ Crash \/ Shutdown \/ Drop
    \/ \E c \in Calls : HangUp(c)
    \/ \E k \in Keys : Damage(k)

Steady ==
    \/ \E c \in Calls : Handler(c)
    \/ \E k \in Keys : Consumer(k) \/ Expire(k) \/ Recovery(k)
    \/ \E g \in Gens : Connect(g) \/ CloseConn(g) \/ Reader(g)
    \/ \E g \in Gens, k \in Keys : SendAssignment(g, k)
    \/ \E e \in Answers : SendEvent(e)
    \/ FlushList \/ SendOutboxRecord \/ Receive \/ LoseConnection
    \/ Exit \/ Reopen \/ Opened

Next == Steady \/ PurgeExpired \/ (\E k \in Keys : Heartbeat(k)) \/ Faults

Spec == Init /\ [][Next]_vars

(* Goroutines run, timers fire, the client reconnects and the process is   *)
(* started again.                                                          *)
Fairness ==
    /\ \A c \in Calls : WF_vars(call[c] # "idle" /\ Handler(c))
    /\ \A k \in Keys : WF_vars(Consumer(k)) /\ WF_vars(Expire(k)) /\ WF_vars(Recovery(k))
    /\ \A g \in Gens : WF_vars(Reader(g)) /\ WF_vars(CloseConn(g))
    /\ WF_vars(\E g \in Gens : Connect(g))
    /\ WF_vars(FlushList) /\ WF_vars(SendOutboxRecord) /\ WF_vars(Receive)
    /\ WF_vars(LoseConnection) /\ WF_vars(Exit) /\ WF_vars(Reopen) /\ WF_vars(Opened)

-----------------------------------------------------------------------------

(* The types of the gateway's and the worker's state: the server's counts  *)
(* of reserved and active slots stay within the callers there are.         *)
TypeOK ==
    /\ StoreTypeOK
    /\ server \in {"up", "stopping", "down", "recovering", "refused"}
    /\ {reserved, active} \subseteq 0..Cardinality(Calls)
    /\ \A k \in Keys : sess[k].queue \in Seq(Events) /\ sess[k].seen \subseteq Events
    /\ ToSet(outbox) \cup made \subseteq Events

(* An event the worker's outbox has let go of without a rejection has its  *)
(* durable receipt: an ACK is never sent for an event that a crash, a      *)
(* retired session or a resend on another connection could still lose.     *)
AckImpliesDurable ==
    \A e \in made :
        \/ e \in ToSet(outbox) \/ e \in receipts[e.key]
        \/ \E r \in rejected : r[1] = e

(* When the worker learns that validation refused its event, the event has *)
(* no durable step; when it learns that the session is missing, the        *)
(* response is over or another answer of this worker was about to end it   *)
(* (as long as no shutdown has aborted sessions).                          *)
RejectionsAreTrue ==
    [][\A r \in rejected' \ rejected :
        /\ r[2] = "refused" => ~Has(r[1].key, "step", r[1])
        /\ r[2] = "missing" /\ ~stopped =>
              \/ request[r[1].key].complete
              \/ \E e \in made \ {r[1]} : e.key = r[1].key /\ Ends(e)]_vars

(* Where the task of an open request stands is what the log of the request *)
(* says, through every crash between two of persistAndApplyEvent's stages: *)
(* no step means a fresh turn, and an applied step its last state.         *)
Result(t, e) ==
    CASE e.type = "accepted" -> "awaiting_human"
      [] e.type = "tools" -> IF t \in Chat THEN "completed" ELSE "awaiting_results"
      [] e.type = "clarification" -> IF t \in Chat THEN "completed" ELSE "awaiting_caller"
      [] e.type = "final" -> "completed"
      [] e.type = "unavailable" -> "failed"
      [] OTHER -> e.type

TaskFollowsLog ==
    \A k \in Keys : Open(k) =>
        LET t == request[k].task
            steps == Steps(k) IN
        IF steps = <<>> THEN task[t].state \in Fresh
        ELSE Has(k, "applied", Last(steps).event) =>
                 task[t].state = Result(t, Last(steps).event)

(* A task that is not finished can be continued: a request is at work on   *)
(* it, its caller is expected with an answer or with tool results, or it   *)
(* holds the grant of an exact retry.                                      *)
NoStuckTask ==
    \A t \in Tasks : task[t].state \in States \ Terminal =>
        \/ Active(t)
        \/ task[t].state = "awaiting_caller"
        \/ task[t].state = "awaiting_results" /\ Pending(t) # {}
        \/ task[t].state \in Fresh /\ task[t].retry # None

(* Once the gateway serves, every open request has somebody who will end   *)
(* it: its handler, its dispatcher or the consumer of its session.         *)
NoEndlessRequest ==
    server = "up" => \A k \in Keys : Open(k) =>
        \/ run[k].pc # "none"
        \/ \E c \in Calls : c.key = k
              /\ call[c] \in {"checkpoint", "start", "boundary", "handover"}

(* The hub's counters are exactly the capacity in use, whatever a hang-up, *)
(* an expiry, a takeover or a shutdown interrupts: none leaks and none is  *)
(* returned twice.                                                         *)
CapacityAccounts ==
    /\ active = Cardinality({k \in Keys : sess[k].live})
    /\ reserved =
          Cardinality({c \in Calls : call[c] \in {"begin", "checkpoint", "start", "boundary",
                                                  "handover"}})
          + Cardinality({k \in Keys : run[k].pc \in {"gate", "enqueue"}})
    /\ \A k \in Keys : sess[k].live =>
          \/ run[k].pc # "none"
          \/ \E g \in Gens : conn[g].pub # None /\ conn[g].pub.owner /\ conn[g].pub.event.key = k

(* Every admitted request gets its final answer: from the worker, when its *)
(* deadline passes, or from recovery, unless recovery refuses to open.     *)
RequestsEnd == \A k \in Keys : []<>(~Open(k) \/ server = "refused")

(* Every event the worker put into its outbox is acknowledged or rejected  *)
(* over some connection, unless recovery refuses to open.                  *)
OutboxDrains == []<>(outbox = <<>> \/ server = "refused")

(* At most one request works on a task and at most one task is open in a   *)
(* session; a grant of a retry belongs to a task that rests (BeginRequest). *)
RequestsAreSound == TypeOK /\ OneActiveRequestPerTask /\ OneOpenTaskPerSession /\ GrantIsIdle

(* A task stands where its request's log says, and can go on from there.   *)
TasksGoOn == TaskFollowsLog /\ NoStuckTask

(* Whoever holds a slot, and every open request, has somebody at work on   *)
(* it, whatever was interrupted.                                           *)
NothingLeftOpen == CapacityAccounts /\ NoEndlessRequest

(* What the worker and the caller were told is never taken back: a         *)
(* rejected event has no effect, a committed status stays.                 *)
AnswersAreFinal == RejectionsAreTrue /\ DecisionImmutable

(* Requests end and outboxes drain, unless recovery refuses to open.       *)
EverythingEnds == RequestsEnd /\ OutboxDrains
=============================================================================
