--------------------------- MODULE AgentWorkerLink ---------------------------
(***************************************************************************)
(* The worker's side of HumanAgent: AgentWorkerEndpoint with its           *)
(* connections, the WebSocket transport of agent/workerws, its durable     *)
(* Client and the Client's Journal, on top of the Agent core of            *)
(* AgentLedger.                                                            *)
(*                                                                         *)
(* A connection polls the core for the worker's leases and claims new      *)
(* tasks; what it read goes through a bounded channel and a socket before  *)
(* the worker stores it, while callers and the worker itself change the    *)
(* tasks.  A delivery is identified by the digest of the assignment, so a  *)
(* task that changed under its lease is a new delivery.  The Client sends  *)
(* its events one at a time and keeps each until a receipt settles it.     *)
(*                                                                         *)
(* The receipts a connection remembers are not modelled: the Client sends  *)
(* an event again only over a new connection, which remembers nothing.     *)
(***************************************************************************)
EXTENDS AgentLedger, FiniteSets

CONSTANTS
    ClaimIDs,          \* newWorkerEndpointCommandID: fresh ids of claims
    Replies,           \* the events humans may send
    AssignmentBuffer,  \* WorkerEndpointConfig.AssignmentBuffer
    JournalLimit,      \* MaxPendingRecords
    MaxFaults          \* failed store calls, broken connections, crashes and late ACKs

ASSUME LinkAssumption ==
    /\ ClaimIDs \subseteq IDs
    /\ Replies \subseteq [id: IDs, kind: WorkerKinds, worker: Workers]
    /\ AssignmentBuffer \in Nat \ {0}
    /\ {JournalLimit, MaxFaults} \subseteq Nat

VARIABLES
    conn,      \* endpoint.active holds a live connection of the worker
    phase,     \* where the connection's loop is
    listed,    \* the assignments its last ListLeases returned
    todo,      \* those it has still to publish
    claimID,   \* the claim whose outcome it does not know
    offered,   \* connection.assignment
    taken,     \* those of them the worker acknowledged
    retired,   \* connection.retired
    queue,     \* connection.assignments, the channel
    client,    \* Client: "off" between sessions, "on" in one, "failed" for good
    inbox,     \* Journal: the assignments pending
    confirmed, \* Journal: the assignments settled
    outbox,    \* Journal: the events pending, oldest first
    settled,   \* Journal: the events settled, with the receipt's decision
    rejected,  \* Journal: NACKs the application has not confirmed
    inFlight,  \* the session's unanswered event, as a sequence of at most one
    toServer,  \* frames on the way to the transport
    toWorker,  \* frames on the way to the client
    faults

ledger == vars
loop == <<phase, listed, todo, claimID>>
deliveries == <<offered, taken, retired, queue>>
endpoint == <<conn, loop, deliveries>>
journal == <<inbox, confirmed, outbox, settled, rejected>>
wire == <<client, inFlight, toServer, toWorker>>
allVars == <<ledger, endpoint, journal, wire, faults>>

Each(value) == [w \in Workers |-> value]

LinkInit ==
    /\ Init
    /\ conn = Each(FALSE) /\ phase = Each("sync") /\ claimID = Each(None)
    /\ listed = Each({}) /\ todo = Each({})
    /\ offered = Each({}) /\ taken = Each({}) /\ retired = Each({}) /\ queue = Each(<<>>)
    /\ client = Each("off") /\ inFlight = Each(<<>>)
    /\ inbox = Each({}) /\ confirmed = Each({}) /\ rejected = Each({})
    /\ outbox = Each(<<>>) /\ settled = Each({})
    /\ toServer = Each(<<>>) /\ toWorker = Each(<<>>)
    /\ faults = 0

(* newWorkerAssignmentDelivery: the grant and the task as it was read.     *)
Delivery(t, rec) ==
    [task |-> t, fence |-> rec.fence, revision |-> rec.revision, state |-> rec.state]

(* ListLeases: the tasks the worker owns, as they are now.                 *)
Leases(w) == {Delivery(t, task[t]) : t \in {u \in Tasks : task[u].owner = w}}

Frame(type, body, decision) == [type |-> type, body |-> body, decision |-> decision]

Fault == faults < MaxFaults /\ faults' = faults + 1
-----------------------------------------------------------------------------
(* The connection's loop: synchronizeAssignments, then claimTask.          *)

Synchronize(w) ==
    /\ conn[w] /\ phase[w] = "sync"
    /\ \/ /\ listed' = [listed EXCEPT ![w] = Leases(w)]
          /\ todo' = [todo EXCEPT ![w] = Leases(w)]
          /\ phase' = [phase EXCEPT ![w] = "publish"]
          /\ UNCHANGED faults
       \/ Fault /\ phase' = [phase EXCEPT ![w] = "claim"] /\ UNCHANGED <<listed, todo>>
    /\ UNCHANGED <<ledger, conn, claimID, deliveries, journal, wire>>

\* mutant: what was sent once is not sent again while its task is held
PublishOnce(w, d) ==
    /\ conn[w] /\ phase[w] \in {"publish", "deliver"}
    /\ d \in todo[w] /\ Len(queue[w]) < AssignmentBuffer
    /\ queue' = IF \E o \in offered[w] : o.task = d.task THEN queue
                ELSE [queue EXCEPT ![w] = Append(@, d)]
    /\ todo' = [todo EXCEPT ![w] = @ \ {d}]
    /\ offered' = [offered EXCEPT ![w] = @ \cup {d}]
    /\ UNCHANGED <<ledger, conn, phase, listed, claimID, taken, retired, journal, wire, faults>>

(* publishAssignment: what is acknowledged is not sent again, what was     *)
(* sent only after the redelivery interval, and a full channel blocks.     *)
Publish(w, d) ==
    LET again == d \in offered[w] /\ phase[w] = "publish"
    IN  /\ conn[w] /\ phase[w] \in {"publish", "deliver"}
        /\ d \in todo[w]
        /\ \/ /\ d \notin taken[w]
              /\ Len(queue[w]) < AssignmentBuffer
              /\ IF again THEN Fault ELSE UNCHANGED faults
              /\ queue' = [queue EXCEPT ![w] = Append(@, d)]
           \/ /\ d \in taken[w] \/ again
              /\ UNCHANGED <<queue, faults>>
        /\ todo' = [todo EXCEPT ![w] = @ \ {d}]
        /\ offered' = [offered EXCEPT ![w] = @ \cup {d}]
        /\ UNCHANGED <<ledger, conn, phase, listed, claimID, taken, retired, journal, wire>>

(* retireAssignmentsExcept, retireTask: a late ACK must still be known.    *)
RetireExcept(w, current) ==
    /\ retired' = [retired EXCEPT ![w] = @ \cup (offered[w] \ current)]
    /\ offered' = [offered EXCEPT ![w] = @ \cap current]
    /\ taken' = [taken EXCEPT ![w] = @ \cap current]

RetireUnlisted(w) ==
    /\ conn[w] /\ todo[w] = {}
    /\ \/ phase[w] = "publish" /\ RetireExcept(w, listed[w]) /\ phase' = [phase EXCEPT ![w] = "claim"]
       \/ phase[w] = "deliver" /\ phase' = [phase EXCEPT ![w] = "sync"] /\ UNCHANGED <<offered, taken, retired>>
    /\ UNCHANGED <<ledger, conn, listed, todo, claimID, queue, journal, wire, faults>>

ClaimCommand(id, w) ==
    [id |-> id, kind |-> "claim_lease", task |-> CHOOSE t \in Tasks : TRUE, worker |-> w,
     fence |-> 0, revision |-> 0, ident |-> id, artifact |-> None, base |-> <<>>,
     decision |-> "rejected"]

(* A claim keeps its id until its outcome is known.                        *)
ClaimIDFor(w) ==
    LET fresh == {id \in ClaimIDs : command[id] = None /\ \A v \in Workers : claimID[v] # id}
    IN  IF claimID[w] # None THEN {claimID[w]}
        ELSE IF fresh = {} THEN {} ELSE {CHOOSE id \in fresh : TRUE}

Claimed(w, outcome) ==
    /\ claimID' = [claimID EXCEPT ![w] = None]
    /\ todo' = [todo EXCEPT ![w] = {Delivery(outcome.task, outcome.result)}]
    /\ phase' = [phase EXCEPT ![w] = "deliver"]

ClaimUnsettled(w, id) ==
    /\ claimID' = [claimID EXCEPT ![w] = id]
    /\ phase' = [phase EXCEPT ![w] = "sync"]
    /\ UNCHANGED todo

ClaimTask(w) ==
    /\ conn[w] /\ phase[w] = "claim"
    /\ \/ \E id \in ClaimIDFor(w) :
            LET c == ClaimCommand(id, w)
            IN  \/ Perform(c) /\ Claimed(w, command'[id]) /\ UNCHANGED faults
                \/ Replay(c) /\ Claimed(w, command[id]) /\ UNCHANGED faults
                \/ Perform(c) /\ ClaimUnsettled(w, id) /\ Fault
                \/ /\ command[id] = None
                   /\ \A t \in Tasks : ~(Leasable(t) /\ Countable(task[t].fence))
                   /\ ClaimUnsettled(w, id)
                   /\ UNCHANGED <<ledger, faults>>
                \/ Fault /\ ClaimUnsettled(w, id) /\ UNCHANGED ledger
       \/ /\ ClaimIDFor(w) = {}  \* the bound on claims is reached
          /\ phase' = [phase EXCEPT ![w] = "sync"]
          /\ UNCHANGED <<ledger, claimID, todo, faults>>
    /\ UNCHANGED <<conn, listed, deliveries, journal, wire>>
-----------------------------------------------------------------------------
(* The Client.                                                             *)

(* A frame is written into a connection whose other end may be gone.       *)
SendToServer(w, frames) ==
    toServer' = [toServer EXCEPT ![w] = IF conn[w] THEN @ \o frames ELSE @]

SendToWorker(w, frames) ==
    toWorker' = [toWorker EXCEPT ![w] = IF client[w] = "on" THEN @ \o frames ELSE @]

(* flushPendingEvent: the oldest pending event, one at a time.             *)
Oldest(events) == IF events = <<>> THEN <<>> ELSE <<Head(events)>>

EventFrames(events) ==
    LET next == Oldest(events)
    IN  [i \in DOMAIN next |-> Frame("event", next[i], "none")]

EndSession(w, why) ==
    /\ client' = [client EXCEPT ![w] = why]
    /\ inFlight' = [inFlight EXCEPT ![w] = <<>>]
    /\ toWorker' = [toWorker EXCEPT ![w] = <<>>]

(* runSession, OpenWorker: one connection per worker.  While the endpoint  *)
(* still holds the last one, the answer is a conflict and the Client dials *)
(* again.  A new connection knows nothing of the last one.                 *)
Connect(w) ==
    /\ client[w] = "off" /\ ~conn[w]
    /\ conn' = [conn EXCEPT ![w] = TRUE]
    /\ phase' = [phase EXCEPT ![w] = "sync"]
    /\ client' = [client EXCEPT ![w] = "on"]
    /\ toServer' = [toServer EXCEPT ![w] = EventFrames(outbox[w])]
    /\ inFlight' = [inFlight EXCEPT ![w] = Oldest(outbox[w])]
    /\ UNCHANGED <<ledger, listed, todo, claimID, deliveries, journal, toWorker, faults>>

(* The event wake of a session without an event in flight.                 *)
Flush(w) ==
    /\ client[w] = "on" /\ inFlight[w] = <<>> /\ outbox[w] # <<>>
    /\ inFlight' = [inFlight EXCEPT ![w] = Oldest(outbox[w])]
    /\ SendToServer(w, EventFrames(outbox[w]))
    /\ UNCHANGED <<ledger, endpoint, journal, client, toWorker, faults>>

PendingRecords(w) == Cardinality(inbox[w]) + Len(outbox[w]) + Cardinality(rejected[w])

Reads(w, type) == client[w] = "on" /\ toWorker[w] # <<>> /\ Head(toWorker[w]).type = type

(* PutAssignment, then the ACK.  A full journal, or one that could not be  *)
(* read or written, ends the session; after a failed commit the record may *)
(* be there.                                                               *)
ReceiveAssignment(w) ==
    LET d == Head(toWorker[w]).body
        known == d \in inbox[w] \cup confirmed[w]
        put == inbox' = [inbox EXCEPT ![w] = IF known THEN @ ELSE @ \cup {d}]
        room == known \/ PendingRecords(w) < JournalLimit
    IN  /\ Reads(w, "assignment")
        /\ \/ /\ room /\ put
              /\ toWorker' = [toWorker EXCEPT ![w] = Tail(@)]
              /\ SendToServer(w, <<Frame("ack", d, "none")>>)
              /\ UNCHANGED <<client, inFlight, faults>>
           \/ ~room /\ EndSession(w, "off") /\ UNCHANGED <<inbox, toServer, faults>>
           \/ /\ room /\ Fault /\ EndSession(w, "off")
              /\ put \/ UNCHANGED inbox
              /\ UNCHANGED toServer
        /\ UNCHANGED <<ledger, endpoint, confirmed, outbox, settled, rejected>>

(* SettleEvent: one transaction takes the event out of the outbox, and     *)
(* keeps a NACK for the application whatever the journal's limit.          *)
SettleEvent(w, e, decision) ==
    /\ outbox' = [outbox EXCEPT ![w] = SelectSeq(@, LAMBDA other : other # e)]
    /\ settled' = [settled EXCEPT ![w] = @ \cup {[event |-> e, decision |-> decision]}]
    /\ rejected' = [rejected EXCEPT ![w] = IF decision = "ack" THEN @ ELSE @ \cup {e}]

(* A receipt settles the event in flight and makes way for the next one.   *)
(* If the journal failed, the session ends with the event settled or not.  *)
ReceiveReceipt(w) ==
    LET settle == SettleEvent(w, Head(inFlight[w]), Head(toWorker[w]).decision)
    IN  /\ Reads(w, "receipt")
        /\ inFlight[w] # <<>>
        /\ \/ /\ settle
              /\ toWorker' = [toWorker EXCEPT ![w] = Tail(@)]
              /\ inFlight' = [inFlight EXCEPT ![w] = Oldest(outbox'[w])]
              /\ SendToServer(w, EventFrames(outbox'[w]))
              /\ UNCHANGED <<client, faults>>
           \/ /\ Fault /\ EndSession(w, "off")
              /\ settle \/ UNCHANGED <<outbox, settled, rejected>>
              /\ UNCHANGED toServer
        /\ UNCHANGED <<ledger, endpoint, inbox, confirmed>>

(* classifyConnectionFailure: a policy violation ends the Client for good, *)
(* anything else the session.                                              *)
ReceiveClose(w) ==
    /\ Reads(w, "close")
    /\ EndSession(w, IF Head(toWorker[w]).decision = "policy" THEN "failed" ELSE "off")
    /\ UNCHANGED <<ledger, endpoint, journal, toServer, faults>>

ReceiveEOF(w) ==
    /\ client[w] = "on" /\ toWorker[w] = <<>> /\ ~conn[w]
    /\ EndSession(w, "off")
    /\ UNCHANGED <<ledger, endpoint, journal, toServer, faults>>

(* The network, or a worker that is restarted, loses the frames on their   *)
(* way to the worker and all but the first n on their way to the Agent,    *)
(* which keeps its end of the connection until it notices.                 *)
Drop(w) ==
    /\ client[w] = "on" /\ Fault
    /\ EndSession(w, "off")
    /\ \E n \in 0..Len(toServer[w]) : toServer' = [toServer EXCEPT ![w] = SubSeq(@, 1, n)]
    /\ UNCHANGED <<ledger, endpoint, journal>>

(* An event answers an assignment as the human last saw it.                *)
EventFor(w, d, reply) ==
    [id |-> reply.id, kind |-> reply.kind, task |-> d.task, worker |-> w, fence |-> d.fence,
     revision |-> d.revision, ident |-> reply.id, artifact |-> None, base |-> <<>>,
     decision |-> "rejected"]

Answerable(w) == client[w] # "failed"

(* SendEvent, on line or off: an answer to an assignment the worker holds  *)
(* or has confirmed.  An id is journalled once.                            *)
SendEvent(w, d, reply) ==
    /\ Answerable(w)
    /\ reply.worker = w
    /\ d \in inbox[w] \cup confirmed[w]
    /\ \A i \in 1..Len(outbox[w]) : outbox[w][i].id # reply.id
    /\ \A done \in settled[w] : done.event.id # reply.id
    /\ PendingRecords(w) < JournalLimit
    /\ outbox' = [outbox EXCEPT ![w] = Append(@, EventFor(w, d, reply))]
    /\ UNCHANGED <<ledger, endpoint, inbox, confirmed, settled, rejected, wire, faults>>

ConfirmAssignment(w, d) ==
    /\ Answerable(w)
    /\ d \in inbox[w]
    /\ inbox' = [inbox EXCEPT ![w] = @ \ {d}]
    /\ confirmed' = [confirmed EXCEPT ![w] = @ \cup {d}]
    /\ UNCHANGED <<ledger, endpoint, outbox, settled, rejected, wire, faults>>

ConfirmRejection(w, e) ==
    /\ Answerable(w)
    /\ e \in rejected[w]
    /\ rejected' = [rejected EXCEPT ![w] = @ \ {e}]
    /\ UNCHANGED <<ledger, endpoint, inbox, confirmed, outbox, settled, wire, faults>>
-----------------------------------------------------------------------------
(* The transport: serveHTTP and handleInbound.                             *)

TransportDispatch(w) ==
    /\ conn[w] /\ queue[w] # <<>>
    /\ queue' = [queue EXCEPT ![w] = Tail(@)]
    /\ SendToWorker(w, <<Frame("assignment", Head(queue[w]), "none")>>)
    /\ UNCHANGED <<ledger, conn, loop, offered, taken, retired, journal, client, inFlight, toServer, faults>>

(* Shutdown of the connection: its memory is gone, and the Client is told  *)
(* why if it is still there.                                               *)
Hangup(w, frames) ==
    /\ conn' = [conn EXCEPT ![w] = FALSE]
    /\ listed' = [listed EXCEPT ![w] = {}]
    /\ todo' = [todo EXCEPT ![w] = {}]
    /\ claimID' = [claimID EXCEPT ![w] = None]
    /\ phase' = [phase EXCEPT ![w] = "sync"]
    /\ offered' = [offered EXCEPT ![w] = {}]
    /\ taken' = [taken EXCEPT ![w] = {}]
    /\ retired' = [retired EXCEPT ![w] = {}]
    /\ queue' = [queue EXCEPT ![w] = <<>>]
    /\ toServer' = [toServer EXCEPT ![w] = <<>>]
    /\ SendToWorker(w, frames)
    /\ UNCHANGED <<journal, client, inFlight>>

NextFrame(w, type) == conn[w] /\ toServer[w] # <<>> /\ Head(toServer[w]).type = type

(* AckAssignment: a delivery this connection never published is refused,   *)
(* as a policy violation.                                                  *)
AckAssignment(w) ==
    LET d == Head(toServer[w]).body
    IN  /\ NextFrame(w, "ack")
        /\ \/ /\ d \in offered[w] \cup retired[w]
              /\ taken' = [taken EXCEPT ![w] = IF d \in offered[w] THEN @ \cup {d} ELSE @]
              /\ toServer' = [toServer EXCEPT ![w] = Tail(@)]
              /\ UNCHANGED <<conn, loop, offered, retired, queue, journal, client, inFlight, toWorker>>
           \/ /\ d \notin offered[w] \cup retired[w]
              /\ Hangup(w, <<Frame("close", None, "policy")>>)
        /\ UNCHANGED <<ledger, faults>>

(* What is left of the deliveries once a command is committed: those of a  *)
(* finished task are retired at once (retireTask).                         *)
Unfinished(w, e) ==
    {d \in offered[w] : ~ /\ d.task = e.task /\ d.fence = e.fence
                          /\ task'[e.task].state \in TerminalStates}

Receipt(w, decision) ==
    /\ toServer' = [toServer EXCEPT ![w] = Tail(@)]
    /\ SendToWorker(w, <<Frame("receipt", Head(toServer[w]).body, decision)>>)

(* applyEvent refuses: the command's preconditions do not hold, or its id  *)
(* was used for another command.                                           *)
Refuses(e) ==
    IF command[e.id] = None THEN ~ENABLED Execute(e) ELSE command[e.id].intent # e

\* mutant: a commit of unknown outcome is answered with a NACK
CommitEventUnknownIsNack(w) ==
    LET e == Head(toServer[w]).body
    IN  /\ NextFrame(w, "event")
        /\ \/ /\ Perform(e) \/ Replay(e)
              /\ RetireExcept(w, Unfinished(w, e))
              /\ Receipt(w, "ack")
              /\ UNCHANGED <<conn, loop, queue, journal, client, inFlight, faults>>
           \/ /\ Refuses(e)
              /\ Receipt(w, "nack")
              /\ UNCHANGED <<ledger, endpoint, journal, client, inFlight, faults>>
           \/ /\ Fault
              /\ UNCHANGED ledger \/ Perform(e)
              /\ Receipt(w, "nack")
              /\ UNCHANGED <<endpoint, journal, client, inFlight>>

(* CommitEvent: an ACK once the command is committed or found committed, a *)
(* NACK once it is refused, and nothing but a closed connection while its  *)
(* outcome is open.                                                        *)
CommitEvent(w) ==
    LET e == Head(toServer[w]).body
    IN  /\ NextFrame(w, "event")
        /\ \/ /\ Perform(e) \/ Replay(e)
              /\ RetireExcept(w, Unfinished(w, e))
              /\ Receipt(w, "ack")
              /\ UNCHANGED <<conn, loop, queue, journal, client, inFlight, faults>>
           \/ /\ Refuses(e)
              /\ Receipt(w, "nack")
              /\ UNCHANGED <<ledger, endpoint, journal, client, inFlight, faults>>
           \/ /\ Fault
              /\ UNCHANGED ledger \/ Perform(e)
              /\ Hangup(w, <<Frame("close", None, "unsettled")>>)
    
(* A read error or an unanswered ping.                                     *)
TransportNotices(w) ==
    /\ conn[w] /\ client[w] # "on"
    /\ Hangup(w, <<>>)
    /\ UNCHANGED <<ledger, faults>>

(* The Agent process dies with its connections and starts again.           *)
AgentCrash ==
    /\ Fault
    /\ conn' = Each(FALSE) /\ phase' = Each("sync") /\ claimID' = Each(None)
    /\ listed' = Each({}) /\ todo' = Each({})
    /\ offered' = Each({}) /\ taken' = Each({}) /\ retired' = Each({}) /\ queue' = Each(<<>>)
    /\ toServer' = Each(<<>>)
    /\ UNCHANGED <<ledger, journal, client, inFlight, toWorker>>

(* What callers and operators do: create, reply, cancel, fence.            *)
CallerStep ==
    /\ \E c \in Commands : Perform(c)
    /\ UNCHANGED <<endpoint, journal, wire, faults>>

LoopStep(w) ==
    \/ Synchronize(w) \/ RetireUnlisted(w) \/ ClaimTask(w)
    \/ \E d \in todo[w] : Publish(w, d)

TransportStep(w) == AckAssignment(w) \/ CommitEvent(w)

ClientStep(w) ==
    \/ Connect(w) \/ Flush(w) \/ ReceiveAssignment(w) \/ ReceiveReceipt(w)
    \/ ReceiveClose(w) \/ ReceiveEOF(w)

HumanStep(w) ==
    \/ \E d \in inbox[w] : ConfirmAssignment(w, d)
    \/ \E d \in inbox[w] \cup confirmed[w], reply \in Replies : SendEvent(w, d, reply)
    \/ \E e \in rejected[w] : ConfirmRejection(w, e)

LinkNext ==
    \/ CallerStep
    \/ \E w \in Workers :
         \/ LoopStep(w) \/ TransportDispatch(w) \/ TransportStep(w) \/ TransportNotices(w)
         \/ ClientStep(w) \/ HumanStep(w) \/ Drop(w)
    \/ AgentCrash

LinkSpec == LinkInit /\ [][LinkNext]_allVars

(* Goroutines run and the Client dials again; the transport's select       *)
(* chooses at random, so a frame that keeps arriving is read some time.    *)
FairWorker(w) ==
    /\ WF_allVars(LoopStep(w))
    /\ WF_allVars(TransportDispatch(w))
    /\ SF_allVars(TransportStep(w))
    /\ WF_allVars(TransportNotices(w))
    /\ WF_allVars(ClientStep(w))

FairLinkSpec == LinkSpec /\ \A w \in Workers : FairWorker(w)
-----------------------------------------------------------------------------
(* The client's unanswered event is the oldest of its outbox, and a        *)
(* receipt on its way to a live session is for that event: a late or       *)
(* repeated receipt settles nothing else (WorkerEventReceipt.ValidateFor). *)
ReceiptsMatchFlight ==
    \A w \in Workers :
        /\ inFlight[w] # <<>> => outbox[w] # <<>> /\ Head(inFlight[w]) = Head(outbox[w])
        /\ \A i \in 1..Len(toWorker[w]) : toWorker[w][i].type = "receipt" =>
             inFlight[w] = <<toWorker[w][i].body>>

(* What the worker's journal says of a settled event is true of the Agent: *)
(* ACK, its command was executed; NACK, it was not and never will be.      *)
(* This across broken connections, crashes, failed commits and commits of  *)
(* unknown outcome (CommitEvent's contract).                               *)
JournalTruth ==
    \A w \in Workers : \A done \in settled[w] :
        done.decision = "ack" <=>
            command[done.event.id] # None /\ command[done.event.id].intent = done.event

(* An answer never overtakes an earlier one: only the oldest pending event *)
(* can have been committed.                                                *)
NoOvertaking ==
    \A w \in Workers : \A i \in 2..Len(outbox[w]) : command[outbox[w][i].id] = None

(* A connection stops offering an assignment only if the worker's journal  *)
(* has it, or if the task has changed or moved since (AckAssignment).      *)
AckedIsJournalled == \A w \in Workers : taken[w] \subseteq inbox[w] \cup confirmed[w]

(* An acknowledgement always names a delivery the connection still knows,  *)
(* however late it comes: no ACK is answered with a policy violation,      *)
(* which would stop the client for good.                                   *)
AcksAreKnown == \A w \in Workers : client[w] # "failed"

(* What a worker holds of a task was once true of it: it is a grant the    *)
(* ledger gave this worker, and a revision the task has reached.           *)
AssignmentsWereTrue ==
    \A w \in Workers : \A d \in inbox[w] \cup confirmed[w] :
        /\ d.fence \in 1..Len(grant[d.task])
        /\ grant[d.task][d.fence].worker = w
        /\ d.revision \in 1..task[d.task].revision

(* A lease always reaches its worker: once its tasks stop changing, the    *)
(* worker's journal holds each of its leases as it is now, even if the     *)
(* claim that took it failed or the connection that made it is gone, or    *)
(* the journal is at its limit (the redelivery of WorkerConnection).       *)
LeasesReachWorkers ==
    \A w \in Workers :
        []<>(Leases(w) \subseteq inbox[w] \cup confirmed[w] \/ PendingRecords(w) >= JournalLimit)

(* A worker's outbox drains: every event it holds is settled in the end,   *)
(* or its journal is at its limit.                                         *)
OutboxDrains ==
    \A w \in Workers : []<>(outbox[w] = <<>> \/ PendingRecords(w) >= JournalLimit)

(* The endpoint, the transport and the worker's journal agree: a receipt   *)
(* settles the event it is for, verdicts are true, no event overtakes an   *)
(* earlier one, what was acknowledged is journalled and known, and an      *)
(* assignment tells of a grant its worker did have.                        *)
LinkIsTrue ==
    /\ ReceiptsMatchFlight /\ JournalTruth /\ NoOvertaking
    /\ AckedIsJournalled /\ AcksAreKnown /\ AssignmentsWereTrue

(* Every lease reaches its worker and every event the core, unless the     *)
(* worker's journal is full.                                               *)
WorkIsDelivered == LeasesReachWorkers /\ OutboxDrains
=============================================================================
