----------------------------- MODULE LLMWorkerLink -----------------------------
(***************************************************************************)
(* llm.Service together with llm/workerws: the WebSocket transport on the  *)
(* service's side and, on the worker's, the official Client with its       *)
(* durable Journal.  The service is LLMService; what it hands to and takes *)
(* from a worker now crosses a connection that may break at any moment,    *)
(* and the two ends learn of that separately.                              *)
(*                                                                         *)
(* A worker survives a crash with its journal only: a crash of the worker  *)
(* and a broken connection are the same step here.                         *)
(***************************************************************************)
EXTENDS LLMService

CONSTANTS
    JournalLimit,  \* most pending records the journal takes
    MaxDrops       \* connections broken by the network or a worker's restart

ASSUME LinkAssumption == JournalLimit \in Nat /\ MaxDrops \in Nat

VARIABLES
    client,    \* Client: "off" between sessions, "on" in one, or why it stopped
    inbox,     \* Journal: the assignments stored
    outbox,    \* Journal: the events not yet settled, oldest first
    settled,   \* Journal: the events settled, with the receipt's decision
    rejected,  \* Journal: NACKs the application has not confirmed
    inFlight,  \* the session's unanswered event, as a sequence of at most one
    toServer,  \* frames on the way to the transport
    toWorker,  \* frames on the way to the client
    drops

journal == <<inbox, outbox, settled, rejected>>
wire == <<client, inFlight, toServer, toWorker>>
linkVars == <<journal, wire, drops>>
allVars == <<vars, linkVars>>

Entry(r, event) == [r |-> r, event |-> event]
Frame(type, r, event, decision) == [type |-> type, r |-> r, event |-> event, decision |-> decision]

LinkInit ==
    /\ Init
    /\ client = [w \in Workers |-> "off"]
    /\ inbox = [w \in Workers |-> [r \in Requests |-> "none"]]
    /\ outbox = [w \in Workers |-> <<>>]
    /\ settled = [w \in Workers |-> {}]
    /\ rejected = [w \in Workers |-> {}]
    /\ inFlight = [w \in Workers |-> <<>>]
    /\ toServer = [w \in Workers |-> <<>>]
    /\ toWorker = [w \in Workers |-> <<>>]
    /\ drops = 0

(* A frame is written into a connection whose other end may be gone.       *)
SendToServer(w, frames) ==
    toServer' = [toServer EXCEPT ![w] = IF conn[w] THEN @ \o frames ELSE @]

SendToWorker(w, frames) ==
    toWorker' = [toWorker EXCEPT ![w] = IF client[w] = "on" THEN @ \o frames ELSE @]

(* flushPendingEvent: the oldest unsettled event, one at a time.           *)
Oldest(entries) == IF entries = <<>> THEN <<>> ELSE <<Head(entries)>>

EventFrames(entries) ==
    LET next == Oldest(entries)
    IN  [i \in DOMAIN next |-> Frame("event", next[i].r, next[i].event, "none")]

(* The client's end of a session is over; its journal remains.             *)
EndSession(w, why) ==
    /\ client' = [client EXCEPT ![w] = why]
    /\ inFlight' = [inFlight EXCEPT ![w] = <<>>]
    /\ toWorker' = [toWorker EXCEPT ![w] = <<>>]
-----------------------------------------------------------------------------
(* The client.                                                             *)

(* runSession: dial, greet, and send the oldest unsettled event before any *)
(* frame is read.  The service still holding the worker's last connection  *)
(* answers with a conflict, which ends the client for good.                *)
Connect(w) ==
    /\ client[w] = "off"
    /\ \/ /\ OpenWorker(w)
          /\ client' = [client EXCEPT ![w] = "on"]
          /\ toServer' = [toServer EXCEPT ![w] = EventFrames(outbox[w])]
          /\ inFlight' = [inFlight EXCEPT ![w] = Oldest(outbox[w])]
          /\ UNCHANGED <<toWorker, journal, drops>>
       \/ /\ up /\ conn[w]
          /\ EndSession(w, "conflict")
          /\ UNCHANGED <<vars, toServer, journal, drops>>

(* The event wake of a session without an event in flight.                 *)
Flush(w) ==
    /\ client[w] = "on"
    /\ inFlight[w] = <<>>
    /\ outbox[w] # <<>>
    /\ inFlight' = [inFlight EXCEPT ![w] = Oldest(outbox[w])]
    /\ SendToServer(w, EventFrames(outbox[w]))
    /\ UNCHANGED <<vars, journal, client, toWorker, drops>>

PendingRecords(w) ==
    Cardinality({r \in Requests : inbox[w][r] = "pending"}) + Len(outbox[w]) + Cardinality(rejected[w])

\* mutant: an assignment is acknowledged before it is stored
ReceiveAssignmentAcksFirst(w) ==
    LET r == Head(toWorker[w]).r
    IN  /\ client[w] = "on" /\ toWorker[w] # <<>> /\ Head(toWorker[w]).type = "assignment"
        /\ toWorker' = [toWorker EXCEPT ![w] = Tail(@)]
        /\ SendToServer(w, <<Frame("ack", r, None, "none")>>)
        /\ UNCHANGED <<vars, journal, client, inFlight, drops>>

(* An assignment is acknowledged once it is in the journal; a full journal *)
(* ends the session.                                                       *)
ReceiveAssignment(w) ==
    LET r == Head(toWorker[w]).r
        room == inbox[w][r] # "none" \/ PendingRecords(w) < JournalLimit
    IN  /\ client[w] = "on"
        /\ toWorker[w] # <<>>
        /\ Head(toWorker[w]).type = "assignment"
        /\ \/ /\ room
              /\ inbox' = [inbox EXCEPT ![w][r] = IF @ = "none" THEN "pending" ELSE @]
              /\ toWorker' = [toWorker EXCEPT ![w] = Tail(@)]
              /\ SendToServer(w, <<Frame("ack", r, None, "none")>>)
              /\ UNCHANGED <<outbox, settled, rejected, client, inFlight>>
           \/ /\ ~room
              /\ EndSession(w, "off")
              /\ UNCHANGED <<journal, toServer>>
        /\ UNCHANGED <<vars, drops>>

(* SettleEvent: one transaction takes the event out of the outbox, and     *)
(* keeps a NACK for the application.                                       *)
SettleEvent(w, entry, decision) ==
    /\ \E i \in DOMAIN outbox[w] :
         /\ outbox[w][i] = entry
         /\ outbox' = [outbox EXCEPT ![w] = SubSeq(@, 1, i - 1) \o SubSeq(@, i + 1, Len(@))]
    /\ settled' = [settled EXCEPT ![w] = @ \cup {[entry |-> entry, decision |-> decision]}]
    /\ rejected' = [rejected EXCEPT ![w] = IF decision = "acked" THEN @ ELSE @ \cup {entry}]
    /\ UNCHANGED inbox

(* A receipt settles the event in flight and makes way for the next one.   *)
ReceiveReceipt(w) ==
    /\ client[w] = "on"
    /\ toWorker[w] # <<>>
    /\ Head(toWorker[w]).type = "receipt"
    /\ inFlight[w] # <<>>
    /\ SettleEvent(w, Head(inFlight[w]), Head(toWorker[w]).decision)
    /\ toWorker' = [toWorker EXCEPT ![w] = Tail(@)]
    /\ inFlight' = [inFlight EXCEPT ![w] = Oldest(outbox'[w])]
    /\ SendToServer(w, EventFrames(outbox'[w]))
    /\ UNCHANGED <<vars, client, drops>>

(* classifyConnectionFailure: a policy violation that does not say the     *)
(* connection was closed ends the client for good, anything else the       *)
(* session.                                                                *)
ReceiveClose(w) ==
    /\ client[w] = "on"
    /\ toWorker[w] # <<>>
    /\ Head(toWorker[w]).type = "close"
    /\ EndSession(w, IF Head(toWorker[w]).decision = "policy" THEN "failed" ELSE "off")
    /\ UNCHANGED <<vars, journal, toServer, drops>>

(* The service's end of the connection is gone without a close frame.      *)
ReceiveEOF(w) ==
    /\ client[w] = "on"
    /\ toWorker[w] = <<>>
    /\ ~conn[w]
    /\ EndSession(w, "off")
    /\ UNCHANGED <<vars, journal, toServer, drops>>

(* The network, or a worker that is restarted, loses the frames on their   *)
(* way to the worker and all but the first n on their way to the service,  *)
(* which keeps its end of the connection until it notices.                 *)
Drop(w) ==
    /\ client[w] = "on"
    /\ drops < MaxDrops
    /\ drops' = drops + 1
    /\ EndSession(w, "off")
    /\ \E n \in 0..Len(toServer[w]) : toServer' = [toServer EXCEPT ![w] = SubSeq(@, 1, n)]
    /\ UNCHANGED <<vars, journal>>

(* SendEvent: the human answers an assignment, on line or off.             *)
SendEvent(w, r, event) ==
    /\ client[w] \in {"off", "on"}
    /\ event.worker = w
    /\ inbox[w][r] # "none"
    /\ \A i \in DOMAIN outbox[w] : outbox[w][i].event.id # event.id
    /\ \A done \in settled[w] : done.entry.event.id # event.id
    /\ PendingRecords(w) < JournalLimit
    /\ outbox' = [outbox EXCEPT ![w] = Append(@, Entry(r, event))]
    /\ UNCHANGED <<vars, inbox, settled, rejected, wire, drops>>

(* The application is done with an assignment, or has seen a rejection.    *)
ConfirmAssignment(w, r) ==
    /\ client[w] \in {"off", "on"}
    /\ inbox[w][r] = "pending"
    /\ inbox' = [inbox EXCEPT ![w][r] = "settled"]
    /\ UNCHANGED <<vars, outbox, settled, rejected, wire, drops>>

ConfirmRejection(w, entry) ==
    /\ client[w] \in {"off", "on"}
    /\ entry \in rejected[w]
    /\ rejected' = [rejected EXCEPT ![w] = @ \ {entry}]
    /\ UNCHANGED <<vars, inbox, outbox, settled, wire, drops>>
-----------------------------------------------------------------------------
(* The transport: serveHTTP and handleInbound.                             *)

TransportDispatch(w, r) ==
    /\ Dispatch(w, r)
    /\ SendToWorker(w, <<Frame("assignment", r, None, "none")>>)
    /\ UNCHANGED <<journal, client, inFlight, toServer, drops>>

TransportRead(w) ==
    LET frame == Head(toServer[w])
    IN  /\ toServer[w] # <<>>
        /\ \/ frame.type = "ack" /\ AckAssignment(w, frame.r)
           \/ frame.type = "event" /\ CommitEvent(w, frame.r, frame.event)
        /\ toServer' = [toServer EXCEPT ![w] = Tail(@)]
        /\ UNCHANGED <<journal, client, inFlight, toWorker, drops>>

(* The service's end is closed; what it had not read is lost.              *)
Hangup(w, frames) ==
    /\ conn' = [conn EXCEPT ![w] = FALSE]
    /\ sent' = [sent EXCEPT ![w] = {}]
    /\ acked' = [acked EXCEPT ![w] = {}]
    /\ toServer' = [toServer EXCEPT ![w] = <<>>]
    /\ SendToWorker(w, frames)
    /\ UNCHANGED <<store, up, assigned, pending, detached, adm, detaching, bounds>>
    /\ UNCHANGED <<journal, client, inFlight, drops>>

\* mutant: only an ACK is sent back
TransportReplyAcksOnly(w) ==
    /\ OpReturn(w)
    /\ SendToWorker(w, IF op[w].event = None \/ op[w].result # "acked" THEN <<>>
                       ELSE <<Frame("receipt", op[w].r, op[w].event, "acked")>>)
    /\ UNCHANGED <<journal, client, inFlight, toServer, drops>>

(* An event is answered with its receipt, a good ACK with nothing.  An     *)
(* unsettled event closes the connection for a retry, a failed ACK closes  *)
(* it as a policy violation.                                               *)
TransportReply(w) ==
    LET done == op[w]
        frames == IF done.event = None THEN <<>>
                  ELSE <<Frame("receipt", done.r, done.event, done.result)>>
        reason == IF done.event = None THEN "policy" ELSE "unsettled"
    IN  \/ /\ done.result # "failed"
           /\ OpReturn(w)
           /\ SendToWorker(w, frames)
           /\ UNCHANGED <<journal, client, inFlight, toServer, drops>>
        \/ /\ OpAt(w, "done")
           /\ done.result = "failed"
           /\ op' = [op EXCEPT ![w] = NoOp]
           /\ Hangup(w, <<Frame("close", done.r, None, reason)>>)

(* A read error or an unanswered ping: the transport learns that the       *)
(* client is gone.                                                         *)
TransportNotices(w) ==
    /\ up
    /\ conn[w]
    /\ client[w] # "on"
    /\ op[w].pc = "idle"
    /\ Hangup(w, <<>>)
    /\ UNCHANGED op

LinkCrash ==
    /\ Crash
    /\ toServer' = [w \in Workers |-> <<>>]
    /\ UNCHANGED <<journal, client, inFlight, toWorker, drops>>

(* The service's own steps, which no worker sees.                          *)
ServiceStep ==
    /\ \/ \E a \in Attempts : AdmitStep(a) \/ \E input \in Inputs : AdmitBegin(a, input)
       \/ \E c \in Workers \cup {Expiry} : OpStep(c)
       \/ OpReturn(Expiry)
       \/ \E r \in Requests : ExpireRequest(r) \/ DetachCheck(r) \/ DetachMark(r) \/ PruneRequest(r)
                             \/ RecoverQuarantine(r)
       \/ Recover
    /\ UNCHANGED linkVars

ClientStep(w) ==
    \/ Connect(w) \/ Flush(w) \/ ReceiveAssignment(w) \/ ReceiveReceipt(w)
    \/ ReceiveClose(w) \/ ReceiveEOF(w)

TransportStep(w) ==
    \/ TransportRead(w) \/ TransportReply(w) \/ TransportNotices(w)
    \/ \E r \in Requests : TransportDispatch(w, r)

HumanStep(w) ==
    \/ \E r \in Requests : ConfirmAssignment(w, r) \/ \E event \in WorkerEvents : SendEvent(w, r, event)
    \/ \E entry \in rejected[w] : ConfirmRejection(w, entry)

LinkNext ==
    \/ ServiceStep
    \/ \E w \in Workers : ClientStep(w) \/ TransportStep(w) \/ HumanStep(w) \/ Drop(w)
    \/ LinkCrash

LinkSpec == LinkInit /\ [][LinkNext]_allVars
-----------------------------------------------------------------------------
(* The client's one unanswered event is the oldest of its outbox, and a    *)
(* receipt on its way to a live session is for that event: a client that   *)
(* reads a receipt may settle what it has in flight.                       *)
ReceiptsMatchFlight ==
    \A w \in Workers :
        /\ inFlight[w] # <<>> => outbox[w] # <<>> /\ Head(inFlight[w]) = Head(outbox[w])
        /\ \A i \in DOMAIN toWorker[w] : toWorker[w][i].type = "receipt" =>
             inFlight[w] = <<Entry(toWorker[w][i].r, toWorker[w][i].event)>>

(* What the worker's journal says of a settled event is true of the        *)
(* service's Store, across lost and repeated frames, crashes on either     *)
(* side and commits of unknown outcome: ACK, it was applied; NACK, it was  *)
(* not and never will be.                                                  *)
JournalTruth ==
    \A w \in Workers : \A done \in settled[w] :
        done.decision = "acked" <=> done.entry.event \in receipt[done.entry.r]

(* An answer never overtakes an earlier one: only the oldest unsettled     *)
(* event can already have been applied.                                    *)
NoOvertaking ==
    \A w \in Workers : \A i \in 2..Len(outbox[w]) :
        outbox[w][i].event \notin receipt[outbox[w][i].r]

(* A task is in front of its human only if the human's journal holds its   *)
(* assignment (AckAssignment's contract), so no crash of the worker can    *)
(* lose an acknowledged assignment.                                        *)
AckedIsJournalled ==
    \A r \in Requests :
        request[r].state = "open" /\ task[request[r].task].state = "awaiting_human" =>
            inbox[Owner(r)][r] # "none"

(* A broken connection, a failed commit or an assignment whose request     *)
(* was closed meanwhile does not stop the client for good.                 *)
StaleAssignmentHarmless == \A w \in Workers : client[w] # "failed"

(* Goroutines run, a client that is not stopped dials again, and the       *)
(* keepalive finds a connection that is gone.  The transport's select      *)
(* chooses at random, so a frame that keeps arriving is read some time.    *)
FairLinkSpec ==
    /\ LinkSpec
    /\ \A a \in Attempts : WF_allVars(AdmitStep(a) /\ UNCHANGED linkVars)
    /\ WF_allVars(Recover /\ UNCHANGED linkVars)
    /\ \A w \in Workers :
         /\ WF_allVars(OpStep(w) /\ UNCHANGED linkVars)
         /\ WF_allVars(ClientStep(w))
         /\ SF_allVars(TransportRead(w))
         /\ WF_allVars(TransportReply(w))
         /\ WF_allVars(TransportNotices(w))
         /\ \A r \in Requests : WF_allVars(TransportDispatch(w, r))

(* Every answer the human gave is settled in the end, unless the client    *)
(* has stopped for good, across broken connections, a restart of the       *)
(* service and a commit that failed or whose outcome was unknown.          *)
OutboxDrains ==
    \A w \in Workers, r \in Requests, event \in WorkerEvents :
        (\E i \in DOMAIN outbox[w] : outbox[w][i] = Entry(r, event))
            ~> \/ \E done \in settled[w] : done.entry = Entry(r, event)
               \/ client[w] \in {"conflict", "failed"}

(* The two ends of the link agree: a receipt settles the event it is for,  *)
(* the journal's verdicts are true, no answer overtakes an earlier one, and *)
(* what the service takes as received is in the journal.                   *)
LinkIsTrue == ReceiptsMatchFlight /\ JournalTruth /\ NoOvertaking /\ AckedIsJournalled
=============================================================================
