---------------------------- MODULE WorkerBridge ----------------------------
(***************************************************************************)
(* The worker's side of the completion gateway in `human worker`:          *)
(* workerbridge (sessions that are accepted before they are answered),     *)
(* the legacy workerclient (one connection at a time, cumulative           *)
(* acknowledgements, rejections offered one by one) and its durable outbox *)
(* (rows to send, quarantined rows, rejected rows, tombstones), over       *)
(* crashes, lost connections, unreadable rows and failing transactions.    *)
(* The gateway is the environment: it takes an event or rejects it, and    *)
(* acknowledges again what it has taken.  Sequence numbers count events    *)
(* only; the client's own acknowledgement frames change no row.            *)
(***************************************************************************)
EXTENDS Naturals, Sequences, FiniteSets, SequencesExt

CONSTANT BridgeScenes  \* events the human sends, identities, and what goes wrong

VARIABLES
    outbox,  \* the database: send, quar, inbox, gone
    client,  \* the client process: connection, in-flight numbers, what it is about to do
    bridge,  \* the sessions the bridge knows, and those it need not accept any more
    gate,    \* the connection's frames and what the gateway has taken
    story,   \* what was promised, shown and told, for the properties
    quota    \* the scene and what it still allows

bridgeVars == <<outbox, client, bridge, gate, story, quota>>

Nobody == 0

Row(ns, e) ==
    [ns |-> ns, id |-> e.id, key |-> e.key, type |-> e.type, body |-> e.body, ok |-> TRUE]

Started ==
    [up |-> TRUE, ns |-> Nobody, conn |-> Nobody, seq |-> 0, inflight |-> {}, list |-> <<>>,
     holding |-> 0, offered |-> 0, post |-> {}, over |-> FALSE]

BridgeInit ==
    /\ quota \in BridgeScenes
    /\ outbox = [send |-> <<>>, quar |-> {}, inbox |-> <<>>, gone |-> {}]
    /\ client = Started
    /\ bridge = [known |-> {}, settled |-> {}]
    /\ gate = [up |-> <<>>, down |-> <<>>, took |-> {}]
    /\ story = [promised |-> {}, shown |-> {}, told |-> {}, spoiled |-> {}, calls |-> 0]
-----------------------------------------------------------------------------
(* The database.                                                           *)

Same(row, e) == row.id = e.id /\ row.ns = e.ns
Among(rows, r) == \E i \in DOMAIN rows : Same(rows[i], r)
Find(rows, r) == rows[CHOOSE i \in DOMAIN rows : Same(rows[i], r)]

\* decodeOutboxRecord and scanRejectedRecord: a row to send, or a rejected
\* one, decodes and names the event and the session it was stored under.
Decodes(row) == row.ok
ScansRejected(row) == row.ok

SameBody(row, r) == Decodes(row) /\ row.body = r.body
Without(rows, ns, ids) == SelectSeq(rows, LAMBDA r : ~(r.ns = ns /\ r.id \in ids))

\* Put: an id that is stored, quarantined, rejected or confirmed as rejected
\* is not stored again, and never with another payload.
PutAnswer(r) ==
    CASE Among(outbox.send, r) ->
           IF SameBody(Find(outbox.send, r), r) THEN "stored" ELSE "conflict"
      [] \E q \in outbox.quar : Same(q, r) -> "quarantined"
      [] Among(outbox.inbox, r) ->
           IF SameBody(Find(outbox.inbox, r), r) THEN "pending" ELSE "conflict"
      [] \E g \in outbox.gone : Same(g, r) ->
           IF \E g \in outbox.gone : Same(g, r) /\ g.body = r.body THEN "rejected" ELSE "conflict"
      [] OTHER -> "insert"

Inserted(r) == IF PutAnswer(r) = "insert" THEN [outbox EXCEPT !.send = Append(@, r)] ELSE outbox

\* quarantine: an unreadable row leaves the rows to send and is kept aside,
\* in one transaction.
PutAside(ns) ==
    [outbox EXCEPT !.send = SelectSeq(@, LAMBDA r : r.ns # ns \/ Decodes(r)),
                   !.quar = @ \cup {r \in ToSet(outbox.send) : r.ns = ns /\ ~Decodes(r)}]

\* List: the readable rows of the bound identity, oldest first.
Listed(ns) == SelectSeq(outbox.send, LAMBDA r : r.ns = ns /\ Decodes(r))

\* mutant: an acknowledgement covers everything in flight
AcknowledgedAll(ack) == {f.id : f \in client.inflight}

\* acknowledgedEventIDsLocked: what a cumulative acknowledgement covers.
Acknowledged(ack) == {f.id : f \in {g \in client.inflight : g.seq <= ack}}

DeleteMany(ack) == [outbox EXCEPT !.send = Without(@, client.ns, Acknowledged(ack))]

\* RejectAndAcknowledge: a confirmed or a pending rejection is not repeated,
\* but must be the same; otherwise the row moves from send to inbox in the
\* transaction that deletes what the frame acknowledges.
Rejected(ack, rej) ==
    LET at == [ns |-> client.ns, id |-> rej.id]
        rest == Without(outbox.send, client.ns, Acknowledged(ack) \cup {rej.id})
        tombs == {g \in outbox.gone : Same(g, at)}
    IN  IF tombs # {}
        THEN IF \E g \in tombs : /\ g.why = rej.why
                                 /\ Among(outbox.send, at) => SameBody(Find(outbox.send, at), g)
             THEN {[outbox EXCEPT !.send = rest]} ELSE {}
        ELSE IF Among(outbox.inbox, at)
        THEN IF ScansRejected(Find(outbox.inbox, at)) /\ Find(outbox.inbox, at).why = rej.why
             THEN {[outbox EXCEPT !.send = rest]} ELSE {}
        ELSE IF /\ Among(outbox.send, at) /\ Decodes(Find(outbox.send, at))
                /\ \E f \in client.inflight : f.id = rej.id
        THEN LET row == Find(outbox.send, at)
             IN  {[outbox EXCEPT !.send = rest,
                                 !.inbox = Append(@, [ns |-> row.ns, id |-> row.id, key |-> row.key,
                                                      type |-> row.type, body |-> row.body, ok |-> TRUE,
                                                      why |-> rej.why])]}
        ELSE {}

\* OldestRejected: only the head of the rejected rows is read.
OldestRejected(ns) == LET mine == SelectSeq(outbox.inbox, LAMBDA r : r.ns = ns)
                      IN  IF mine = <<>> THEN <<>> ELSE <<Head(mine)>>

\* DeleteRejected: a confirmed rejection becomes a tombstone without payload,
\* in the transaction that deletes its row; an unknown id is no error.
DeleteRejected(id) ==
    LET at == [ns |-> client.ns, id |-> id]
    IN  IF ~Among(outbox.inbox, at) THEN {outbox}
        ELSE LET row == Find(outbox.inbox, at)
                 tomb == [ns |-> row.ns, id |-> row.id, body |-> row.body, why |-> row.why]
             IN  IF ScansRejected(row) /\ \A g \in outbox.gone : Same(g, at) => g = tomb
                 THEN {[outbox EXCEPT !.inbox = Without(@, client.ns, {id}), !.gone = @ \cup {tomb}]}
                 ELSE {}
-----------------------------------------------------------------------------
(* What fails costs some of the scene's quota.                             *)
Spent(what) == quota[what] > 0 /\ quota' = [quota EXCEPT ![what] = @ - 1]

\* run, after readConnection failed: the connection and its numbers go, what
\* flush has listed stays.
Lost(c) == [c EXCEPT !.conn = Nobody, !.inflight = {}]
HangUpLink == client' = Lost(client) /\ gate' = [gate EXCEPT !.up = <<>>, !.down = <<>>]

\* The websocket is dialled; the gateway's hello names the authenticated
\* worker.  bindWorker: a process serves one identity only, and another
\* hello ends it.  The rejected rows are offered again.
Hello(w) ==
    /\ client.up /\ ~client.over /\ client.conn = Nobody
    /\ client' = IF client.ns \in {Nobody, w}
                 THEN [client EXCEPT !.ns = w, !.conn = w, !.seq = 0, !.inflight = {}, !.offered = 0]
                 ELSE [client EXCEPT !.over = TRUE]
    /\ UNCHANGED <<outbox, bridge, gate, story, quota>>

\* keepaliveLoop, a read error, or a network that goes away.
BreakLink ==
    /\ client.conn # Nobody /\ Spent("drops") /\ HangUpLink
    /\ UNCHANGED <<outbox, bridge, story>>

\* flush, first half: list the rows; when a row cannot be put aside the whole
\* flush fails.
List ==
    /\ client.up /\ ~client.over /\ client.ns # Nobody /\ client.list = <<>>
    /\ outbox' = PutAside(client.ns)
    /\ client' = [client EXCEPT !.list = Listed(client.ns)]
    /\ <<outbox', client'>> # <<outbox, client>>
    /\ UNCHANGED <<bridge, gate, story, quota>>

\* sendOutboxRecord, for one listed row at a time: a row already in flight is
\* skipped, without a connection the flush ends, a failed write ends the
\* connection too.
Send ==
    /\ client.up /\ ~client.over /\ client.list # <<>>
    /\ LET r == Head(client.list)
           sent == [client EXCEPT !.list = Tail(@), !.seq = @ + 1,
                                  !.inflight = @ \cup {[id |-> r.id, seq |-> client.seq + 1]}]
       IN  \/ /\ \E f \in client.inflight : f.id = r.id
              /\ client' = [client EXCEPT !.list = Tail(@)] /\ UNCHANGED <<gate, quota>>
           \/ /\ \A f \in client.inflight : f.id # r.id
              /\ IF client.conn = Nobody
                 THEN client' = [client EXCEPT !.list = <<>>] /\ UNCHANGED <<gate, quota>>
                 ELSE \/ /\ client' = sent /\ UNCHANGED quota
                         /\ gate' = [gate EXCEPT !.up = Append(@, [row |-> r, seq |-> client.seq + 1])]
                      \/ /\ Spent("drops") /\ client' = [Lost(client) EXCEPT !.list = <<>>]
                         /\ gate' = [gate EXCEPT !.up = <<>>, !.down = <<>>]
    /\ UNCHANGED <<outbox, bridge, story>>

\* readConnection, for a frame that acknowledges or rejects.  A transaction
\* that fails or refuses ends the connection.
Read ==
    /\ client.up /\ gate.down # <<>>
    /\ LET frame == Head(gate.down)
           next == IF frame.why = 0 THEN {DeleteMany(frame.ack)}
                   ELSE Rejected(frame.ack, [id |-> frame.id, why |-> frame.why])
           done == Acknowledged(frame.ack) \cup (IF frame.why = 0 THEN {} ELSE {frame.id})
       IN  \/ /\ outbox' \in next
              /\ client' = [client EXCEPT !.inflight = {f \in @ : f.id \notin done}]
              /\ gate' = [gate EXCEPT !.down = Tail(@)]
              /\ UNCHANGED quota
           \/ /\ IF next = {} THEN UNCHANGED quota ELSE Spent("faults")
              /\ HangUpLink /\ UNCHANGED outbox
    /\ UNCHANGED <<bridge, story>>

\* rejectedLoop: the oldest rejected row is read, then posted; the next one
\* waits until this one is confirmed.  An unreadable head is only reported.
OfferRead ==
    /\ client.up /\ ~client.over /\ client.ns # Nobody /\ client.holding = 0
    /\ LET head == OldestRejected(client.ns)
       IN  /\ head # <<>> /\ ScansRejected(head[1]) /\ client.offered # head[1].id
           /\ client' = [client EXCEPT !.holding = head[1].id]
    /\ UNCHANGED <<outbox, bridge, gate, story, quota>>

OfferPost ==
    /\ client.holding # 0
    /\ client' = [client EXCEPT !.post = @ \cup {client.holding}, !.offered = client.holding, !.holding = 0]
    /\ UNCHANGED <<outbox, bridge, gate, story, quota>>

\* workerkit handles a rejection and confirms it (ConfirmRejectedEvent), or
\* cannot and is offered it again.
Confirmation(id) ==
    /\ id \in client.post
    /\ story' = [story EXCEPT !.shown = @ \cup {[ns |-> client.ns, id |-> id]}]
    /\ \/ outbox' \in DeleteRejected(id) /\ UNCHANGED quota
       \/ IF DeleteRejected(id) = {} THEN UNCHANGED <<outbox, quota>>
          ELSE Spent("faults") /\ UNCHANGED outbox
    /\ client' = [client EXCEPT !.post = @ \ {id}]
    /\ UNCHANGED <<bridge, gate>>
-----------------------------------------------------------------------------
(* The bridge.                                                             *)

\* pump: an assignment, first or again after a reconnect.
Assign(k) ==
    /\ client.conn # Nobody /\ k \notin bridge.known
    /\ \A e \in gate.took : ~(e.key = k /\ e.type = "final")
    /\ bridge' = [bridge EXCEPT !.known = @ \cup {k}]
    /\ UNCHANGED <<outbox, client, gate, story, quota>>

\* Client.SendEvent: what the caller is told, and what the database holds
\* then.  A transaction may fail, or fail after it was committed.
Attempt(r, stored) ==
    LET answer == PutAnswer(r)
    IN  \/ /\ outbox' = Inserted(r) /\ stored = (answer \in {"stored", "insert"})
           /\ UNCHANGED quota
        \/ stored = FALSE /\ Spent("faults") /\ outbox' \in {outbox, Inserted(r)}

Telling(r, stored) ==
    [story EXCEPT !.calls = @ + 1,
                  !.promised = IF stored THEN @ \cup {[ns |-> r.ns, id |-> r.id]} ELSE @,
                  !.told = IF Among(outbox'.send, r) THEN @ \cup {r.key} ELSE @]

\* Bridge.SendEvent: the session is settled once the event is stored, and
\* forgotten with its last event.
BridgeSend(e) ==
    /\ client.up /\ client.ns # Nobody /\ e.key \in bridge.known /\ story.calls < quota.calls
    /\ \E stored \in BOOLEAN :
         /\ Attempt(Row(client.ns, e), stored)
         /\ story' = Telling(Row(client.ns, e), stored)
         /\ bridge' = IF ~stored THEN bridge
                      ELSE IF e.type = "final"
                      THEN [known |-> bridge.known \ {e.key}, settled |-> bridge.settled \ {e.key}]
                      ELSE [bridge EXCEPT !.settled = @ \cup {e.key}]
    /\ UNCHANGED <<client, gate>>

\* ConfirmAssignment: an accepted event of its own id, unless the session
\* carried an event; the mark is set first and stays when that fails.
ConfirmAssignment(k) ==
    /\ client.up /\ client.ns # Nobody /\ k \in bridge.known \ bridge.settled
    /\ story.calls < quota.calls
    /\ LET r == Row(client.ns, [id |-> 100 + story.calls, key |-> k, type |-> "accepted", body |-> 1])
       IN  \E stored \in BOOLEAN :
             /\ Attempt(r, stored)
             /\ story' = [Telling(r, stored) EXCEPT !.spoiled = IF stored THEN @ ELSE @ \cup {k}]
    /\ bridge' = [bridge EXCEPT !.settled = @ \cup {k}]
    /\ UNCHANGED <<client, gate>>
-----------------------------------------------------------------------------
(* The gateway, the disk and the process.                                  *)

\* The gateway takes an event, or rejects one it has not taken.
Judge ==
    /\ gate.up # <<>>
    /\ LET f == Head(gate.up)
           mark == [ns |-> f.row.ns, id |-> f.row.id, key |-> f.row.key, type |-> f.row.type]
           back == [ack |-> f.seq, id |-> f.row.id, why |-> 0]
       IN  \/ gate' = [gate EXCEPT !.up = Tail(@), !.took = @ \cup {mark}, !.down = Append(@, back)]
           \/ /\ mark \notin gate.took
              /\ \E why \in 1..quota.reasons :
                   gate' = [gate EXCEPT !.up = Tail(@), !.down = Append(@, [back EXCEPT !.why = why])]
    /\ UNCHANGED <<outbox, client, bridge, story, quota>>

\* A row to send or a rejected row becomes unreadable.
Rot ==
    /\ Spent("rots")
    /\ \/ \E i \in DOMAIN outbox.send : outbox' = [outbox EXCEPT !.send[i].ok = FALSE]
       \/ \E i \in DOMAIN outbox.inbox : outbox' = [outbox EXCEPT !.inbox[i].ok = FALSE]
    /\ UNCHANGED <<client, bridge, gate, story>>

\* Close, or the end of the process; opening the database takes its owner
\* lock, so there is one process at a time.
EndProcess ==
    /\ client.up /\ Spent("crashes")
    /\ client' = [Started EXCEPT !.up = FALSE]
    /\ bridge' = [known |-> {}, settled |-> {}]
    /\ gate' = [gate EXCEPT !.up = <<>>, !.down = <<>>]
    /\ UNCHANGED <<outbox, story>>

Dial ==
    /\ ~client.up /\ client' = Started
    /\ UNCHANGED <<outbox, bridge, gate, story, quota>>

\* RebindOutboxIdentity, offline, for a database restored elsewhere: all
\* tables at once, and only when every row is of the old identity.
RebindSet(S, new) == {[x EXCEPT !.ns = new] : x \in S}
RebindSeq(s, new) == [i \in DOMAIN s |-> [s[i] EXCEPT !.ns = new]]
AllRows == ToSet(outbox.send) \cup outbox.quar \cup ToSet(outbox.inbox) \cup outbox.gone

Rebind(old, new) ==
    /\ ~client.up /\ old # new /\ Spent("moves")
    /\ \A r \in AllRows : r.ns = old
    /\ outbox' = [send |-> RebindSeq(outbox.send, new), quar |-> RebindSet(outbox.quar, new),
                  inbox |-> RebindSeq(outbox.inbox, new), gone |-> RebindSet(outbox.gone, new)]
    /\ gate' = [gate EXCEPT !.took = RebindSet(@, new)]
    /\ story' = [story EXCEPT !.promised = RebindSet(@, new), !.shown = RebindSet(@, new)]
    /\ UNCHANGED <<client, bridge>>

BridgeNext ==
    \/ \E w \in quota.subjects : Hello(w)
    \/ BreakLink \/ List \/ Send \/ Read \/ OfferRead \/ OfferPost \/ Judge \/ Rot \/ EndProcess \/ Dial
    \/ \E id \in client.post : Confirmation(id)
    \/ \E e \in quota.events : BridgeSend(e)
    \/ \E k \in {e.key : e \in quota.events} : Assign(k) \/ ConfirmAssignment(k)
    \/ \E old, new \in quota.subjects : Rebind(old, new)
-----------------------------------------------------------------------------

\* An event whose SendEvent succeeded is never lost: it waits to be sent, is
\* kept aside as unreadable, waits for the human as rejected, or the gateway
\* took it; it leaves all of these only when the human saw its rejection.
NoEventLost ==
    \A p \in story.promised :
        \/ \E r \in ToSet(outbox.send) \cup outbox.quar \cup ToSet(outbox.inbox) : Same(r, p)
        \/ \E t \in gate.took : Same(t, p)
        \/ p \in story.shown /\ \E g \in outbox.gone : Same(g, p)

\* An event id lives in one table at most: what was rejected, confirmed or
\* put aside is never sent again as if nothing had happened.
OneHome ==
    /\ \A i, j \in DOMAIN outbox.send : Same(outbox.send[i], outbox.send[j]) => i = j
    /\ \A p \in AllRows :
         Cardinality({n \in 1..4 :
             \E r \in (CASE n = 1 -> ToSet(outbox.send) [] n = 2 -> outbox.quar
                         [] n = 3 -> ToSet(outbox.inbox) [] OTHER -> outbox.gone) : Same(r, p)}) = 1

\* Events leave only over a connection that is authenticated as the worker
\* they were stored for, whatever credential the next connection uses.
RightWorker == \A i \in DOMAIN gate.up : gate.up[i].row.ns = client.conn

\* Of the rejected events the human is offered the oldest, and the next one
\* only when that one is confirmed.
OfferedInOrder ==
    \A id \in client.post :
        LET mine == SelectSeq(outbox.inbox, LAMBDA r : r.ns = client.ns)
        IN  (\E i \in DOMAIN mine : mine[i].id = id) => mine[1].id = id

\* A session that ConfirmAssignment need not accept any more did carry an
\* event, unless storing its accepted event failed.
AcceptedIsTold == bridge.settled \subseteq story.told \cup story.spoiled

\* An event of the human is in exactly one place until the gateway took it or the human
\* saw it refused; it leaves for its own worker's gateway only, refusals are offered in
\* order, and a session counts as accepted only when the gateway is told.
EventsAreKept == NoEventLost /\ OneHome /\ RightWorker /\ OfferedInOrder /\ AcceptedIsTold
=============================================================================
