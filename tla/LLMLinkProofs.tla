---------------------------- MODULE LLMLinkProofs ---------------------------
(***************************************************************************)
(* Proofs about LLMWorkerLink, for any workers, requests, events, failures, *)
(* crashes and broken connections: a worker's journal and the Store never  *)
(* contradict each other.  What the service's own steps do to a worker is  *)
(* taken from LLMEndsProofs, as Quiet and NotAcked.                        *)
(***************************************************************************)
EXTENDS LLMServiceInv, LLMWorkerLink, TLAPS

-----------------------------------------------------------------------------
(* LLMWorkerLink: queues of frames                                         *)

IsSeq(q) == \E S : q \in Seq(S)

(* The frames of a type: whether there are any, and at most one.           *)
Has(q, type) == \E i \in 1..Len(q) : q[i].type = type

One(q, type) == \A i, j \in 1..Len(q) : q[i].type = type /\ q[j].type = type => i = j

(* A queue with some of the frames of another, in their order.             *)
Fewer(p, q) ==
    /\ IsSeq(p)
    /\ \A i \in 1..Len(p) : \E j \in 1..Len(q) : p[i] = q[j]
    /\ \A type : (Has(p, type) => Has(q, type)) /\ (One(q, type) => One(p, type))

(* A queue with one more frame.                                            *)
More(q, f, p) ==
    /\ IsSeq(p)
    /\ \A i \in 1..Len(p) : p[i] = f \/ \E j \in 1..Len(q) : p[i] = q[j]
    /\ \A type : f.type # type => (Has(p, type) => Has(q, type)) /\ (One(q, type) => One(p, type))
    /\ ~Has(q, f.type) => One(p, f.type)

(* The same queue, and an empty one.                                       *)
LEMMA FewerTrivially ==
    ASSUME NEW q, IsSeq(q)
    PROVE  Fewer(q, q) /\ Fewer(<<>>, q) /\ \A type : ~Has(<<>>, type)
<1>1. Fewer(q, q)
  BY Zenon DEF Fewer
<1>2. <<>> \in Seq({}) /\ \A i \in 1..Len(<<>>) : FALSE
  OBVIOUS
<1> QED
  BY <1>1, <1>2, Zenon DEF Fewer, IsSeq, Has, One

(* The first frame is taken.                                               *)
LEMMA TakeFrame ==
    ASSUME NEW q, IsSeq(q), q # <<>>
    PROVE  /\ Fewer(Tail(q), q) /\ \E i \in 1..Len(q) : Head(q) = q[i]
           /\ \A type : Head(q).type = type => Has(q, type) /\ (One(q, type) => ~Has(Tail(q), type))
<1>1. PICK S : q \in Seq(S)
  BY Zenon DEF IsSeq
<1>2. PICK p : p = Tail(q)
  BY Zenon
<1>3. /\ p \in Seq(S) /\ Len(p) \in Nat /\ Len(q) = Len(p) + 1 /\ Head(q) = q[1]
      /\ \A i \in 1..Len(p) : p[i] = q[i + 1]
  BY <1>1, <1>2
<1>4. \A i \in 1..Len(p) : i + 1 \in 1..Len(q) /\ i + 1 # 1 /\ p[i] = q[i + 1]
  BY <1>3
<1>5. 1 \in 1..Len(q) /\ \A i, j \in 1..Len(p) : i + 1 = j + 1 => i = j
  BY <1>3
<1>6. \A type : Has(p, type) => Has(q, type)
  BY <1>4, Zenon DEF Has
<1>7. \A type : One(q, type) => One(p, type)
  BY <1>4, <1>5, ZenonT(30) DEF One
<1>8. \A type : Head(q).type = type => Has(q, type) /\ (One(q, type) => ~Has(p, type))
  BY <1>3, <1>4, <1>5, Zenon DEF Has, One
<1> QED
  BY <1>2, <1>3, <1>4, <1>5, <1>6, <1>7, <1>8, Zenon DEF Fewer, IsSeq

(* The first n frames remain.                                              *)
LEMMA CutFrames ==
    ASSUME NEW q, IsSeq(q), NEW n \in 0..Len(q)
    PROVE  Fewer(SubSeq(q, 1, n), q)
<1>1. PICK S : q \in Seq(S)
  BY Zenon DEF IsSeq
<1>2. PICK p : p = SubSeq(q, 1, n)
  BY Zenon
<1>3. p \in Seq(S) /\ Len(p) = n /\ \A i \in 1..n : p[i] = q[i]
  BY <1>1, <1>2
<1>4. \A i \in 1..Len(p) : i \in 1..Len(q) /\ p[i] = q[i]
  BY <1>1, <1>3
<1> QED
  BY <1>2, <1>3, <1>4, Zenon DEF Fewer, IsSeq, Has, One

(* A frame is added.                                                       *)
LEMMA AddFrame ==
    ASSUME NEW q, IsSeq(q), NEW f
    PROVE  More(q, f, q \o <<f>>)
<1>1. PICK S : q \in Seq(S)
  BY Zenon DEF IsSeq
<1>2. PICK T : T = S \cup {f}
  BY Zenon
<1>3. q \in Seq(T) /\ f \in T
  BY <1>1, <1>2
<1>4. PICK p : p = q \o <<f>>
  BY Zenon
<1>5. /\ p \in Seq(T) /\ Len(p) = Len(q) + 1 /\ p[Len(q) + 1] = f
      /\ \A i \in 1..Len(q) : p[i] = q[i]
  BY <1>3, <1>4
<1>6. \A i \in 1..Len(p) : (i = Len(q) + 1 /\ p[i] = f) \/ (i \in 1..Len(q) /\ p[i] = q[i])
  BY <1>3, <1>5
<1>7. IsSeq(p) /\ \A i \in 1..Len(p) : p[i] = f \/ \E j \in 1..Len(q) : p[i] = q[j]
  BY <1>5, <1>6, Zenon DEF IsSeq
<1>8. \A type : f.type # type => (Has(p, type) => Has(q, type)) /\ (One(q, type) => One(p, type))
  BY <1>6, Zenon DEF Has, One
<1>9. ~Has(q, f.type) => One(p, f.type)
  BY <1>6, Zenon DEF Has, One
<1> QED
  BY <1>4, <1>7, <1>8, <1>9, Zenon DEF More

(* No frame is added.                                                      *)
LEMMA AddNothing ==
    ASSUME NEW q, IsSeq(q)
    PROVE  q \o <<>> = q
<1>1. PICK S : q \in Seq(S)
  BY Zenon DEF IsSeq
<1> QED
  BY <1>1

(* The oldest event, as a sequence and as frames.                          *)
LEMMA OldestFrames ==
    ASSUME NEW S, NEW out \in Seq(S)
    PROVE  /\ out = <<>> => Oldest(out) = <<>> /\ EventFrames(out) = <<>>
           /\ out # <<>> => /\ Oldest(out) = <<Head(out)>> /\ Head(out) \in S /\ Oldest(out) # <<>>
                            /\ EventFrames(out) = <<Frame("event", Head(out).r, Head(out).event, "none")>>
<1>1. CASE out = <<>>
  <2>1. Oldest(out) = <<>>
    BY <1>1, Zenon DEF Oldest
  <2> QED
    BY <1>1, <2>1 DEF EventFrames
<1>2. CASE out # <<>>
  <2>1. Oldest(out) = <<Head(out)>>
    BY <1>2, Zenon DEF Oldest
  <2>2. PICK h : h = Head(out)
    BY Zenon
  <2>3. EventFrames(out) = <<Frame("event", h.r, h.event, "none")>>
    BY <2>1, <2>2 DEF EventFrames
  <2>4. Head(out) \in S /\ <<h>> # <<>>
    BY <1>2
  <2> QED
    BY <1>2, <2>1, <2>2, <2>3, <2>4, Zenon
<1> QED
  BY <1>1, <1>2, Zenon
-----------------------------------------------------------------------------
(* LLMWorkerLink: the invariant of one worker's link, of its journal (out, *)
(* ends, inb), the receipts of the Store (rec), the worker's call of the   *)
(* service (y), the frames on their way (ts, tw), and the two ends of the  *)
(* connection (on, cl) with the event in flight (fl).                      *)

Entries(w) == {x \in [r: Requests, event: WorkerEvents] : x.event.worker = w}

(* The event is the oldest that is not settled.                            *)
First(out, r, event) == out # <<>> /\ Head(out) = Entry(r, event)

Truth(rec, r, event, decision) == decision = "acked" <=> event \in rec[r]

(* Every event has an id of its own, what the Store has applied is settled *)
(* or the oldest of the outbox, and verdicts are true.                     *)
JournalOK(w, out, ends, rec) ==
    /\ out \in Seq(Entries(w))
    /\ \A i, j \in 1..Len(out) : out[i].event.id = out[j].event.id => i = j
    /\ \A done \in ends :
         /\ done.entry \in Entries(w)
         /\ \A i \in 1..Len(out) : out[i].event.id # done.entry.event.id
         /\ Truth(rec, done.entry.r, done.entry.event, done.decision)
    /\ \A r \in Requests : \A e \in rec[r] :
         e.worker = w /\ e.id # Expiry => First(out, r, e) \/ \E done \in ends : done.entry = Entry(r, e)

ToServerOK(out, inb, f) ==
    /\ f.type \in {"ack", "event"} /\ f.r \in Requests
    /\ f.type = "ack" => inb[f.r] # "none"
    /\ f.type = "event" => First(out, f.r, f.event)

ToWorkerOK(out, rec, f) ==
    /\ f.type = "assignment" => f.r \in Requests
    /\ f.type = "receipt" => First(out, f.r, f.event) /\ Truth(rec, f.r, f.event, f.decision)

(* Only the oldest event is under way, once at most: as a frame, in the    *)
(* service or as its receipt.                                              *)
Idle(y, ts, tw) == ~Busy(y) /\ ~Has(ts, "event") /\ ~Has(tw, "receipt")

WireOK(out, inb, rec, y, ts, tw) ==
    /\ IsSeq(ts) /\ IsSeq(tw)
    /\ \A i \in 1..Len(ts) : ToServerOK(out, inb, ts[i])
    /\ \A i \in 1..Len(tw) : ToWorkerOK(out, rec, tw[i])
    /\ One(ts, "event") /\ One(tw, "receipt") /\ ~(Has(ts, "event") /\ Has(tw, "receipt"))
    /\ Busy(y) => First(out, y.r, y.event) /\ ~Has(ts, "event") /\ ~Has(tw, "receipt")

(* A live session has in flight whatever is under way.                     *)
SessionOK(y, on, cl, fl, out, ts, tw) ==
    /\ ~on => ts = <<>>
    /\ cl # "on" => fl = <<>> /\ tw = <<>>
    /\ fl = <<>> \/ (out # <<>> /\ fl = <<Head(out)>>)
    /\ cl = "on" /\ fl = <<>> => Idle(y, ts, tw)

Link(w, out, inb, ends, rec, y, ts, tw, on, cl, fl) ==
    /\ DOMAIN inb = Requests
    /\ JournalOK(w, out, ends, rec)
    /\ WireOK(out, inb, rec, y, ts, tw)
    /\ SessionOK(y, on, cl, fl, out, ts, tw)

(* The events of a journal are the worker's own.                           *)
LEMMA EntryFacts ==
    ASSUME NEW w, NEW x \in Entries(w)
    PROVE  /\ x.r \in Requests /\ x.event \in WorkerEvents /\ x.event.worker = w /\ x.event.id # Expiry
           /\ x = Entry(x.r, x.event)
<1>1. x.r \in Requests /\ x.event \in WorkerEvents /\ x.event.worker = w
  BY Zenon DEF Entries
<1>2. x.event.id \in EventIDs
  BY <1>1, WorkerEventsAssumption, Zenon
<1>3. x = Entry(x.r, x.event)
  BY Zenon DEF Entries, Entry
<1> QED
  BY <1>1, <1>2, <1>3, ExpiryAssumption, Zenon

(* The oldest event of a journal.                                          *)
LEMMA HeadFacts ==
    ASSUME NEW w, NEW out \in Seq(Entries(w)), out # <<>>
    PROVE  Head(out) \in Entries(w) /\ 1 \in 1..Len(out) /\ Head(out) = out[1]
OBVIOUS

(* An entry is its request and its event.                                  *)
LEMMA EntryIs ==
    ASSUME NEW r, NEW event
    PROVE  Entry(r, event).r = r /\ Entry(r, event).event = event
BY Zenon DEF Entry

(* What is the oldest event is the worker's.                               *)
LEMMA FirstIs ==
    ASSUME NEW w, NEW out \in Seq(Entries(w)), NEW r, NEW event, First(out, r, event)
    PROVE  /\ 1 \in 1..Len(out) /\ out[1].event = event /\ out[1].r = r /\ Entry(r, event) \in Entries(w)
           /\ r \in Requests /\ event \in WorkerEvents /\ event.worker = w /\ event.id # Expiry
<1>1. PICK x : x = Head(out)
  BY Zenon
<1>2. x \in Entries(w) /\ 1 \in 1..Len(out) /\ out[1] = x
  BY <1>1, HeadFacts, Zenon DEF First
<1>3. x = Entry(r, event)
  BY <1>1, Zenon DEF First
<1>4. x.r = r /\ x.event = event
  BY <1>3, EntryIs, Zenon
<1>5. x.r \in Requests /\ x.event \in WorkerEvents /\ x.event.worker = w /\ x.event.id # Expiry
  BY <1>2, EntryFacts, Zenon
<1> QED
  BY <1>2, <1>3, <1>4, <1>5, Zenon

(* The journal while the Store applies events.                             *)
LEMMA JournalGrows ==
    ASSUME NEW w, NEW out, NEW ends, NEW rec, NEW new, NEW y, JournalOK(w, out, ends, rec), Adds(w, y, rec, new),
           Busy(y) => First(out, y.r, y.event)
    PROVE  JournalOK(w, out, ends, new)
<1>1. ASSUME NEW done \in ends PROVE Truth(new, done.entry.r, done.entry.event, done.decision)
  <2>1. PICK x \in Entries(w) : x = done.entry
    BY Zenon DEF JournalOK
  <2>2. /\ x.r \in Requests /\ x.event.worker = w /\ x.event.id # Expiry
    BY EntryFacts, Zenon
  <2>3. x.event \notin new[x.r] \ rec[x.r]
    <3> SUFFICES ASSUME x.event \in new[x.r] \ rec[x.r] PROVE FALSE
      BY Zenon
    <3>1. Busy(y) /\ y.event = x.event
      BY <2>2, Zenon DEF Adds
    <3>2. out \in Seq(Entries(w)) /\ First(out, y.r, y.event)
      BY <3>1, Zenon DEF JournalOK
    <3>3. 1 \in 1..Len(out) /\ out[1].event = x.event
      BY <3>1, <3>2, FirstIs, SMT
    <3> QED
      BY <2>1, <3>3, Zenon DEF JournalOK
  <2>4. Truth(rec, x.r, x.event, done.decision) /\ rec[x.r] \subseteq new[x.r]
    BY <2>1, <2>2, Zenon DEF JournalOK, Adds
  <2> QED
    BY <2>1, <2>3, <2>4, Zenon DEF Truth
<1>2. ASSUME NEW r \in Requests, NEW e \in new[r], e.worker = w, e.id # Expiry
      PROVE  First(out, r, e) \/ \E done \in ends : done.entry = Entry(r, e)
  BY <1>2, Zenon DEF Adds, JournalOK
<1> QED
  BY <1>1, <1>2, Zenon DEF JournalOK

(* The wire while the Store applies events.                                *)
LEMMA WireGrows ==
    ASSUME NEW w, NEW out \in Seq(Entries(w)), NEW inb, NEW rec, NEW new, NEW y, NEW z, NEW ts, NEW tw,
           WireOK(out, inb, rec, y, ts, tw), Adds(w, y, rec, new),
           z.r = y.r /\ z.event = y.event /\ (z.pc = "idle" <=> y.pc = "idle")
    PROVE  WireOK(out, inb, new, z, ts, tw)
<1>1. Busy(z) <=> Busy(y)
  BY Zenon DEF Busy
<1>2. ASSUME NEW i \in 1..Len(tw) PROVE ToWorkerOK(out, new, tw[i])
  <2>1. PICK f : f = tw[i]
    BY Zenon
  <2>2. CASE f.type # "receipt"
    BY <2>1, <2>2, Zenon DEF WireOK, ToWorkerOK
  <2>3. CASE f.type = "receipt"
    <3>1. First(out, f.r, f.event) /\ Truth(rec, f.r, f.event, f.decision) /\ ~Busy(y)
      BY <2>1, <2>3, Zenon DEF WireOK, ToWorkerOK, Has
    <3>2. f.r \in Requests /\ f.event.worker = w /\ f.event.id # Expiry
      BY <3>1, FirstIs, SMT
    <3>3. f.event \in new[f.r] <=> f.event \in rec[f.r]
      BY <3>1, <3>2, Zenon DEF Adds
    <3> QED
      BY <2>1, <2>3, <3>1, <3>3, Zenon DEF ToWorkerOK, Truth
  <2> QED
    BY <2>2, <2>3, Zenon
<1> QED
  BY <1>1, <1>2, Zenon DEF WireOK

(* The human answers: an event of a new id.                                *)
LEMMA JournalAppends ==
    ASSUME NEW w, NEW out, NEW ends, NEW rec, JournalOK(w, out, ends, rec), NEW x \in Entries(w),
           \A i \in DOMAIN out : out[i].event.id # x.event.id,
           \A done \in ends : done.entry.event.id # x.event.id
    PROVE  /\ JournalOK(w, Append(out, x), ends, rec)
           /\ \A r, e : First(out, r, e) => First(Append(out, x), r, e)
           /\ out # <<>> => Append(out, x) # <<>> /\ Head(Append(out, x)) = Head(out)
<1> PICK new : new = Append(out, x)
  BY Zenon
<1>0. out \in Seq(Entries(w))
  BY Zenon DEF JournalOK
<1>1. /\ new \in Seq(Entries(w)) /\ DOMAIN out = 1..Len(out)
      /\ \A i \in 1..Len(new) : (i \in 1..Len(out) /\ new[i] = out[i]) \/ (i = Len(out) + 1 /\ new[i] = x)
  BY <1>0
<1>2. out # <<>> => new # <<>> /\ Head(new) = Head(out)
  BY <1>0
<1>3. \A i, j \in 1..Len(new) : new[i].event.id = new[j].event.id => i = j
  <2>1. \A i, j \in 1..Len(out) : out[i].event.id = out[j].event.id => i = j
    BY Zenon DEF JournalOK
  <2> QED
    BY <1>1, <2>1, SMT
<1>4. \A done \in ends : \A i \in 1..Len(new) : new[i].event.id # done.entry.event.id
  BY <1>1, ZenonT(30) DEF JournalOK
<1>5. \A r, e : First(out, r, e) => First(new, r, e)
  BY <1>2, Zenon DEF First
<1> QED
  BY <1>1, <1>2, <1>3, <1>4, <1>5, Zenon DEF JournalOK

(* A receipt settles the oldest event with the truth.                      *)
LEMMA JournalSettles ==
    ASSUME NEW w, NEW out, NEW ends, NEW rec, JournalOK(w, out, ends, rec), out # <<>>, NEW x, x = Head(out),
           NEW d, Truth(rec, x.r, x.event, d)
    PROVE  JournalOK(w, Tail(out), ends \cup {[entry |-> x, decision |-> d]}, rec)
<1> PICK new : new = Tail(out)
  BY Zenon
<1> PICK more : more = ends \cup {[entry |-> x, decision |-> d]}
  BY Zenon
<1>0. out \in Seq(Entries(w)) /\ x \in Entries(w) /\ out[1] = x
  BY HeadFacts, Zenon DEF JournalOK
<1>1. new \in Seq(Entries(w)) /\ \A i \in 1..Len(new) : i + 1 \in 1..Len(out) /\ i + 1 # 1 /\ new[i] = out[i + 1]
  BY <1>0
<1>2. 1 \in 1..Len(out) /\ \A i, j \in 1..Len(new) : i + 1 = j + 1 => i = j
  BY <1>0, <1>1
<1>3. \A i, j \in 1..Len(new) : new[i].event.id = new[j].event.id => i = j
  <2>1. \A i, j \in 1..Len(out) : out[i].event.id = out[j].event.id => i = j
    BY Zenon DEF JournalOK
  <2> QED
    BY <1>1, <1>2, <2>1, SMT
<1>4. ASSUME NEW done \in more
      PROVE  /\ done.entry \in Entries(w)
             /\ \A i \in 1..Len(new) : new[i].event.id # done.entry.event.id
             /\ Truth(rec, done.entry.r, done.entry.event, done.decision)
  <2>1. CASE done \in ends
    <3>1. /\ done.entry \in Entries(w) /\ Truth(rec, done.entry.r, done.entry.event, done.decision)
          /\ \A i \in 1..Len(out) : out[i].event.id # done.entry.event.id
      BY <2>1, Zenon DEF JournalOK
    <3>2. \A i \in 1..Len(new) : new[i].event.id # done.entry.event.id
      BY <1>1, <3>1, SMT
    <3> QED
      BY <3>1, <3>2, Zenon
  <2>2. CASE done = [entry |-> x, decision |-> d]
    <3>1. done.entry = x /\ done.decision = d
      BY <2>2, Zenon
    <3>2. \A i \in 1..Len(new) : new[i].event.id # x.event.id
      BY <1>0, <1>1, <1>2, Zenon DEF JournalOK
    <3> QED
      BY <1>0, <3>1, <3>2, Zenon
  <2> QED
    BY <2>1, <2>2, Zenon
<1>5. ASSUME NEW r \in Requests, NEW e \in rec[r], e.worker = w, e.id # Expiry
      PROVE  \E done \in more : done.entry = Entry(r, e)
  <2>1. CASE First(out, r, e)
    <3>1. PICK done : done = [entry |-> x, decision |-> d]
      BY Zenon
    <3>2. done.entry = Entry(r, e) /\ done \in more
      BY <2>1, <3>1, Zenon DEF First
    <3> QED
      BY <3>2, Zenon
  <2>2. CASE \E done \in ends : done.entry = Entry(r, e)
    BY <2>2, Zenon
  <2> QED
    BY <1>5, <2>1, <2>2, Zenon DEF JournalOK
<1> QED
  BY <1>1, <1>3, <1>4, <1>5, Zenon DEF JournalOK

(* The entry in flight is the only one that a receipt can take out.        *)
LEMMA SettlesFirst ==
    ASSUME NEW w, NEW out, NEW ends, NEW rec, JournalOK(w, out, ends, rec), out # <<>>,
           NEW i \in DOMAIN out, out[i] = Head(out)
    PROVE  SubSeq(out, 1, i - 1) \o SubSeq(out, i + 1, Len(out)) = Tail(out)
<1>1. out \in Seq(Entries(w)) /\ Head(out) = out[1] /\ 1 \in 1..Len(out)
  BY HeadFacts, Zenon DEF JournalOK
<1>2. i \in 1..Len(out)
  BY <1>1
<1>3. i = 1
  BY <1>1, <1>2, Zenon DEF JournalOK
<1>4. SubSeq(out, 1, 0) = <<>> /\ SubSeq(out, 2, Len(out)) = Tail(out)
  BY <1>1
<1>5. <<>> \o Tail(out) = Tail(out)
  BY <1>1
<1>6. i - 1 = 0 /\ i + 1 = 2
  BY <1>3
<1> QED
  BY <1>4, <1>5, <1>6, Zenon

(* Frames are read or lost, a call returns.                                *)
LEMMA WireFewer ==
    ASSUME NEW out, NEW inb, NEW rec, NEW y, NEW z, NEW ts, NEW tw, NEW ts2, NEW tw2,
           WireOK(out, inb, rec, y, ts, tw), Fewer(ts2, ts), Fewer(tw2, tw),
           Busy(z) => Busy(y) /\ z.r = y.r /\ z.event = y.event
    PROVE  WireOK(out, inb, rec, z, ts2, tw2)
<1>1. IsSeq(ts2) /\ IsSeq(tw2)
  BY Zenon DEF Fewer
<1>2. ASSUME NEW i \in 1..Len(ts2) PROVE ToServerOK(out, inb, ts2[i])
  <2>1. PICK j \in 1..Len(ts) : ts2[i] = ts[j]
    BY Zenon DEF Fewer
  <2> QED
    BY <2>1, Zenon DEF WireOK
<1>3. ASSUME NEW i \in 1..Len(tw2) PROVE ToWorkerOK(out, rec, tw2[i])
  <2>1. PICK j \in 1..Len(tw) : tw2[i] = tw[j]
    BY Zenon DEF Fewer
  <2> QED
    BY <2>1, Zenon DEF WireOK
<1>4. One(ts2, "event") /\ One(tw2, "receipt") /\ (Has(ts2, "event") => Has(ts, "event"))
      /\ (Has(tw2, "receipt") => Has(tw, "receipt"))
  BY Zenon DEF WireOK, Fewer
<1>5. ~(Has(ts2, "event") /\ Has(tw2, "receipt"))
  BY <1>4, Zenon DEF WireOK
<1>6. Busy(z) => First(out, z.r, z.event) /\ ~Has(ts2, "event") /\ ~Has(tw2, "receipt")
  BY <1>4, Zenon DEF WireOK
<1> QED
  BY <1>1, <1>2, <1>3, <1>4, <1>5, <1>6, Zenon DEF WireOK

(* The journal goes on, with the oldest event the same.                    *)
LEMMA WireStays ==
    ASSUME NEW out, NEW new, NEW inb, NEW inb2, NEW rec, NEW y, NEW ts, NEW tw,
           WireOK(out, inb, rec, y, ts, tw), \A r, e : First(out, r, e) => First(new, r, e),
           \A r \in Requests : inb[r] # "none" => inb2[r] # "none"
    PROVE  WireOK(new, inb2, rec, y, ts, tw)
<1>1. ASSUME NEW i \in 1..Len(ts) PROVE ToServerOK(new, inb2, ts[i])
  BY Zenon DEF WireOK, ToServerOK
<1>2. ASSUME NEW i \in 1..Len(tw) PROVE ToWorkerOK(new, rec, tw[i])
  BY Zenon DEF WireOK, ToWorkerOK
<1> QED
  BY <1>1, <1>2, Zenon DEF WireOK

(* With no event under way the journal may be any.                         *)
LEMMA WireQuiet ==
    ASSUME NEW out, NEW new, NEW inb, NEW rec, NEW y, NEW ts, NEW tw,
           WireOK(out, inb, rec, y, ts, tw), Idle(y, ts, tw)
    PROVE  WireOK(new, inb, rec, y, ts, tw)
<1>1. ASSUME NEW i \in 1..Len(ts) PROVE ToServerOK(new, inb, ts[i])
  <2>1. ts[i].type # "event"
    BY Zenon DEF Idle, Has
  <2> QED
    BY <2>1, Zenon DEF WireOK, ToServerOK
<1>2. ASSUME NEW i \in 1..Len(tw) PROVE ToWorkerOK(new, rec, tw[i])
  <2>1. tw[i].type # "receipt"
    BY Zenon DEF Idle, Has
  <2> QED
    BY <2>1, Zenon DEF WireOK, ToWorkerOK
<1> QED
  BY <1>1, <1>2, Zenon DEF WireOK, Idle

(* A frame for the worker; a receipt when nothing else is under way.       *)
LEMMA WireSends ==
    ASSUME NEW out, NEW inb, NEW rec, NEW y, NEW ts, NEW tw, NEW f, NEW tw2,
           WireOK(out, inb, rec, y, ts, tw), More(tw, f, tw2), ToWorkerOK(out, rec, f),
           f.type = "receipt" => Idle(y, ts, tw)
    PROVE  WireOK(out, inb, rec, y, ts, tw2)
<1>1. IsSeq(tw2)
  BY Zenon DEF More
<1>2. ASSUME NEW i \in 1..Len(tw2) PROVE ToWorkerOK(out, rec, tw2[i])
  BY Zenon DEF More, WireOK
<1>3. CASE f.type = "receipt"
  <2>1. One(tw2, "receipt") /\ ~Busy(y) /\ ~Has(ts, "event")
    BY <1>3, Zenon DEF More, Idle
  <2> QED
    BY <1>1, <1>2, <2>1, Zenon DEF WireOK
<1>4. CASE f.type # "receipt"
  <2>1. One(tw2, "receipt") /\ (Has(tw2, "receipt") => Has(tw, "receipt"))
    BY <1>4, Zenon DEF More, WireOK
  <2> QED
    BY <1>1, <1>2, <2>1, Zenon DEF WireOK
<1> QED
  BY <1>3, <1>4, Zenon

(* A frame for the service; an event when nothing else is under way.       *)
LEMMA WireReceives ==
    ASSUME NEW out, NEW inb, NEW rec, NEW y, NEW ts, NEW tw, NEW f, NEW ts2,
           WireOK(out, inb, rec, y, ts, tw), More(ts, f, ts2), ToServerOK(out, inb, f),
           f.type = "event" => Idle(y, ts, tw)
    PROVE  WireOK(out, inb, rec, y, ts2, tw)
<1>1. IsSeq(ts2)
  BY Zenon DEF More
<1>2. ASSUME NEW i \in 1..Len(ts2) PROVE ToServerOK(out, inb, ts2[i])
  BY Zenon DEF More, WireOK
<1>3. CASE f.type = "event"
  <2>1. One(ts2, "event") /\ ~Busy(y) /\ ~Has(tw, "receipt")
    BY <1>3, Zenon DEF More, Idle
  <2> QED
    BY <1>1, <1>2, <2>1, Zenon DEF WireOK
<1>4. CASE f.type # "event"
  <2>1. One(ts2, "event") /\ (Has(ts2, "event") => Has(ts, "event"))
    BY <1>4, Zenon DEF More, WireOK
  <2> QED
    BY <1>1, <1>2, <2>1, Zenon DEF WireOK
<1> QED
  BY <1>3, <1>4, Zenon

(* An event frame becomes a call of the service.                           *)
LEMMA WireCalls ==
    ASSUME NEW out, NEW inb, NEW rec, NEW y, NEW z, NEW ts, NEW tw, NEW f,
           WireOK(out, inb, rec, y, ts, tw), ts # <<>>, f = Head(ts), f.type = "event", z.r = f.r, z.event = f.event
    PROVE  WireOK(out, inb, rec, z, Tail(ts), tw)
<1>1. PICK tail : tail = Tail(ts)
  BY Zenon
<1>2. IsSeq(ts) /\ IsSeq(tw) /\ One(ts, "event") /\ One(tw, "receipt")
  BY Zenon DEF WireOK
<1>3. Fewer(tail, ts) /\ Has(ts, "event") /\ ~Has(tail, "event")
  BY <1>1, <1>2, TakeFrame, Zenon
<1>4. PICK i \in 1..Len(ts) : f = ts[i]
  BY <1>2, TakeFrame, Zenon
<1>5. First(out, z.r, z.event)
  BY <1>4, Zenon DEF WireOK, ToServerOK
<1>6. ~Has(tw, "receipt")
  BY <1>3, Zenon DEF WireOK
<1>7. IsSeq(tail) /\ One(tail, "event")
  BY <1>2, <1>3, Zenon DEF Fewer
<1>8. ASSUME NEW k \in 1..Len(tail) PROVE ToServerOK(out, inb, tail[k])
  <2>1. PICK j \in 1..Len(ts) : tail[k] = ts[j]
    BY <1>3, Zenon DEF Fewer
  <2> QED
    BY <2>1, Zenon DEF WireOK
<1> QED
  BY <1>1, <1>2, <1>3, <1>5, <1>6, <1>7, <1>8, Zenon DEF WireOK
-----------------------------------------------------------------------------
(* LLMWorkerLink: what the steps do to one link                            *)

(* Frames are read or lost, a call returns.                                *)
LEMMA LinkSlides ==
    ASSUME NEW w, NEW out, NEW inb, NEW ends, NEW rec, NEW y, NEW ts, NEW tw, NEW on, NEW cl, NEW fl,
           Link(w, out, inb, ends, rec, y, ts, tw, on, cl, fl),
           NEW z, NEW ts2, NEW tw2, NEW on2, Fewer(ts2, ts), Fewer(tw2, tw),
           ~on2 => ts2 = <<>>, tw = <<>> => tw2 = <<>>,
           Busy(z) => Busy(y) /\ z.r = y.r /\ z.event = y.event
    PROVE  Link(w, out, inb, ends, rec, z, ts2, tw2, on2, cl, fl)
<1>1. WireOK(out, inb, rec, z, ts2, tw2)
  BY WireFewer, Zenon DEF Link
<1>2. Idle(y, ts, tw) => Idle(z, ts2, tw2)
  BY Zenon DEF Idle, Fewer
<1>3. SessionOK(z, on2, cl, fl, out, ts2, tw2)
  BY <1>2, Zenon DEF Link, SessionOK
<1> QED
  BY <1>1, <1>3, Zenon DEF Link

(* The transport reads an event.                                           *)
LEMMA LinkCalls ==
    ASSUME NEW w, NEW out, NEW inb, NEW ends, NEW rec, NEW y, NEW ts, NEW tw, NEW on, NEW cl, NEW fl,
           Link(w, out, inb, ends, rec, y, ts, tw, on, cl, fl),
           NEW z, ts # <<>>, NEW f, f = Head(ts), f.type = "event", z.r = f.r, z.event = f.event, on
    PROVE  Link(w, out, inb, ends, rec, z, Tail(ts), tw, on, cl, fl)
<1>1. WireOK(out, inb, rec, z, Tail(ts), tw)
  BY WireCalls, Zenon DEF Link
<1>2. Has(ts, "event")
  BY TakeFrame, Zenon DEF Link, WireOK
<1>3. SessionOK(z, on, cl, fl, out, Tail(ts), tw)
  BY <1>2, Zenon DEF Link, SessionOK, Idle
<1> QED
  BY <1>1, <1>3, Zenon DEF Link

(* The transport sends a frame; a receipt to a session that waits for it.  *)
LEMMA LinkSends ==
    ASSUME NEW w, NEW out, NEW inb, NEW ends, NEW rec, NEW y, NEW ts, NEW tw, NEW on, NEW cl, NEW fl,
           Link(w, out, inb, ends, rec, y, ts, tw, on, cl, fl), cl = "on",
           NEW f, NEW tw2, tw2 = tw \o <<f>>, ToWorkerOK(out, rec, f),
           f.type = "receipt" => Idle(y, ts, tw) /\ fl # <<>>
    PROVE  Link(w, out, inb, ends, rec, y, ts, tw2, on, cl, fl)
<1>1. More(tw, f, tw2)
  BY AddFrame, Zenon DEF Link, WireOK
<1>2. WireOK(out, inb, rec, y, ts, tw2)
  BY <1>1, WireSends, Zenon DEF Link
<1>3. f.type # "receipt" /\ Idle(y, ts, tw) => Idle(y, ts, tw2)
  BY <1>1, Zenon DEF Idle, More
<1>4. SessionOK(y, on, cl, fl, out, ts, tw2)
  BY <1>3, Zenon DEF Link, SessionOK
<1> QED
  BY <1>2, <1>4, Zenon DEF Link

(* The client's session is over.                                           *)
LEMMA LinkEnds ==
    ASSUME NEW w, NEW out, NEW inb, NEW ends, NEW rec, NEW y, NEW ts, NEW tw, NEW on, NEW cl, NEW fl,
           Link(w, out, inb, ends, rec, y, ts, tw, on, cl, fl),
           NEW why, why # "on", NEW ts2, Fewer(ts2, ts), ts = <<>> => ts2 = <<>>
    PROVE  Link(w, out, inb, ends, rec, y, ts2, <<>>, on, why, <<>>)
<1>1. Fewer(<<>>, tw)
  BY FewerTrivially, Zenon DEF Link, WireOK
<1>2. WireOK(out, inb, rec, y, ts2, <<>>)
  BY <1>1, WireFewer, Zenon DEF Link
<1>3. SessionOK(y, on, why, <<>>, out, ts2, <<>>)
  BY Zenon DEF Link, SessionOK
<1> QED
  BY <1>2, <1>3, Zenon DEF Link

(* A session without an event in flight sends the oldest one.              *)
LEMMA LinkFlushes ==
    ASSUME NEW w, NEW out, NEW inb, NEW ends, NEW rec, NEW y, NEW ts, NEW tw, NEW on,
           DOMAIN inb = Requests, JournalOK(w, out, ends, rec), WireOK(out, inb, rec, y, ts, tw),
           Idle(y, ts, tw), ~on => ts = <<>>,
           NEW ts2, ts2 = IF on THEN ts \o EventFrames(out) ELSE ts
    PROVE  Link(w, out, inb, ends, rec, y, ts2, tw, on, "on", Oldest(out))
<1>1. PICK fl : fl = Oldest(out)
  BY Zenon
<1>2. out \in Seq(Entries(w)) /\ IsSeq(ts)
  BY Zenon DEF JournalOK, WireOK
<1>3. CASE out = <<>>
  <2>1. fl = <<>> /\ EventFrames(out) = <<>>
    BY <1>1, <1>2, <1>3, OldestFrames, Zenon
  <2>2. ts \o <<>> = ts
    BY <1>2, AddNothing, Zenon
  <2>3. ts2 = ts
    BY <2>1, <2>2, Zenon
  <2>4. SessionOK(y, on, "on", fl, out, ts2, tw)
    BY <2>1, <2>3, Zenon DEF SessionOK
  <2> QED
    BY <1>1, <2>3, <2>4, Zenon DEF Link
<1>4. CASE out # <<>>
  <2>1. PICK h : h = Head(out)
    BY Zenon
  <2>2. PICK f : f = Frame("event", h.r, h.event, "none")
    BY Zenon
  <2>3. fl = <<h>> /\ fl # <<>> /\ h \in Entries(w) /\ EventFrames(out) = <<f>>
    <3>1. /\ Oldest(out) = <<Head(out)>> /\ Head(out) \in Entries(w) /\ Oldest(out) # <<>>
          /\ EventFrames(out) = <<Frame("event", Head(out).r, Head(out).event, "none")>>
      BY <1>2, <1>4, OldestFrames, Zenon
    <3> QED
      BY <1>1, <2>1, <2>2, <3>1, Zenon
  <2>4. SessionOK(y, on, "on", fl, out, ts2, tw)
    <3>1. ~on => ts2 = <<>>
      BY Zenon
    <3>2. fl = <<Head(out)>> /\ out # <<>> /\ fl # <<>>
      BY <1>4, <2>1, <2>3, Zenon
    <3> QED
      BY <3>1, <3>2, Zenon DEF SessionOK
  <2>5. CASE ~on
    BY <1>1, <2>4, <2>5, Zenon DEF Link
  <2>6. CASE on
    <3>1. ts2 = ts \o <<f>>
      BY <2>3, <2>6, Zenon
    <3>2. More(ts, f, ts2)
      BY <1>2, <3>1, AddFrame, Zenon
    <3>3. f.type = "event" /\ f.r = h.r /\ f.event = h.event
      BY <2>2, Zenon DEF Frame
    <3>4. h.r \in Requests /\ h = Entry(h.r, h.event)
      BY <2>3, EntryFacts, Zenon
    <3>5. ToServerOK(out, inb, f)
      BY <1>4, <2>1, <3>3, <3>4, Zenon DEF ToServerOK, First
    <3>6. WireOK(out, inb, rec, y, ts2, tw)
      BY <3>2, <3>5, WireReceives, Zenon
    <3> QED
      BY <1>1, <2>4, <3>6, Zenon DEF Link
  <2> QED
    BY <2>5, <2>6, Zenon
<1> QED
  BY <1>3, <1>4, Zenon

(* A receipt settles the event in flight, and the next one is sent.        *)
LEMMA LinkSettles ==
    ASSUME NEW w, NEW out, NEW inb, NEW ends, NEW rec, NEW y, NEW ts, NEW tw, NEW on, NEW cl, NEW fl,
           Link(w, out, inb, ends, rec, y, ts, tw, on, cl, fl),
           tw # <<>>, Head(tw).type = "receipt", fl # <<>>,
           NEW ts2, ts2 = IF on THEN ts \o EventFrames(Tail(out)) ELSE ts
    PROVE  Link(w, Tail(out), inb, ends \cup {[entry |-> Head(fl), decision |-> Head(tw).decision]}, rec, y, ts2,
                Tail(tw), on, "on", Oldest(Tail(out)))
<1> PICK g : g = Head(tw)
  BY Zenon
<1> PICK new : new = Tail(out)
  BY Zenon
<1> PICK more : more = ends \cup {[entry |-> Head(fl), decision |-> g.decision]}
  BY Zenon
<1>1. PICK x : x = Head(out)
  BY Zenon
<1>2. out # <<>> /\ fl = <<x>>
  BY <1>1, Zenon DEF Link, SessionOK
<1>3. Head(fl) = x
  BY <1>2
<1>4. PICK tail : tail = Tail(tw)
  BY Zenon
<1>5. IsSeq(tw) /\ IsSeq(ts) /\ One(tw, "receipt")
  BY Zenon DEF Link, WireOK
<1>6. Fewer(tail, tw) /\ Has(tw, "receipt") /\ ~Has(tail, "receipt")
  BY <1>4, <1>5, TakeFrame, Zenon
<1>7. PICK k \in 1..Len(tw) : g = tw[k]
  BY <1>5, TakeFrame, Zenon
<1>8. First(out, g.r, g.event) /\ Truth(rec, g.r, g.event, g.decision)
  BY <1>7, Zenon DEF Link, WireOK, ToWorkerOK
<1>9. x = Entry(g.r, g.event)
  BY <1>1, <1>8, Zenon DEF First
<1>10. x.r = g.r /\ x.event = g.event
  BY <1>9, EntryIs, ZenonT(30)
<1>11. Truth(rec, x.r, x.event, g.decision)
  BY <1>8, <1>10, Zenon
<1>12. JournalOK(w, out, ends, rec) /\ WireOK(out, inb, rec, y, ts, tw) /\ DOMAIN inb = Requests
  BY Zenon DEF Link
<1>13. ts2 = IF on THEN ts \o EventFrames(new) ELSE ts
  BY Zenon
<1>14. more = ends \cup {[entry |-> x, decision |-> g.decision]}
  BY <1>3, Zenon
<1>15. JournalOK(w, new, more, rec)
  <2>1. PICK d : d = g.decision
    BY Zenon
  <2>2. Truth(rec, x.r, x.event, d) /\ more = ends \cup {[entry |-> x, decision |-> d]}
    BY <1>11, <1>14, <2>1, Zenon
  <2>3. JournalOK(w, Tail(out), ends \cup {[entry |-> x, decision |-> d]}, rec)
    BY <1>1, <1>2, <1>12, <2>2, JournalSettles, Zenon
  <2> QED
    BY <2>2, <2>3, Zenon
<1>16. Fewer(ts, ts)
  BY <1>5, FewerTrivially, Zenon
<1>17. WireOK(out, inb, rec, y, ts, tail)
  BY <1>6, <1>12, <1>16, WireFewer, Zenon
<1>18. Idle(y, ts, tail)
  BY <1>6, <1>12, Zenon DEF WireOK, Idle
<1>19. WireOK(new, inb, rec, y, ts, tail)
  BY <1>17, <1>18, WireQuiet, Zenon
<1>20. ~on => ts = <<>>
  BY Zenon DEF Link, SessionOK
<1>21. Link(w, new, inb, more, rec, y, ts2, tail, on, "on", Oldest(new))
  BY <1>12, <1>13, <1>15, <1>18, <1>19, <1>20, LinkFlushes, Zenon
<1> QED
  BY <1>4, <1>21, Zenon

(* The human answers.                                                      *)
LEMMA LinkAnswers ==
    ASSUME NEW w, NEW out, NEW inb, NEW ends, NEW rec, NEW y, NEW ts, NEW tw, NEW on, NEW cl, NEW fl,
           Link(w, out, inb, ends, rec, y, ts, tw, on, cl, fl), NEW x \in Entries(w),
           \A i \in DOMAIN out : out[i].event.id # x.event.id,
           \A done \in ends : done.entry.event.id # x.event.id
    PROVE  Link(w, Append(out, x), inb, ends, rec, y, ts, tw, on, cl, fl)
<1>1. PICK new : new = Append(out, x)
  BY Zenon
<1>2. /\ JournalOK(w, new, ends, rec) /\ \A r, e : First(out, r, e) => First(new, r, e)
      /\ out # <<>> => new # <<>> /\ Head(new) = Head(out)
  <2>1. JournalOK(w, out, ends, rec)
    BY Zenon DEF Link
  <2>2. /\ JournalOK(w, Append(out, x), ends, rec)
        /\ \A r, e : First(out, r, e) => First(Append(out, x), r, e)
        /\ out # <<>> => Append(out, x) # <<>> /\ Head(Append(out, x)) = Head(out)
    BY <2>1, JournalAppends, Zenon
  <2> QED
    BY <1>1, <2>2, Zenon
<1>3. WireOK(new, inb, rec, y, ts, tw)
  BY <1>2, WireStays, Zenon DEF Link
<1>4. SessionOK(y, on, cl, fl, new, ts, tw)
  BY <1>2, Zenon DEF Link, SessionOK
<1> QED
  BY <1>1, <1>2, <1>3, <1>4, Zenon DEF Link

(* The journal keeps an assignment, and says so.                           *)
LEMMA LinkStores ==
    ASSUME NEW w, NEW out, NEW inb, NEW ends, NEW rec, NEW y, NEW ts, NEW tw, NEW on, NEW cl, NEW fl,
           Link(w, out, inb, ends, rec, y, ts, tw, on, cl, fl), NEW inb2, DOMAIN inb2 = Requests,
           \A r \in Requests : inb[r] # "none" => inb2[r] # "none",
           NEW r \in Requests, inb2[r] # "none", NEW ts2,
           ts2 = IF on THEN ts \o <<Frame("ack", r, None, "none")>> ELSE ts
    PROVE  /\ Link(w, out, inb2, ends, rec, y, ts, tw, on, cl, fl)
           /\ Link(w, out, inb2, ends, rec, y, ts2, tw, on, cl, fl)
<1>1. WireOK(out, inb2, rec, y, ts, tw)
  BY WireStays, Zenon DEF Link
<1>2. Link(w, out, inb2, ends, rec, y, ts, tw, on, cl, fl)
  BY <1>1, Zenon DEF Link
<1>3. CASE ~on
  BY <1>2, <1>3, Zenon
<1>4. CASE on
  <2>1. PICK f : f = Frame("ack", r, None, "none")
    BY Zenon
  <2>2. f.type = "ack" /\ f.r = r
    BY <2>1, Zenon DEF Frame
  <2>3. f.type # "event" /\ ToServerOK(out, inb2, f)
    BY <2>2, Zenon DEF ToServerOK
  <2>4. ts2 = ts \o <<f>>
    BY <1>4, <2>1, Zenon
  <2>5. More(ts, f, ts2)
    BY <1>1, <2>4, AddFrame, Zenon DEF WireOK
  <2>6. WireOK(out, inb2, rec, y, ts2, tw)
    <3>1. ToServerOK(out, inb2, f) /\ (f.type = "event" => Idle(y, ts, tw))
      BY <2>3, Zenon
    <3> QED
      BY <1>1, <2>5, <3>1, WireReceives, SMT
  <2>7. Idle(y, ts, tw) => Idle(y, ts2, tw)
    BY <2>3, <2>5, Zenon DEF Idle, More
  <2>8. SessionOK(y, on, cl, fl, out, ts2, tw)
    BY <1>4, <2>7, Zenon DEF Link, SessionOK
  <2> QED
    BY <1>2, <2>6, <2>8, Zenon DEF Link
<1> QED
  BY <1>3, <1>4, Zenon

(* The service goes on with its calls.                                     *)
LEMMA LinkGrows ==
    ASSUME NEW w, NEW out, NEW inb, NEW ends, NEW rec, NEW y, NEW ts, NEW tw, NEW on, NEW cl, NEW fl,
           Link(w, out, inb, ends, rec, y, ts, tw, on, cl, fl), NEW new, Adds(w, y, rec, new),
           NEW z, z.r = y.r /\ z.event = y.event /\ (z.pc = "idle" <=> y.pc = "idle")
    PROVE  Link(w, out, inb, ends, new, z, ts, tw, on, cl, fl)
<1>1. JournalOK(w, out, ends, new)
  BY JournalGrows, Zenon DEF Link, WireOK
<1>2. out \in Seq(Entries(w))
  BY Zenon DEF Link, JournalOK
<1>3. WireOK(out, inb, new, z, ts, tw)
  BY <1>2, WireGrows, Zenon DEF Link
<1>4. Busy(z) <=> Busy(y)
  BY Zenon DEF Busy
<1>5. SessionOK(z, on, cl, fl, out, ts, tw)
  BY <1>4, Zenon DEF Link, SessionOK, Idle
<1> QED
  BY <1>1, <1>3, <1>5, Zenon DEF Link
-----------------------------------------------------------------------------
(* LLMWorkerLink: the invariant of all links                               *)

LinkOK(w) ==
    Link(w, outbox[w], inbox[w], settled[w], receipt, op[w], toServer[w], toWorker[w], conn[w], client[w],
         inFlight[w])

LinkFns ==
    /\ DOMAIN outbox = Workers /\ DOMAIN inbox = Workers /\ DOMAIN settled = Workers
    /\ DOMAIN toServer = Workers /\ DOMAIN toWorker = Workers /\ DOMAIN client = Workers
    /\ DOMAIN inFlight = Workers

AllLinks == LinkFns /\ \A w \in Workers : LinkOK(w)

(* A function that stays the same, or is given one value.                  *)
LEMMA MovesOnce ==
    ASSUME NEW f, NEW w \in DOMAIN f
    PROVE  Moves(f, f, w, f[w]) /\ \A e : Moves(f, [f EXCEPT ![w] = e], w, e)
BY Zenon DEF Moves

(* A step at one worker's link leaves the others alone.                    *)
LEMMA OneLink ==
    ASSUME AllLinks, ServiceFns, NEW w \in Workers, receipt' = receipt,
           NEW out, NEW inb, NEW ends, NEW y, NEW ts, NEW tw, NEW on, NEW cl, NEW fl,
           Moves(outbox, outbox', w, out), Moves(inbox, inbox', w, inb), Moves(settled, settled', w, ends),
           Moves(op, op', w, y), Moves(toServer, toServer', w, ts), Moves(toWorker, toWorker', w, tw),
           Moves(conn, conn', w, on), Moves(client, client', w, cl), Moves(inFlight, inFlight', w, fl),
           Link(w, out, inb, ends, receipt, y, ts, tw, on, cl, fl)
    PROVE  AllLinks'
<1>1. LinkFns'
  BY Zenon DEF AllLinks, LinkFns, Moves
<1>2. LinkOK(w)'
  <2>1. /\ outbox'[w] = out /\ inbox'[w] = inb /\ settled'[w] = ends /\ op'[w] = y /\ toServer'[w] = ts
        /\ toWorker'[w] = tw /\ conn'[w] = on /\ client'[w] = cl /\ inFlight'[w] = fl
    BY Zenon DEF Moves
  <2> QED
    BY <2>1, Zenon DEF LinkOK
<1>3. ASSUME NEW v \in Workers, v # w PROVE LinkOK(v)'
  <2>1. outbox'[v] = outbox[v] /\ inbox'[v] = inbox[v] /\ settled'[v] = settled[v]
    BY <1>3, Zenon DEF AllLinks, LinkFns, Moves
  <2>2. toServer'[v] = toServer[v] /\ toWorker'[v] = toWorker[v]
    BY <1>3, Zenon DEF AllLinks, LinkFns, Moves
  <2>3. client'[v] = client[v] /\ inFlight'[v] = inFlight[v]
    BY <1>3, Zenon DEF AllLinks, LinkFns, Moves
  <2>4. op'[v] = op[v] /\ conn'[v] = conn[v]
    BY <1>3, Zenon DEF ServiceFns, Moves
  <2>5. LinkOK(v)
    BY Zenon DEF AllLinks
  <2> QED
    BY <2>1, <2>2, <2>3, <2>4, <2>5, Zenon DEF LinkOK
<1> QED
  BY <1>1, <1>2, <1>3, Zenon DEF AllLinks

(* The arguments of the link's functions.                                  *)
LEMMA LinkArguments ==
    ASSUME AllLinks, ServiceFns, NEW w \in Workers
    PROVE  /\ w \in DOMAIN outbox /\ w \in DOMAIN inbox /\ w \in DOMAIN settled /\ w \in DOMAIN toServer
           /\ w \in DOMAIN toWorker /\ w \in DOMAIN client /\ w \in DOMAIN inFlight
           /\ w \in DOMAIN conn /\ w \in DOMAIN op
           /\ Moves(outbox, outbox, w, outbox[w]) /\ Moves(inbox, inbox, w, inbox[w])
           /\ Moves(settled, settled, w, settled[w]) /\ Moves(op, op, w, op[w])
           /\ Moves(toServer, toServer, w, toServer[w]) /\ Moves(toWorker, toWorker, w, toWorker[w])
           /\ Moves(conn, conn, w, conn[w]) /\ Moves(client, client, w, client[w])
           /\ Moves(inFlight, inFlight, w, inFlight[w])
<1>1. /\ w \in DOMAIN outbox /\ w \in DOMAIN inbox /\ w \in DOMAIN settled /\ w \in DOMAIN toServer
      /\ w \in DOMAIN toWorker /\ w \in DOMAIN client /\ w \in DOMAIN inFlight
  BY Zenon DEF AllLinks, LinkFns
<1>2. w \in DOMAIN conn /\ w \in DOMAIN op
  BY Zenon DEF ServiceFns
<1> QED
  BY <1>1, <1>2, MovesOnce, Zenon

(* runSession's end of a connection.                                       *)
LEMMA SessionEnds ==
    ASSUME AllLinks, ServiceFns, NEW w \in Workers, NEW why, why # "on", EndSession(w, why),
           NEW ts, Moves(toServer, toServer', w, ts), Fewer(ts, toServer[w]), toServer[w] = <<>> => ts = <<>>,
           UNCHANGED journal, op' = op, conn' = conn, receipt' = receipt
    PROVE  AllLinks'
<1>1. /\ Moves(client, client', w, why) /\ Moves(inFlight, inFlight', w, <<>>)
      /\ Moves(toWorker, toWorker', w, <<>>)
  BY LinkArguments, MovesOnce, Zenon DEF EndSession
<1>2. outbox' = outbox /\ inbox' = inbox /\ settled' = settled
  BY Zenon DEF journal
<1>3. /\ Moves(outbox, outbox', w, outbox[w]) /\ Moves(inbox, inbox', w, inbox[w])
      /\ Moves(settled, settled', w, settled[w]) /\ Moves(op, op', w, op[w]) /\ Moves(conn, conn', w, conn[w])
  BY <1>2, LinkArguments, Zenon
<1>4. LinkOK(w)
  BY Zenon DEF AllLinks
<1>5. Link(w, outbox[w], inbox[w], settled[w], receipt, op[w], ts, <<>>, conn[w], why, <<>>)
  BY <1>4, LinkEnds, Zenon DEF LinkOK
<1> QED
  BY <1>1, <1>3, <1>5, OneLink, Zenon

(* What a step that leaves the service alone leaves alone.                 *)
LEMMA ServiceSame ==
    ASSUME UNCHANGED vars
    PROVE  op' = op /\ conn' = conn /\ receipt' = receipt
BY Zenon DEF vars, store, memory, links

(* Connect: the oldest event is the first frame, or the client stops.      *)
LEMMA ConnectLinks ==
    ASSUME AllLinks, ServiceFns, NEW w \in Workers, ~conn[w] => op[w].pc = "idle", Connect(w)
    PROVE  AllLinks'
<1>1. LinkOK(w)
  BY Zenon DEF AllLinks
<1>2. /\ JournalOK(w, outbox[w], settled[w], receipt) /\ DOMAIN inbox[w] = Requests
      /\ WireOK(outbox[w], inbox[w], receipt, op[w], toServer[w], toWorker[w])
      /\ SessionOK(op[w], conn[w], client[w], inFlight[w], outbox[w], toServer[w], toWorker[w])
  BY <1>1, Zenon DEF LinkOK, Link
<1>3. CASE OpenWorker(w) /\ client' = [client EXCEPT ![w] = "on"]
           /\ toServer' = [toServer EXCEPT ![w] = EventFrames(outbox[w])]
           /\ inFlight' = [inFlight EXCEPT ![w] = Oldest(outbox[w])] /\ UNCHANGED <<toWorker, journal, drops>>
  <2>1. ~conn[w] /\ conn' = [conn EXCEPT ![w] = TRUE] /\ op' = op /\ receipt' = receipt
    BY <1>3, Zenon DEF OpenWorker, store
  <2>2. outbox' = outbox /\ inbox' = inbox /\ settled' = settled /\ toWorker' = toWorker
    BY <1>3, Zenon DEF journal
  <2>3. /\ Moves(client, client', w, "on") /\ Moves(toServer, toServer', w, EventFrames(outbox[w]))
        /\ Moves(inFlight, inFlight', w, Oldest(outbox[w])) /\ Moves(conn, conn', w, TRUE)
    BY <1>3, <2>1, LinkArguments, MovesOnce, Zenon
  <2>4. /\ Moves(outbox, outbox', w, outbox[w]) /\ Moves(inbox, inbox', w, inbox[w])
        /\ Moves(settled, settled', w, settled[w]) /\ Moves(op, op', w, op[w])
        /\ Moves(toWorker, toWorker', w, toWorker[w])
    BY <2>1, <2>2, LinkArguments, Zenon
  <2>5. toServer[w] = <<>> /\ toWorker[w] = <<>>
    <3>1. client[w] # "on"
      BY Zenon DEF Connect
    <3> QED
      BY <1>2, <2>1, <3>1, Zenon DEF SessionOK
  <2>6. \A type : ~Has(<<>>, type)
    BY <1>2, FewerTrivially, Zenon DEF WireOK
  <2>7. Idle(op[w], toServer[w], toWorker[w])
    BY <2>1, <2>5, <2>6, Zenon DEF Idle, Busy
  <2>8. PICK ts2 : ts2 = EventFrames(outbox[w])
    BY Zenon
  <2>9. ts2 = toServer[w] \o EventFrames(outbox[w])
    <3>1. CASE outbox[w] = <<>>
      <4>1. EventFrames(outbox[w]) = <<>>
        BY <1>2, <3>1, OldestFrames, Zenon DEF JournalOK
      <4> QED
        BY <2>5, <2>8, <4>1
    <3>2. CASE outbox[w] # <<>>
      <4>1. EventFrames(outbox[w]) = <<Frame("event", Head(outbox[w]).r, Head(outbox[w]).event, "none")>>
        BY <1>2, <3>2, OldestFrames, Zenon DEF JournalOK
      <4>2. PICK f : EventFrames(outbox[w]) = <<f>>
        BY <4>1, Zenon
      <4> QED
        BY <2>5, <2>8, <4>2
    <3> QED
      BY <3>1, <3>2, Zenon
  <2>10. ts2 = IF TRUE THEN toServer[w] \o EventFrames(outbox[w]) ELSE toServer[w]
    BY <2>9, Zenon
  <2>11. Link(w, outbox[w], inbox[w], settled[w], receipt, op[w], ts2, toWorker[w], TRUE, "on", Oldest(outbox[w]))
    BY <1>2, <2>7, <2>10, LinkFlushes, Zenon
  <2>12. Moves(toServer, toServer', w, ts2)
    BY <2>3, <2>8, Zenon
  <2> QED
    BY <2>1, <2>3, <2>4, <2>11, <2>12, OneLink, Zenon
<1>4. CASE EndSession(w, "conflict") /\ UNCHANGED <<vars, toServer, journal, drops>>
  <2>1. Moves(toServer, toServer', w, toServer[w]) /\ UNCHANGED journal /\ UNCHANGED vars
    BY <1>4, LinkArguments, Zenon
  <2>2. Fewer(toServer[w], toServer[w])
    BY <1>2, FewerTrivially, Zenon DEF WireOK
  <2>3. "conflict" # "on"
    OBVIOUS
  <2> QED
    BY <1>4, <2>1, <2>2, <2>3, ServiceSame, SessionEnds, Zenon
<1> QED
  BY <1>3, <1>4, Zenon DEF Connect

(* ReceiveClose, ReceiveEOF and Drop: the session ends, the journal stays. *)
LEMMA EndingLinks ==
    ASSUME AllLinks, ServiceFns, NEW w \in Workers, ReceiveClose(w) \/ ReceiveEOF(w) \/ Drop(w)
    PROVE  AllLinks'
<1>1. IsSeq(toServer[w])
  BY Zenon DEF AllLinks, LinkOK, Link, WireOK
<1>2. UNCHANGED vars /\ UNCHANGED journal
  BY Zenon DEF ReceiveClose, ReceiveEOF, Drop
<1>3. PICK why : why # "on" /\ EndSession(w, why)
  BY Zenon DEF ReceiveClose, ReceiveEOF, Drop
<1>4. op' = op /\ conn' = conn /\ receipt' = receipt
  BY <1>2, ServiceSame, Zenon
<1>5. CASE ReceiveClose(w) \/ ReceiveEOF(w)
  <2>1. toServer' = toServer
    BY <1>5, Zenon DEF ReceiveClose, ReceiveEOF
  <2>2. Moves(toServer, toServer', w, toServer[w]) /\ Fewer(toServer[w], toServer[w])
    BY <1>1, <2>1, LinkArguments, FewerTrivially, Zenon
  <2> QED
    BY <1>2, <1>3, <1>4, <2>2, SessionEnds, Zenon
<1>6. CASE Drop(w)
  <2>1. PICK n \in 0..Len(toServer[w]) : toServer' = [toServer EXCEPT ![w] = SubSeq(@, 1, n)]
    BY <1>6, Zenon DEF Drop
  <2>2. PICK ts : ts = SubSeq(toServer[w], 1, n)
    BY Zenon
  <2>3. Moves(toServer, toServer', w, ts)
    BY <2>1, <2>2, LinkArguments, MovesOnce, Zenon
  <2>4. Fewer(ts, toServer[w])
    BY <1>1, <2>2, CutFrames, Zenon
  <2>5. toServer[w] = <<>> => ts = <<>>
    BY <2>1, <2>2
  <2> QED
    BY <1>2, <1>3, <1>4, <2>3, <2>4, <2>5, SessionEnds, Zenon
<1> QED
  BY <1>5, <1>6, Zenon

(* Flush: the wake of a session with nothing in flight.                    *)
LEMMA FlushLinks ==
    ASSUME AllLinks, ServiceFns, NEW w \in Workers, Flush(w)
    PROVE  AllLinks'
<1>1. LinkOK(w)
  BY Zenon DEF AllLinks
<1>2. /\ JournalOK(w, outbox[w], settled[w], receipt) /\ DOMAIN inbox[w] = Requests
      /\ WireOK(outbox[w], inbox[w], receipt, op[w], toServer[w], toWorker[w])
      /\ SessionOK(op[w], conn[w], client[w], inFlight[w], outbox[w], toServer[w], toWorker[w])
  BY <1>1, Zenon DEF LinkOK, Link
<1>3. /\ client[w] = "on" /\ inFlight[w] = <<>> /\ client' = client /\ toWorker' = toWorker /\ outbox' = outbox
      /\ inbox' = inbox /\ settled' = settled /\ inFlight' = [inFlight EXCEPT ![w] = Oldest(outbox[w])]
  BY Zenon DEF Flush, journal
<1>4. op' = op /\ conn' = conn /\ receipt' = receipt
  BY ServiceSame, Zenon DEF Flush
<1>5. PICK ts : ts = IF conn[w] THEN toServer[w] \o EventFrames(outbox[w]) ELSE toServer[w]
  BY Zenon
<1>6. toServer' = [toServer EXCEPT ![w] = ts]
  BY <1>5, Zenon DEF Flush, SendToServer
<1>7. Moves(toServer, toServer', w, ts) /\ Moves(inFlight, inFlight', w, Oldest(outbox[w]))
  BY <1>3, <1>6, LinkArguments, MovesOnce, Zenon
<1>8. /\ Moves(outbox, outbox', w, outbox[w]) /\ Moves(inbox, inbox', w, inbox[w])
      /\ Moves(settled, settled', w, settled[w]) /\ Moves(op, op', w, op[w])
      /\ Moves(toWorker, toWorker', w, toWorker[w]) /\ Moves(conn, conn', w, conn[w])
      /\ Moves(client, client', w, "on")
  BY <1>3, <1>4, LinkArguments, Zenon
<1>9. Idle(op[w], toServer[w], toWorker[w]) /\ (~conn[w] => toServer[w] = <<>>)
  BY <1>2, <1>3, Zenon DEF SessionOK
<1>10. Link(w, outbox[w], inbox[w], settled[w], receipt, op[w], ts, toWorker[w], conn[w], "on", Oldest(outbox[w]))
  BY <1>2, <1>5, <1>9, LinkFlushes, Zenon
<1> QED
  BY <1>4, <1>7, <1>8, <1>10, OneLink, Zenon

(* ReceiveReceipt: the event in flight is settled.                         *)
LEMMA ReceiptLinks ==
    ASSUME AllLinks, ServiceFns, NEW w \in Workers, ReceiveReceipt(w)
    PROVE  AllLinks'
<1>1. Link(w, outbox[w], inbox[w], settled[w], receipt, op[w], toServer[w], toWorker[w], conn[w], client[w],
           inFlight[w])
  BY Zenon DEF AllLinks, LinkOK
<1>2. PICK g : g = Head(toWorker[w])
  BY Zenon
<1>3. /\ client[w] = "on" /\ toWorker[w] # <<>> /\ g.type = "receipt" /\ inFlight[w] # <<>> /\ client' = client
      /\ toWorker' = [toWorker EXCEPT ![w] = Tail(@)] /\ inFlight' = [inFlight EXCEPT ![w] = Oldest(outbox'[w])]
  BY <1>2, Zenon DEF ReceiveReceipt
<1>4. op' = op /\ conn' = conn /\ receipt' = receipt
  BY ServiceSame, Zenon DEF ReceiveReceipt
<1>5. PICK x : x = Head(inFlight[w])
  BY Zenon
<1>6. SettleEvent(w, x, g.decision)
  BY <1>2, <1>5, Zenon DEF ReceiveReceipt
<1>7. PICK i \in DOMAIN outbox[w] :
        /\ outbox[w][i] = x
        /\ outbox' = [outbox EXCEPT ![w] = SubSeq(@, 1, i - 1) \o SubSeq(@, i + 1, Len(@))]
  BY <1>6, Zenon DEF SettleEvent
<1>8. PICK new : new = Tail(outbox[w])
  BY Zenon
<1>9. PICK more : more = settled[w] \cup {[entry |-> x, decision |-> g.decision]}
  BY Zenon
<1>10. outbox' = [outbox EXCEPT ![w] = new]
  <2>1. /\ JournalOK(w, outbox[w], settled[w], receipt) /\ outbox[w] # <<>>
        /\ inFlight[w] = <<Head(outbox[w])>>
    BY <1>1, <1>3, Zenon DEF Link, SessionOK
  <2>2. outbox[w][i] = Head(outbox[w])
    BY <1>5, <1>7, <2>1
  <2>3. SubSeq(outbox[w], 1, i - 1) \o SubSeq(outbox[w], i + 1, Len(outbox[w])) = Tail(outbox[w])
    BY <2>1, <2>2, SettlesFirst, Zenon
  <2> QED
    BY <1>7, <1>8, <2>3, Zenon
<1>11. settled' = [settled EXCEPT ![w] = more] /\ inbox' = inbox
  BY <1>6, <1>9, Zenon DEF SettleEvent
<1>12. Moves(outbox, outbox', w, new) /\ Moves(settled, settled', w, more)
       /\ Moves(toWorker, toWorker', w, Tail(toWorker[w]))
  BY <1>3, <1>10, <1>11, LinkArguments, MovesOnce, Zenon
<1>13. outbox'[w] = new
  BY <1>12, Zenon DEF Moves
<1>14. inFlight' = [inFlight EXCEPT ![w] = Oldest(new)]
  BY <1>3, <1>13, Zenon
<1>15. PICK ts : ts = IF conn[w] THEN toServer[w] \o EventFrames(new) ELSE toServer[w]
  BY Zenon
<1>16. toServer' = [toServer EXCEPT ![w] = ts]
  BY <1>13, <1>15, Zenon DEF ReceiveReceipt, SendToServer
<1>17. Moves(toServer, toServer', w, ts) /\ Moves(inFlight, inFlight', w, Oldest(new))
  BY <1>14, <1>16, LinkArguments, MovesOnce, Zenon
<1>18. /\ Moves(inbox, inbox', w, inbox[w]) /\ Moves(op, op', w, op[w]) /\ Moves(conn, conn', w, conn[w])
       /\ Moves(client, client', w, "on")
  BY <1>3, <1>4, <1>11, LinkArguments, Zenon
<1>19. Link(w, Tail(outbox[w]), inbox[w],
            settled[w] \cup {[entry |-> Head(inFlight[w]), decision |-> Head(toWorker[w]).decision]}, receipt, op[w],
            ts, Tail(toWorker[w]), conn[w], "on", Oldest(Tail(outbox[w])))
  BY <1>1, <1>2, <1>3, <1>8, <1>15, LinkSettles, Zenon
<1>20. Link(w, new, inbox[w], more, receipt, op[w], ts, Tail(toWorker[w]), conn[w], "on", Oldest(new))
  BY <1>2, <1>5, <1>8, <1>9, <1>19, Zenon
<1> QED
  BY <1>4, <1>12, <1>17, <1>18, <1>20, OneLink, Zenon

(* ReceiveAssignment: stored and acknowledged, or no room.                 *)
LEMMA AssignmentLinks ==
    ASSUME AllLinks, ServiceFns, NEW w \in Workers, ReceiveAssignment(w)
    PROVE  AllLinks'
<1>1. Link(w, outbox[w], inbox[w], settled[w], receipt, op[w], toServer[w], toWorker[w], conn[w], client[w],
           inFlight[w])
  BY Zenon DEF AllLinks, LinkOK
<1>2. PICK r : r = Head(toWorker[w]).r
  BY Zenon
<1>3. op' = op /\ conn' = conn /\ receipt' = receipt
  BY ServiceSame, Zenon DEF ReceiveAssignment
<1>4. IsSeq(toWorker[w]) /\ IsSeq(toServer[w]) /\ DOMAIN inbox[w] = Requests
  BY <1>1, Zenon DEF Link, WireOK
<1>5. toWorker[w] # <<>> /\ Head(toWorker[w]).type = "assignment"
  BY Zenon DEF ReceiveAssignment
<1>6. r \in Requests
  <2>1. PICK i \in 1..Len(toWorker[w]) : Head(toWorker[w]) = toWorker[w][i]
    BY <1>4, <1>5, TakeFrame, Zenon
  <2>2. ToWorkerOK(outbox[w], receipt, Head(toWorker[w]))
    BY <1>1, <2>1, Zenon DEF Link, WireOK
  <2> QED
    BY <1>2, <1>5, <2>2, Zenon DEF ToWorkerOK
<1>7. CASE /\ inbox' = [inbox EXCEPT ![w][r] = IF @ = "none" THEN "pending" ELSE @]
           /\ toWorker' = [toWorker EXCEPT ![w] = Tail(@)]
           /\ SendToServer(w, <<Frame("ack", r, None, "none")>>)
           /\ UNCHANGED <<outbox, settled, rejected, client, inFlight>>
  <2>1. PICK inb : inb = [inbox[w] EXCEPT ![r] = IF @ = "none" THEN "pending" ELSE @]
    BY Zenon
  <2>2. inbox' = [inbox EXCEPT ![w] = inb]
    BY <1>7, <2>1, Zenon
  <2>3. DOMAIN inb = Requests /\ inb[r] # "none" /\ \A q \in Requests : inbox[w][q] # "none" => inb[q] # "none"
    <3>1. DOMAIN inb = Requests /\ \A q \in Requests : inb[q] = IF q = r THEN (IF inbox[w][r] = "none" THEN "pending" ELSE inbox[w][r]) ELSE inbox[w][q]
      BY <1>4, <2>1, Zenon
    <3>2. "pending" # "none"
      OBVIOUS
    <3> QED
      BY <1>6, <3>1, <3>2, Zenon
  <2>4. PICK ts : ts = IF conn[w] THEN toServer[w] \o <<Frame("ack", r, None, "none")>> ELSE toServer[w]
    BY Zenon
  <2>5. toServer' = [toServer EXCEPT ![w] = ts]
    BY <1>7, <2>4, Zenon DEF SendToServer
  <2>6. PICK tail : tail = Tail(toWorker[w])
    BY Zenon
  <2>7. /\ Moves(inbox, inbox', w, inb) /\ Moves(toServer, toServer', w, ts)
        /\ Moves(toWorker, toWorker', w, tail)
    <3>1. toWorker' = [toWorker EXCEPT ![w] = tail]
      BY <1>7, <2>6, Zenon
    <3>2. w \in DOMAIN inbox /\ w \in DOMAIN toServer /\ w \in DOMAIN toWorker
      BY LinkArguments, Zenon
    <3> QED
      BY <2>2, <2>5, <3>1, <3>2, MovesOnce, Zenon
  <2>8. /\ Moves(outbox, outbox', w, outbox[w]) /\ Moves(settled, settled', w, settled[w])
        /\ Moves(op, op', w, op[w]) /\ Moves(conn, conn', w, conn[w]) /\ Moves(client, client', w, client[w])
        /\ Moves(inFlight, inFlight', w, inFlight[w])
    <3>1. outbox' = outbox /\ settled' = settled /\ client' = client /\ inFlight' = inFlight
      BY <1>7, Zenon
    <3> QED
      BY <1>3, <3>1, LinkArguments, Zenon
  <2>9. Link(w, outbox[w], inb, settled[w], receipt, op[w], ts, toWorker[w], conn[w], client[w], inFlight[w])
    BY <1>1, <1>6, <2>3, <2>4, LinkStores, ZenonT(40)
  <2>10. Fewer(tail, toWorker[w]) /\ IsSeq(ts) /\ (~conn[w] => ts = <<>>)
    BY <1>4, <1>5, <2>6, <2>9, TakeFrame, Zenon DEF Link, WireOK, SessionOK
  <2>11. Fewer(ts, ts)
    BY <2>10, FewerTrivially, Zenon
  <2>12. Link(w, outbox[w], inb, settled[w], receipt, op[w], ts, tail, conn[w], client[w], inFlight[w])
    BY <1>5, <2>9, <2>10, <2>11, LinkSlides, Zenon
  <2> QED
    BY <1>3, <2>7, <2>8, <2>12, OneLink, Zenon
<1>8. CASE EndSession(w, "off") /\ UNCHANGED <<journal, toServer>>
  <2>1. Moves(toServer, toServer', w, toServer[w]) /\ UNCHANGED journal
    BY <1>8, LinkArguments, Zenon
  <2>2. Fewer(toServer[w], toServer[w])
    BY <1>4, FewerTrivially, Zenon
  <2>3. "off" # "on"
    OBVIOUS
  <2> QED
    BY <1>3, <1>8, <2>1, <2>2, <2>3, SessionEnds, Zenon
<1> QED
  BY <1>2, <1>7, <1>8, Zenon DEF ReceiveAssignment

(* SendEvent, ConfirmAssignment and ConfirmRejection: the application's    *)
(* use of its journal.                                                     *)
LEMMA HumanLinks ==
    ASSUME AllLinks, ServiceFns, NEW w \in Workers, HumanStep(w)
    PROVE  AllLinks'
<1>1. Link(w, outbox[w], inbox[w], settled[w], receipt, op[w], toServer[w], toWorker[w], conn[w], client[w],
           inFlight[w])
  BY Zenon DEF AllLinks, LinkOK
<1>2. UNCHANGED vars /\ UNCHANGED wire /\ settled' = settled
  BY Zenon DEF HumanStep, ConfirmAssignment, SendEvent, ConfirmRejection
<1>3. op' = op /\ conn' = conn /\ receipt' = receipt
  BY <1>2, ServiceSame, Zenon
<1>4. /\ Moves(settled, settled', w, settled[w]) /\ Moves(op, op', w, op[w]) /\ Moves(conn, conn', w, conn[w])
      /\ Moves(client, client', w, client[w]) /\ Moves(inFlight, inFlight', w, inFlight[w])
      /\ Moves(toServer, toServer', w, toServer[w]) /\ Moves(toWorker, toWorker', w, toWorker[w])
  BY <1>2, <1>3, LinkArguments, Zenon DEF wire
<1>5. ASSUME NEW r \in Requests, ConfirmAssignment(w, r) PROVE AllLinks'
  <2>1. PICK inb : inb = [inbox[w] EXCEPT ![r] = "settled"]
    BY Zenon
  <2>2. inbox' = [inbox EXCEPT ![w] = inb] /\ outbox' = outbox
    BY <1>5, <2>1, Zenon DEF ConfirmAssignment
  <2>3. DOMAIN inbox[w] = Requests
    BY <1>1, Zenon DEF Link
  <2>4. "settled" # "none"
    OBVIOUS
  <2>5. DOMAIN inb = Requests /\ inb[r] # "none" /\ \A q \in Requests : inbox[w][q] # "none" => inb[q] # "none"
    BY <2>1, <2>3, <2>4, Zenon
  <2>6. Moves(inbox, inbox', w, inb) /\ Moves(outbox, outbox', w, outbox[w])
    BY <2>2, LinkArguments, MovesOnce, Zenon
  <2>7. PICK ts : ts = IF conn[w] THEN toServer[w] \o <<Frame("ack", r, None, "none")>> ELSE toServer[w]
    BY Zenon
  <2>8. Link(w, outbox[w], inb, settled[w], receipt, op[w], toServer[w], toWorker[w], conn[w], client[w], inFlight[w])
    BY <1>1, <2>5, <2>7, LinkStores, Zenon
  <2> QED
    BY <1>3, <1>4, <2>6, <2>8, OneLink, Zenon
<1>6. ASSUME NEW r \in Requests, NEW event \in WorkerEvents, SendEvent(w, r, event) PROVE AllLinks'
  <2>1. PICK x : x = Entry(r, event)
    BY Zenon
  <2>2. x.event = event /\ x.event.worker = w /\ x \in [r: Requests, event: WorkerEvents]
    BY <1>6, <2>1, Zenon DEF Entry, SendEvent
  <2>3. x \in Entries(w)
    BY <2>2, Zenon DEF Entries
  <2>4. /\ \A i \in DOMAIN outbox[w] : outbox[w][i].event.id # x.event.id
        /\ \A done \in settled[w] : done.entry.event.id # x.event.id
    BY <1>6, <2>2, Zenon DEF SendEvent
  <2>5. Link(w, Append(outbox[w], x), inbox[w], settled[w], receipt, op[w], toServer[w], toWorker[w], conn[w],
             client[w], inFlight[w])
    BY <1>1, <2>3, <2>4, LinkAnswers, Zenon
  <2>6. outbox' = [outbox EXCEPT ![w] = Append(@, x)] /\ inbox' = inbox
    BY <1>6, <2>1, Zenon DEF SendEvent
  <2>7. Moves(inbox, inbox', w, inbox[w]) /\ Moves(outbox, outbox', w, Append(outbox[w], x))
    BY <2>6, LinkArguments, MovesOnce, Zenon
  <2> QED
    BY <1>3, <1>4, <2>5, <2>7, OneLink, Zenon
<1>7. ASSUME NEW entry, ConfirmRejection(w, entry) PROVE AllLinks'
  <2>1. Moves(inbox, inbox', w, inbox[w]) /\ Moves(outbox, outbox', w, outbox[w])
    BY <1>7, LinkArguments, Zenon DEF ConfirmRejection
  <2> QED
    BY <1>1, <1>3, <1>4, <2>1, OneLink, Zenon
<1> QED
  BY <1>5, <1>6, <1>7, Zenon DEF HumanStep

(* A frame reaches a client that is still there.                           *)
LEMMA LinkSent ==
    ASSUME NEW w, NEW out, NEW inb, NEW ends, NEW rec, NEW y, NEW ts, NEW tw, NEW on, NEW cl, NEW fl,
           Link(w, out, inb, ends, rec, y, ts, tw, on, cl, fl), NEW f, ToWorkerOK(out, rec, f),
           f.type = "receipt" => Idle(y, ts, tw) /\ (cl = "on" => fl # <<>>)
    PROVE  Link(w, out, inb, ends, rec, y, ts, IF cl = "on" THEN tw \o <<f>> ELSE tw, on, cl, fl)
<1>1. CASE cl = "on"
  <2>1. PICK tw2 : tw2 = tw \o <<f>>
    BY Zenon
  <2>2. f.type = "receipt" => Idle(y, ts, tw) /\ fl # <<>>
    BY <1>1, Zenon
  <2>3. Link(w, out, inb, ends, rec, y, ts, tw2, on, cl, fl)
    BY <1>1, <2>1, <2>2, LinkSends, Zenon
  <2> QED
    BY <1>1, <2>1, <2>3, Zenon
<1>2. CASE cl # "on"
  BY <1>2, Zenon
<1> QED
  BY <1>1, <1>2, Zenon

(* TransportDispatch: an assignment is sent.                               *)
LEMMA DispatchLinks ==
    ASSUME AllLinks, ServiceFns, NEW w \in Workers, NEW r \in Requests, TransportDispatch(w, r)
    PROVE  AllLinks'
<1>1. Link(w, outbox[w], inbox[w], settled[w], receipt, op[w], toServer[w], toWorker[w], conn[w], client[w],
           inFlight[w])
  BY Zenon DEF AllLinks, LinkOK
<1>2. PICK f : f = Frame("assignment", r, None, "none")
  BY Zenon
<1>3. f.type = "assignment" /\ f.r = r
  BY <1>2, Zenon DEF Frame
<1>4. f.type # "receipt" /\ ToWorkerOK(outbox[w], receipt, f)
  BY <1>3, Zenon DEF ToWorkerOK
<1>5. PICK tw : tw = IF client[w] = "on" THEN toWorker[w] \o <<f>> ELSE toWorker[w]
  BY Zenon
<1>6. Link(w, outbox[w], inbox[w], settled[w], receipt, op[w], toServer[w], tw, conn[w], client[w], inFlight[w])
  BY <1>1, <1>4, <1>5, LinkSent, Zenon
<1>7. toWorker' = [toWorker EXCEPT ![w] = tw]
  BY <1>2, <1>5, Zenon DEF TransportDispatch, SendToWorker
<1>8. op' = op /\ conn' = conn /\ receipt' = receipt
  BY Zenon DEF TransportDispatch, Dispatch, store
<1>9. /\ outbox' = outbox /\ inbox' = inbox /\ settled' = settled /\ client' = client /\ inFlight' = inFlight
      /\ toServer' = toServer
  BY Zenon DEF TransportDispatch, journal
<1>10. Moves(toWorker, toWorker', w, tw)
  BY <1>7, LinkArguments, MovesOnce, Zenon
<1>11. /\ Moves(outbox, outbox', w, outbox[w]) /\ Moves(inbox, inbox', w, inbox[w])
       /\ Moves(settled, settled', w, settled[w]) /\ Moves(op, op', w, op[w])
       /\ Moves(toServer, toServer', w, toServer[w]) /\ Moves(conn, conn', w, conn[w])
       /\ Moves(client, client', w, client[w]) /\ Moves(inFlight, inFlight', w, inFlight[w])
  BY <1>8, <1>9, LinkArguments, Zenon
<1> QED
  BY <1>6, <1>8, <1>10, <1>11, OneLink, Zenon

(* A call of the service begins.                                           *)
Begins(w, r, event) == \E z : op' = [op EXCEPT ![w] = z] /\ z.r = r /\ z.event = event

(* AckAssignment begins a call of the service.                             *)
LEMMA AckBegins ==
    ASSUME NEW w, NEW r, AckAssignment(w, r)
    PROVE  conn[w] /\ conn' = conn /\ receipt' = receipt /\ Begins(w, r, None)
<1> DEFINE A(pc, result) == [NoOp EXCEPT !.pc = pc, !.r = r, !.result = result]
<1>1. \A pc, result : A(pc, result).r = r /\ A(pc, result).event = None
  BY Zenon DEF NoOp
<1>2. conn[w] /\ conn' = conn /\ receipt' = receipt
  BY Zenon DEF AckAssignment, memory, store, AckTxn
<1>3. \E pc, result : op' = [op EXCEPT ![w] = A(pc, result)]
  BY Zenon DEF AckAssignment
<1> HIDE DEF A
<1>4. PICK pc, result : op' = [op EXCEPT ![w] = A(pc, result)]
  BY <1>3, Zenon
<1>5. PICK z : z = A(pc, result)
  BY Zenon
<1>6. op' = [op EXCEPT ![w] = z] /\ z.r = r /\ z.event = None
  BY <1>1, <1>4, <1>5, Zenon
<1> QED
  BY <1>2, <1>6, Zenon DEF Begins

(* CommitEvent begins a call of the service.                               *)
LEMMA CommitBegins ==
    ASSUME NEW w, NEW r, NEW event, CommitEvent(w, r, event)
    PROVE  conn[w] /\ conn' = conn /\ receipt' = receipt /\ Begins(w, r, event)
<1> DEFINE Z(pc, result) == [NoOp EXCEPT !.pc = pc, !.r = r, !.event = event, !.result = result]
<1>1. \A pc, result : Z(pc, result).r = r /\ Z(pc, result).event = event
  BY Zenon DEF NoOp
<1>2. conn[w] /\ conn' = conn /\ receipt' = receipt
  BY Zenon DEF CommitEvent, CommitBegin, memory, store
<1>3. \E pc, result : op' = [op EXCEPT ![w] = Z(pc, result)]
  BY Zenon DEF CommitEvent, CommitBegin
<1> HIDE DEF Z
<1>4. PICK pc, result : op' = [op EXCEPT ![w] = Z(pc, result)]
  BY <1>3, Zenon
<1>5. PICK z : z = Z(pc, result)
  BY Zenon
<1>6. op' = [op EXCEPT ![w] = z] /\ z.r = r /\ z.event = event
  BY <1>1, <1>4, <1>5, Zenon
<1> QED
  BY <1>2, <1>6, Zenon DEF Begins

(* TransportRead: a frame becomes a call of the service.                   *)
LEMMA ReadLinks ==
    ASSUME AllLinks, ServiceFns, NEW w \in Workers, TransportRead(w)
    PROVE  AllLinks'
<1>1. Link(w, outbox[w], inbox[w], settled[w], receipt, op[w], toServer[w], toWorker[w], conn[w], client[w],
           inFlight[w])
  BY Zenon DEF AllLinks, LinkOK
<1>2. PICK f : f = Head(toServer[w])
  BY Zenon
<1>3. PICK tail : tail = Tail(toServer[w])
  BY Zenon
<1>4. /\ toServer[w] # <<>> /\ toServer' = [toServer EXCEPT ![w] = tail]
      /\ outbox' = outbox /\ inbox' = inbox /\ settled' = settled /\ client' = client /\ inFlight' = inFlight
      /\ toWorker' = toWorker
  BY <1>3, Zenon DEF TransportRead, journal
<1>5. IsSeq(toServer[w]) /\ IsSeq(toWorker[w])
  BY <1>1, Zenon DEF Link, WireOK
<1>6. Fewer(tail, toServer[w]) /\ Fewer(toWorker[w], toWorker[w])
  BY <1>3, <1>4, <1>5, TakeFrame, FewerTrivially, Zenon
<1>7. ASSUME NEW z, conn[w], conn' = conn, receipt' = receipt, op' = [op EXCEPT ![w] = z],
             Link(w, outbox[w], inbox[w], settled[w], receipt, z, tail, toWorker[w], conn[w], client[w], inFlight[w])
      PROVE  AllLinks'
  <2>1. Moves(toServer, toServer', w, tail) /\ Moves(op, op', w, z)
    BY <1>4, <1>7, LinkArguments, MovesOnce, Zenon
  <2>2. /\ Moves(outbox, outbox', w, outbox[w]) /\ Moves(inbox, inbox', w, inbox[w])
        /\ Moves(settled, settled', w, settled[w]) /\ Moves(toWorker, toWorker', w, toWorker[w])
        /\ Moves(conn, conn', w, conn[w]) /\ Moves(client, client', w, client[w])
        /\ Moves(inFlight, inFlight', w, inFlight[w])
    BY <1>4, <1>7, LinkArguments, Zenon
  <2> QED
    BY <1>7, <2>1, <2>2, OneLink, Zenon
<1>8. CASE f.type = "ack" /\ AckAssignment(w, f.r)
  <2>1. conn[w] /\ conn' = conn /\ receipt' = receipt
    BY <1>8, AckBegins, Zenon
  <2>2. PICK z : op' = [op EXCEPT ![w] = z] /\ z.event = None
    BY <1>8, AckBegins, Zenon DEF Begins
  <2>3. ~Busy(z)
    BY <2>2, Zenon DEF Busy
  <2>4. Link(w, outbox[w], inbox[w], settled[w], receipt, z, tail, toWorker[w], conn[w], client[w], inFlight[w])
    <3>1. (~conn[w] => tail = <<>>) /\ (Busy(z) => Busy(op[w]) /\ z.r = op[w].r /\ z.event = op[w].event)
      BY <2>1, <2>3, Zenon
    <3> QED
      BY <1>1, <1>6, <3>1, LinkSlides, ZenonT(30)
  <2> QED
    BY <1>7, <2>1, <2>2, <2>4, Zenon
<1>9. CASE f.type = "event" /\ CommitEvent(w, f.r, f.event)
  <2>1. conn[w] /\ conn' = conn /\ receipt' = receipt
    BY <1>9, CommitBegins, Zenon
  <2>2. PICK z : op' = [op EXCEPT ![w] = z] /\ z.r = f.r /\ z.event = f.event
    <3>1. Begins(w, f.r, f.event)
      BY <1>9, CommitBegins, Zenon
    <3> QED
      BY <3>1, Zenon DEF Begins
  <2>3. Link(w, outbox[w], inbox[w], settled[w], receipt, z, Tail(toServer[w]), toWorker[w], conn[w], client[w],
             inFlight[w])
    BY <1>1, <1>2, <1>4, <1>9, <2>1, <2>2, LinkCalls, Zenon
  <2>4. Link(w, outbox[w], inbox[w], settled[w], receipt, z, tail, toWorker[w], conn[w], client[w], inFlight[w])
    BY <1>3, <2>3, Zenon
  <2> QED
    BY <1>7, <2>1, <2>2, <2>4, Zenon
<1> QED
  BY <1>2, <1>8, <1>9, Zenon DEF TransportRead

(* A call that is over is at work on nothing.                              *)
LEMMA NoOpIdle ==
    NoOp.pc = "idle" /\ NoOp.event = None /\ ~Busy(NoOp)
BY Zenon DEF NoOp, Busy

(* What the transport's replies change of a link.                          *)
LEMMA ReplyLinks ==
    ASSUME AllLinks, ServiceFns, NEW w \in Workers, receipt' = receipt, op' = [op EXCEPT ![w] = NoOp],
           UNCHANGED <<journal, client, inFlight>>,
           NEW ts, NEW tw, NEW on, Moves(toServer, toServer', w, ts), Moves(toWorker, toWorker', w, tw),
           Moves(conn, conn', w, on),
           Link(w, outbox[w], inbox[w], settled[w], receipt, NoOp, ts, tw, on, client[w], inFlight[w])
    PROVE  AllLinks'
<1>1. outbox' = outbox /\ inbox' = inbox /\ settled' = settled /\ client' = client /\ inFlight' = inFlight
  BY Zenon DEF journal
<1>2. /\ Moves(outbox, outbox', w, outbox[w]) /\ Moves(inbox, inbox', w, inbox[w])
      /\ Moves(settled, settled', w, settled[w]) /\ Moves(client, client', w, client[w])
      /\ Moves(inFlight, inFlight', w, inFlight[w])
  BY <1>1, LinkArguments, Zenon
<1>3. Moves(op, op', w, NoOp)
  BY LinkArguments, MovesOnce, Zenon
<1> QED
  BY <1>2, <1>3, OneLink, Zenon

(* An answered event: its receipt is the truth (commitWorkerEvent).        *)
LEMMA AnsweredLinks ==
    ASSUME AllLinks, ServiceFns, NEW w \in Workers, OpOK(w, op[w]), op[w].result # "failed", OpReturn(w),
           SendToWorker(w, IF op[w].event = None THEN <<>>
                           ELSE <<Frame("receipt", op[w].r, op[w].event, op[w].result)>>),
           UNCHANGED <<journal, client, inFlight, toServer, drops>>
    PROVE  AllLinks'
<1>1. Link(w, outbox[w], inbox[w], settled[w], receipt, op[w], toServer[w], toWorker[w], conn[w], client[w],
           inFlight[w])
  BY Zenon DEF AllLinks, LinkOK
<1>2. /\ receipt' = receipt /\ conn' = conn /\ toServer' = toServer /\ op' = [op EXCEPT ![w] = NoOp]
      /\ op[w].pc = "done"
  BY Zenon DEF OpReturn, OpAt, store, memory
<1>3. IsSeq(toWorker[w]) /\ IsSeq(toServer[w]) /\ (~conn[w] => toServer[w] = <<>>)
  BY <1>1, Zenon DEF Link, WireOK, SessionOK
<1>4. Fewer(toWorker[w], toWorker[w]) /\ Fewer(toServer[w], toServer[w])
  BY <1>3, FewerTrivially, Zenon
<1>5. Link(w, outbox[w], inbox[w], settled[w], receipt, NoOp, toServer[w], toWorker[w], conn[w], client[w],
           inFlight[w])
  BY <1>1, <1>3, <1>4, NoOpIdle, LinkSlides, ZenonT(30)
<1>6. Moves(toServer, toServer', w, toServer[w]) /\ Moves(conn, conn', w, conn[w])
  BY <1>2, LinkArguments, Zenon
<1>7. CASE op[w].event = None
  <2>1. toWorker[w] \o <<>> = toWorker[w]
    BY <1>3, AddNothing, Zenon
  <2>2. toWorker' = [toWorker EXCEPT ![w] = toWorker[w]]
    BY <1>7, <2>1, Zenon DEF SendToWorker
  <2>3. Moves(toWorker, toWorker', w, toWorker[w])
    BY <2>2, LinkArguments, MovesOnce, Zenon
  <2> QED
    BY <1>2, <1>5, <1>6, <2>3, ReplyLinks, Zenon
<1>8. CASE op[w].event # None
  <2>1. PICK f : f = Frame("receipt", op[w].r, op[w].event, op[w].result)
    BY Zenon
  <2>2. f.type = "receipt" /\ f.r = op[w].r /\ f.event = op[w].event /\ f.decision = op[w].result
    BY <2>1, Zenon DEF Frame
  <2>3. Busy(op[w])
    BY <1>2, <1>8, Zenon DEF Busy
  <2>4. First(outbox[w], f.r, f.event) /\ ~Has(toServer[w], "event") /\ ~Has(toWorker[w], "receipt")
    BY <1>1, <2>2, <2>3, Zenon DEF Link, WireOK
  <2>5. Idle(NoOp, toServer[w], toWorker[w])
    BY <2>4, NoOpIdle, Zenon DEF Idle
  <2>6. client[w] = "on" => inFlight[w] # <<>>
    BY <1>1, <2>3, Zenon DEF Link, SessionOK, Idle
  <2>7. op[w].result = "acked" <=> op[w].event \in receipt[op[w].r]
    <3>1. CASE op[w].result = "acked"
      BY <1>2, <1>8, <3>1, Zenon DEF OpOK, Applied
    <3>2. CASE op[w].result # "acked"
      <4>1. w # Expiry
        BY ExpiryAssumption, Zenon
      <4>2. Refused(op[w])
        BY <1>2, <3>2, Zenon DEF Refused
      <4> QED
        BY <1>8, <3>2, <4>1, <4>2, Zenon DEF OpOK
    <3> QED
      BY <3>1, <3>2, Zenon
  <2>8. ToWorkerOK(outbox[w], receipt, f)
    <3>1. Truth(receipt, f.r, f.event, f.decision)
      BY <2>2, <2>7, Zenon DEF Truth
    <3>2. f.type # "assignment"
      BY <2>2
    <3> QED
      BY <2>4, <3>1, <3>2, Zenon DEF ToWorkerOK
  <2>9. PICK tw : tw = IF client[w] = "on" THEN toWorker[w] \o <<f>> ELSE toWorker[w]
    BY Zenon
  <2>10. Link(w, outbox[w], inbox[w], settled[w], receipt, NoOp, toServer[w], tw, conn[w], client[w], inFlight[w])
    BY <1>5, <2>5, <2>6, <2>8, <2>9, LinkSent, Zenon
  <2>11. toWorker' = [toWorker EXCEPT ![w] = tw]
    BY <1>8, <2>1, <2>9, Zenon DEF SendToWorker
  <2>12. Moves(toWorker, toWorker', w, tw)
    BY <2>11, LinkArguments, MovesOnce, Zenon
  <2> QED
    BY <1>2, <1>6, <2>10, <2>12, ReplyLinks, Zenon
<1> QED
  BY <1>7, <1>8, Zenon

(* Hangup: the service's end is closed, with or without a close frame.     *)
LEMMA HangupLinks ==
    ASSUME AllLinks, ServiceFns, NEW w \in Workers, op' = [op EXCEPT ![w] = NoOp] \/ (op' = op /\ op[w].pc = "idle"),
           NEW r, NEW reason, Hangup(w, <<Frame("close", r, None, reason)>>) \/ (client[w] # "on" /\ Hangup(w, <<>>))
    PROVE  AllLinks'
<1>1. Link(w, outbox[w], inbox[w], settled[w], receipt, op[w], toServer[w], toWorker[w], conn[w], client[w],
           inFlight[w])
  BY Zenon DEF AllLinks, LinkOK
<1>2. PICK z : Moves(op, op', w, z) /\ ~Busy(z)
  <2>1. CASE op' = [op EXCEPT ![w] = NoOp]
    <3>1. Moves(op, op', w, NoOp)
      BY <2>1, LinkArguments, MovesOnce, Zenon
    <3> QED
      BY <3>1, NoOpIdle, Zenon
  <2>2. CASE op' = op /\ op[w].pc = "idle"
    <3>1. Moves(op, op', w, op[w]) /\ ~Busy(op[w])
      BY <2>2, LinkArguments, Zenon DEF Busy
    <3> QED
      BY <3>1, Zenon
  <2> QED
    BY <2>1, <2>2, Zenon
<1>3. /\ receipt' = receipt /\ conn' = [conn EXCEPT ![w] = FALSE] /\ toServer' = [toServer EXCEPT ![w] = <<>>]
      /\ outbox' = outbox /\ inbox' = inbox /\ settled' = settled /\ client' = client /\ inFlight' = inFlight
  BY Zenon DEF Hangup, store, journal
<1>4. IsSeq(toWorker[w]) /\ IsSeq(toServer[w])
  BY <1>1, Zenon DEF Link, WireOK
<1>5. Fewer(toWorker[w], toWorker[w]) /\ Fewer(<<>>, toServer[w])
  BY <1>4, FewerTrivially, Zenon
<1>6. Link(w, outbox[w], inbox[w], settled[w], receipt, z, <<>>, toWorker[w], FALSE, client[w], inFlight[w])
  BY <1>1, <1>2, <1>5, LinkSlides, ZenonT(30)
<1>7. PICK f : f = Frame("close", r, None, reason)
  BY Zenon
<1>8. f.type # "receipt" /\ f.type # "assignment"
  BY <1>7 DEF Frame
<1>9. PICK tw : tw = IF client[w] = "on" THEN toWorker[w] \o <<f>> ELSE toWorker[w]
  BY Zenon
<1>10. ToWorkerOK(outbox[w], receipt, f)
  BY <1>8, Zenon DEF ToWorkerOK
<1>11. Link(w, outbox[w], inbox[w], settled[w], receipt, z, <<>>, tw, FALSE, client[w], inFlight[w])
  BY <1>6, <1>8, <1>9, <1>10, LinkSent, Zenon
<1>12. toWorker' = [toWorker EXCEPT ![w] = tw]
  BY <1>7, <1>9, Zenon DEF Hangup, SendToWorker
<1>13. /\ Moves(toWorker, toWorker', w, tw) /\ Moves(toServer, toServer', w, <<>>) /\ Moves(conn, conn', w, FALSE)
  BY <1>3, <1>12, LinkArguments, MovesOnce, Zenon
<1>14. /\ Moves(outbox, outbox', w, outbox[w]) /\ Moves(inbox, inbox', w, inbox[w])
       /\ Moves(settled, settled', w, settled[w]) /\ Moves(client, client', w, client[w])
       /\ Moves(inFlight, inFlight', w, inFlight[w])
  BY <1>3, LinkArguments, Zenon
<1> QED
  BY <1>2, <1>3, <1>11, <1>13, <1>14, OneLink, Zenon

(* LinkCrash: the service's memory is gone, the journals are not.          *)
LEMMA CrashLinks ==
    ASSUME AllLinks, ServiceFns, LinkCrash
    PROVE  AllLinks'
<1>1. /\ receipt' = receipt /\ conn' = [w \in Workers |-> FALSE] /\ op' = [c \in Workers \cup {Expiry} |-> NoOp]
      /\ toServer' = [w \in Workers |-> <<>>]
  BY Zenon DEF LinkCrash, Crash, store
<1>2. /\ outbox' = outbox /\ inbox' = inbox /\ settled' = settled /\ client' = client /\ inFlight' = inFlight
      /\ toWorker' = toWorker
  BY Zenon DEF LinkCrash, journal
<1>3. LinkFns'
  BY <1>1, <1>2, Zenon DEF AllLinks, LinkFns
<1>4. ASSUME NEW w \in Workers PROVE LinkOK(w)'
  <2>1. Link(w, outbox[w], inbox[w], settled[w], receipt, op[w], toServer[w], toWorker[w], conn[w], client[w],
             inFlight[w])
    BY Zenon DEF AllLinks, LinkOK
  <2>2. IsSeq(toWorker[w]) /\ IsSeq(toServer[w])
    BY <2>1, Zenon DEF Link, WireOK
  <2>3. Fewer(toWorker[w], toWorker[w]) /\ Fewer(<<>>, toServer[w])
    BY <2>2, FewerTrivially, Zenon
  <2>4. Link(w, outbox[w], inbox[w], settled[w], receipt, NoOp, <<>>, toWorker[w], FALSE, client[w], inFlight[w])
    BY <2>1, <2>3, NoOpIdle, LinkSlides, ZenonT(30)
  <2>5. op'[w] = NoOp /\ conn'[w] = FALSE /\ toServer'[w] = <<>>
    BY <1>1, Zenon
  <2>6. /\ outbox'[w] = outbox[w] /\ inbox'[w] = inbox[w] /\ settled'[w] = settled[w] /\ client'[w] = client[w]
        /\ inFlight'[w] = inFlight[w] /\ toWorker'[w] = toWorker[w]
    BY <1>2, Zenon
  <2> QED
    BY <1>1, <2>4, <2>5, <2>6, Zenon DEF LinkOK
<1> QED
  BY <1>3, <1>4, Zenon DEF AllLinks

(* A step of the service leaves the links true.                            *)
LEMMA QuietLinks ==
    ASSUME AllLinks, Quiet, UNCHANGED linkVars
    PROVE  AllLinks'
<1>1. /\ outbox' = outbox /\ inbox' = inbox /\ settled' = settled /\ client' = client /\ inFlight' = inFlight
      /\ toWorker' = toWorker /\ toServer' = toServer
  BY Zenon DEF linkVars, journal, wire
<1>2. LinkFns'
  BY <1>1, Zenon DEF AllLinks, LinkFns
<1>3. ASSUME NEW w \in Workers PROVE LinkOK(w)'
  <2>1. Link(w, outbox[w], inbox[w], settled[w], receipt, op[w], toServer[w], toWorker[w], conn[w], client[w],
             inFlight[w])
    BY Zenon DEF AllLinks, LinkOK
  <2>2. PICK z : z = op'[w]
    BY Zenon
  <2>3. /\ z.r = op[w].r /\ z.event = op[w].event /\ (z.pc = "idle" <=> op[w].pc = "idle")
        /\ Adds(w, op[w], receipt, receipt')
    BY <2>2, Zenon DEF Quiet
  <2>4. Link(w, outbox[w], inbox[w], settled[w], receipt', z, toServer[w], toWorker[w], conn[w], client[w],
             inFlight[w])
    BY <2>1, <2>3, LinkGrows, Zenon
  <2>5. conn'[w] = conn[w]
    BY Zenon DEF Quiet
  <2>6. /\ outbox'[w] = outbox[w] /\ inbox'[w] = inbox[w] /\ settled'[w] = settled[w] /\ client'[w] = client[w]
        /\ inFlight'[w] = inFlight[w] /\ toWorker'[w] = toWorker[w] /\ toServer'[w] = toServer[w]
    BY <1>1, Zenon
  <2> QED
    BY <2>2, <2>4, <2>5, <2>6, Zenon DEF LinkOK
<1> QED
  BY <1>2, <1>3, Zenon DEF AllLinks
-----------------------------------------------------------------------------
(* LLMWorkerLink: acknowledged assignments                                 *)

(* An assignment once stored is stored.                                    *)
InboxStays ==
    \A w \in Workers : \A r \in Requests : inbox[w][r] # "none" => inbox'[w][r] # "none"

(* A step that puts no task before its human.                              *)
LEMMA AckedStays ==
    ASSUME AckedIsJournalled, Leases, Leases', NotAcked, InboxStays
    PROVE  AckedIsJournalled'
<1> SUFFICES ASSUME NEW r \in Requests, request'[r].state = "open", task'[request'[r].task].state = "awaiting_human"
             PROVE  inbox'[task'[request'[r].task].owner][r] # "none"
  BY Zenon DEF AckedIsJournalled, Owner
<1>1. PICK t : t = request'[r].task
  BY Zenon
<1>2. t \in Tasks /\ task'[t].lease = r
  BY <1>1, Zenon DEF Leases
<1>3. task'[t] = task[t] /\ task[t].state = "awaiting_human"
  BY <1>1, <1>2, Zenon DEF NotAcked
<1>4. task[t].lease = r /\ task[t].state \in ActiveStates
  BY <1>2, <1>3, Zenon DEF ActiveStates
<1>5. request[r].state = "open" /\ request[r].task = t /\ task[t].owner \in Workers
  <2>1. request[task[t].lease].state = "open" /\ request[task[t].lease].task = t /\ task[t].owner \in Workers
    BY <1>2, <1>4, Zenon DEF Leases
  <2> QED
    BY <1>4, <2>1, Zenon
<1>6. inbox[task[t].owner][r] # "none"
  BY <1>3, <1>5, Zenon DEF AckedIsJournalled, Owner
<1>7. inbox'[task[t].owner][r] # "none"
  BY <1>5, <1>6, Zenon DEF InboxStays
<1> QED
  BY <1>1, <1>3, <1>7, Zenon

(* An acknowledgement is of an assignment that is stored.                  *)
LEMMA AckedByFrame ==
    ASSUME AckedIsJournalled, Leases, Leases', NEW w \in Workers, NEW r \in Requests, AckAssignment(w, r),
           inbox[w][r] # "none", inbox' = inbox, RowTypes
    PROVE  AckedIsJournalled'
<1>1. InboxStays
  BY Zenon DEF InboxStays
<1>2. CASE task' = task
  <2>1. NotAcked
    BY <1>2, Zenon DEF NotAcked
  <2> QED
    BY <1>1, <2>1, AckedStays, Zenon
<1>3. CASE AckTxn(request[r].task) /\ task[request[r].task].lease = r
  <2>1. PICK t : t = request[r].task
    BY Zenon
  <2>2. request' = request /\ task' = [task EXCEPT ![t].state = "awaiting_human", ![t].rev = @ + 1]
    BY <1>3, <2>1, Zenon DEF AckTxn
  <2>3. task[t].owner = w /\ task[t].lease = r /\ DOMAIN task = Tasks
    BY <1>3, <2>1, Zenon DEF AckAssignment, Owner, RowTypes
  <2>4. ASSUME NEW q \in Requests, request'[q].state = "open", task'[request'[q].task].state = "awaiting_human"
        PROVE  inbox'[task'[request'[q].task].owner][q] # "none"
    <3>1. request[q].state = "open" /\ request[q].task \in Tasks /\ task[request[q].task].lease = q
      BY <2>2, <2>4, Zenon DEF Leases
    <3>2. CASE request[q].task = t
      <4>1. q = r
        BY <2>3, <3>1, <3>2, Zenon
      <4>2. task'[t].owner = task[t].owner
        <5>1. t \in Tasks
          BY <3>1, <3>2, Zenon
        <5>2. task[t] \in TaskRows
          BY <5>1, Zenon DEF RowTypes
        <5>3. DOMAIN task[t] = {"state", "owner", "lease", "chat", "affinity", "rev"}
          BY <5>2 DEF TaskRows
        <5>4. task'[t] = [task[t] EXCEPT !.state = "awaiting_human", !.rev = @ + 1]
          BY <2>2, <2>3, <5>1, Zenon
        <5> QED
          BY <5>3, <5>4
      <4> QED
        BY <2>2, <2>3, <3>2, <4>1, <4>2, Zenon
    <3>3. CASE request[q].task # t
      <4>1. task'[request[q].task] = task[request[q].task]
        BY <2>2, <2>3, <3>1, <3>3, Zenon
      <4>2. task[request[q].task].state = "awaiting_human"
        BY <2>2, <2>4, <4>1, Zenon
      <4>3. inbox[task[request[q].task].owner][q] # "none"
        BY <3>1, <4>2, Zenon DEF AckedIsJournalled, Owner
      <4> QED
        BY <2>2, <4>1, <4>3, Zenon
    <3> QED
      BY <3>2, <3>3, Zenon
  <2> QED
    BY <2>4, Zenon DEF AckedIsJournalled, Owner
<1> QED
  BY <1>2, <1>3, Zenon DEF AckAssignment, store
-----------------------------------------------------------------------------
(* LLMWorkerLink: every step                                               *)

(* The frame that is read next.                                            *)
LEMMA FrameRead ==
    ASSUME AllLinks, NEW w \in Workers, toServer[w] # <<>>, NEW f, f = Head(toServer[w])
    PROVE  /\ f.r \in Requests
           /\ f.type = "ack" => inbox[w][f.r] # "none"
           /\ f.type = "event" => f.event \in WorkerEvents
<1>1. LinkOK(w)
  BY Zenon DEF AllLinks
<1>2. JournalOK(w, outbox[w], settled[w], receipt) /\ WireOK(outbox[w], inbox[w], receipt, op[w], toServer[w], toWorker[w])
  BY <1>1, Zenon DEF LinkOK, Link
<1>3. IsSeq(toServer[w])
  BY <1>2, Zenon DEF WireOK
<1>4. PICK i \in 1..Len(toServer[w]) : f = toServer[w][i]
  BY <1>3, TakeFrame, Zenon
<1>5. ToServerOK(outbox[w], inbox[w], f)
  BY <1>2, <1>4, Zenon DEF WireOK
<1>6. ASSUME f.type = "event" PROVE f.event \in WorkerEvents
  <2>1. First(outbox[w], f.r, f.event) /\ outbox[w] \in Seq(Entries(w))
    BY <1>2, <1>5, <1>6, Zenon DEF ToServerOK, JournalOK
  <2> QED
    BY <2>1, FirstIs, SMT
<1> QED
  BY <1>5, <1>6, Zenon DEF ToServerOK

(* What the link's steps are to the service.                               *)
LEMMA ClientSilent ==
    ASSUME NEW w, Flush(w) \/ ReceiveAssignment(w) \/ ReceiveReceipt(w) \/ ReceiveClose(w) \/ ReceiveEOF(w) \/ Drop(w)
                  \/ HumanStep(w)
    PROVE  UNCHANGED vars
BY Zenon DEF Flush, ReceiveAssignment, ReceiveReceipt, ReceiveClose, ReceiveEOF, Drop, HumanStep, ConfirmAssignment, SendEvent,
   ConfirmRejection

(* Every step of the link is a step of the service, or none, or the return *)
(* of a failed call.                                                       *)
LEMMA LinkIsService ==
    ASSUME AllLinks, LinkNext \/ UNCHANGED allVars
    PROVE  Next \/ UNCHANGED vars \/ \E w \in Workers : FailedReply(w)
<1>1. CASE UNCHANGED allVars
  BY <1>1, Zenon DEF allVars
<1>2. CASE ServiceStep
  BY <1>2, Zenon DEF ServiceStep, Next
<1>3. CASE LinkCrash
  BY <1>3, Zenon DEF LinkCrash, Next
<1>4. ASSUME NEW w \in Workers, Connect(w) PROVE Next \/ UNCHANGED vars
  BY <1>4, Zenon DEF Connect, Next
<1>5. ASSUME NEW w \in Workers, TransportRead(w) PROVE Next
  <2>1. PICK f : f = Head(toServer[w])
    BY Zenon
  <2>2. /\ toServer[w] # <<>>
        /\ \/ f.type = "ack" /\ AckAssignment(w, f.r)
           \/ f.type = "event" /\ CommitEvent(w, f.r, f.event)
    BY <1>5, <2>1, Zenon DEF TransportRead
  <2>3. f.r \in Requests /\ (f.type = "event" => f.event \in WorkerEvents)
    BY <2>1, <2>2, FrameRead, Zenon
  <2>4. CASE AckAssignment(w, f.r)
    BY <2>3, <2>4, Zenon DEF Next
  <2>5. CASE f.type = "event" /\ CommitEvent(w, f.r, f.event)
    BY <2>3, <2>5, Zenon DEF Next
  <2> QED
    BY <2>2, <2>4, <2>5, Zenon
<1>6. ASSUME NEW w \in Workers, TransportReply(w) PROVE Next \/ FailedReply(w)
  <2>1. CASE OpReturn(w)
    BY <2>1, Zenon DEF Next
  <2>2. CASE FailedReply(w)
    BY <2>2, Zenon
  <2> QED
    BY <1>6, <2>1, <2>2, Zenon DEF TransportReply, FailedReply, Hangup
<1>7. ASSUME NEW w \in Workers, TransportNotices(w) PROVE Next
  <2>1. CloseWorker(w)
    BY <1>7, Zenon DEF TransportNotices, Hangup, CloseWorker
  <2> QED
    BY <2>1, Zenon DEF Next
<1>8. ASSUME NEW w \in Workers, NEW r \in Requests, TransportDispatch(w, r) PROVE Next
  BY <1>8, Zenon DEF TransportDispatch, Next
<1>9. ASSUME NEW w \in Workers, ClientStep(w) \/ TransportStep(w) \/ HumanStep(w) \/ Drop(w)
      PROVE  Next \/ UNCHANGED vars \/ FailedReply(w)
  BY <1>4, <1>5, <1>6, <1>7, <1>8, <1>9, ClientSilent, Zenon DEF ClientStep, TransportStep
<1> QED
  BY <1>1, <1>2, <1>3, <1>9, Zenon DEF LinkNext

(* Every step of the link keeps the invariant of the links.                *)
LEMMA LinksKept ==
    ASSUME ServiceInv, DOMAIN receipt = Requests, AllLinks, LinkNext \/ UNCHANGED allVars, ServiceStep => Quiet
    PROVE  AllLinks'
<1>1. ServiceFns /\ \A w \in Workers : OpOK(w, op[w]) /\ (~conn[w] => op[w].pc = "idle")
  BY Zenon DEF ServiceInv, HandlersInv, MemoryInv, ServiceFns
<1>2. CASE UNCHANGED allVars
  <2>1. Quiet
    BY <1>2, ServiceSame, Zenon DEF allVars, Quiet, Adds
  <2> QED
    BY <1>2, <2>1, QuietLinks, Zenon DEF allVars
<1>3. CASE ServiceStep
  BY <1>3, QuietLinks, Zenon DEF ServiceStep
<1>4. CASE LinkCrash
  BY <1>1, <1>4, CrashLinks, Zenon
<1>5. ASSUME NEW w \in Workers, ClientStep(w) PROVE AllLinks'
  BY <1>1, <1>5, ConnectLinks, FlushLinks, AssignmentLinks, ReceiptLinks, EndingLinks, Zenon DEF ClientStep
<1>6. ASSUME NEW w \in Workers, HumanStep(w) \/ Drop(w) PROVE AllLinks'
  BY <1>1, <1>6, HumanLinks, EndingLinks, Zenon
<1>7. ASSUME NEW w \in Workers, TransportReply(w) PROVE AllLinks'
  <2>1. OpOK(w, op[w])
    BY <1>1, Zenon
  <2>2. CASE op[w].result # "failed"
    <3>1. /\ OpReturn(w)
          /\ SendToWorker(w, IF op[w].event = None THEN <<>>
                             ELSE <<Frame("receipt", op[w].r, op[w].event, op[w].result)>>)
          /\ UNCHANGED <<journal, client, inFlight, toServer, drops>>
      BY <1>7, <2>2, Zenon DEF TransportReply
    <3> QED
      BY <1>1, <2>1, <2>2, <3>1, AnsweredLinks, Zenon
  <2>3. CASE op[w].result = "failed"
    <3>1. PICK reason : reason = IF op[w].event = None THEN "policy" ELSE "unsettled"
      BY Zenon
    <3>2. op' = [op EXCEPT ![w] = NoOp] /\ Hangup(w, <<Frame("close", op[w].r, None, reason)>>)
      BY <1>7, <2>3, <3>1, Zenon DEF TransportReply
    <3> QED
      BY <1>1, <3>2, HangupLinks, Zenon
  <2> QED
    BY <2>2, <2>3, Zenon
<1>8. ASSUME NEW w \in Workers, TransportNotices(w) PROVE AllLinks'
  <2>1. op' = op /\ op[w].pc = "idle" /\ client[w] # "on" /\ Hangup(w, <<>>)
    BY <1>8, Zenon DEF TransportNotices
  <2> QED
    BY <1>1, <2>1, HangupLinks, Zenon
<1>9. ASSUME NEW w \in Workers, TransportStep(w) PROVE AllLinks'
  BY <1>1, <1>7, <1>8, <1>9, ReadLinks, DispatchLinks, Zenon DEF TransportStep
<1> QED
  BY <1>2, <1>3, <1>4, <1>5, <1>6, <1>9, Zenon DEF LinkNext

(* No step forgets an assignment.                                          *)
LEMMA JournalKeeps ==
    ASSUME AllLinks, LinkNext \/ UNCHANGED allVars
    PROVE  InboxStays
<1>1. CASE inbox' = inbox
  BY <1>1, Zenon DEF InboxStays
<1>2. ASSUME NEW w \in Workers, NEW r, NEW z, z # "none", inbox' = [inbox EXCEPT ![w][r] = z]
      PROVE  InboxStays
  <2>1. DOMAIN inbox = Workers /\ DOMAIN inbox[w] = Requests
    BY Zenon DEF AllLinks, LinkFns, LinkOK, Link
  <2>2. PICK inb : inb = [inbox[w] EXCEPT ![r] = z]
    BY Zenon
  <2>3. inbox' = [inbox EXCEPT ![w] = inb]
    BY <1>2, <2>2, Zenon
  <2>4. \A q \in Requests : inbox[w][q] # "none" => inb[q] # "none"
    BY <1>2, <2>1, <2>2, Zenon
  <2>5. inbox'[w] = inb /\ \A v \in Workers : v # w => inbox'[v] = inbox[v]
    BY <2>1, <2>3, Zenon
  <2> QED
    BY <2>4, <2>5, Zenon DEF InboxStays
<1>3. ASSUME NEW w \in Workers, ReceiveAssignment(w) PROVE InboxStays
  <2>1. PICK r : r = Head(toWorker[w]).r
    BY Zenon
  <2>2. PICK z : z = IF inbox[w][r] = "none" THEN "pending" ELSE inbox[w][r]
    BY Zenon
  <2>3. z # "none"
    BY <2>2, Zenon
  <2>4. CASE inbox' = [inbox EXCEPT ![w][r] = IF @ = "none" THEN "pending" ELSE @]
    <3>1. inbox' = [inbox EXCEPT ![w][r] = z]
      BY <2>2, <2>4, Zenon
    <3> QED
      BY <1>2, <2>3, <3>1, Zenon
  <2>5. CASE inbox' = inbox
    BY <1>1, <2>5, Zenon
  <2> QED
    BY <1>3, <2>1, <2>4, <2>5, Zenon DEF ReceiveAssignment, journal
<1>4. ASSUME NEW w \in Workers, NEW r \in Requests, ConfirmAssignment(w, r) PROVE InboxStays
  <2>1. inbox' = [inbox EXCEPT ![w][r] = "settled"]
    BY <1>4, Zenon DEF ConfirmAssignment
  <2>2. "settled" # "none"
    OBVIOUS
  <2> QED
    BY <1>2, <2>1, <2>2, Zenon
<1>5. ASSUME NEW w \in Workers, HumanStep(w) PROVE InboxStays
  <2>1. CASE \E r \in Requests : ConfirmAssignment(w, r)
    BY <1>4, <2>1, Zenon
  <2>2. CASE \E r \in Requests : \E event \in WorkerEvents : SendEvent(w, r, event)
    BY <1>1, <2>2, Zenon DEF SendEvent
  <2>3. CASE \E entry \in rejected[w] : ConfirmRejection(w, entry)
    BY <1>1, <2>3, Zenon DEF ConfirmRejection
  <2> QED
    BY <1>5, <2>1, <2>2, <2>3, Zenon DEF HumanStep
<1>6. ASSUME NEW w \in Workers, Connect(w) \/ Flush(w) \/ ReceiveReceipt(w) \/ ReceiveClose(w) \/ ReceiveEOF(w) \/ Drop(w)
      PROVE  inbox' = inbox
  BY <1>6, Zenon DEF Connect, Flush, ReceiveReceipt, SettleEvent, ReceiveClose, ReceiveEOF, Drop, journal
<1>7. ASSUME NEW w \in Workers, TransportStep(w) PROVE inbox' = inbox
  BY <1>7, Zenon DEF TransportStep, TransportRead, TransportReply, TransportNotices, TransportDispatch, Hangup, journal
<1>8. CASE ServiceStep \/ LinkCrash \/ UNCHANGED allVars
  BY <1>1, <1>8, Zenon DEF ServiceStep, LinkCrash, allVars, linkVars, journal
<1>9. ASSUME NEW w \in Workers, ClientStep(w) \/ TransportStep(w) \/ HumanStep(w) \/ Drop(w) PROVE InboxStays
  BY <1>1, <1>3, <1>5, <1>6, <1>7, <1>9, Zenon DEF ClientStep
<1> QED
  BY <1>8, <1>9, Zenon DEF LinkNext

(* Only a frame of the worker's puts a task before its human.              *)
LEMMA OnlyAckWrites ==
    ASSUME LinkNext \/ UNCHANGED allVars, ServiceStep => NotAcked
    PROVE  \/ NotAcked
           \/ \E w \in Workers : TransportRead(w) /\ Head(toServer[w]).type = "ack"
<1>1. ASSUME task' = task PROVE NotAcked
  BY <1>1, Zenon DEF NotAcked
<1>2. ASSUME UNCHANGED vars PROVE task' = task
  BY <1>2, Zenon DEF vars, store
<1>3. ASSUME NEW w \in Workers, Connect(w) PROVE task' = task
  BY <1>2, <1>3, Zenon DEF Connect, OpenWorker, store
<1>4. ASSUME NEW w \in Workers, TransportRead(w), Head(toServer[w]).type # "ack" PROVE task' = task
  BY <1>4, Zenon DEF TransportRead, CommitEvent, CommitBegin, store
<1>5. ASSUME NEW w \in Workers, TransportReply(w) PROVE task' = task
  BY <1>5, Zenon DEF TransportReply, OpReturn, Hangup, store
<1>6. ASSUME NEW w \in Workers, TransportNotices(w) PROVE task' = task
  BY <1>6, Zenon DEF TransportNotices, Hangup, store
<1>7. ASSUME NEW w \in Workers, NEW r \in Requests, TransportDispatch(w, r) PROVE task' = task
  BY <1>7, Zenon DEF TransportDispatch, Dispatch, store
<1>8. ASSUME LinkCrash PROVE task' = task
  BY <1>8, Zenon DEF LinkCrash, Crash, store
<1>9. ASSUME UNCHANGED allVars PROVE task' = task
  BY <1>2, <1>9, Zenon DEF allVars
<1>10. ASSUME NEW w \in Workers, ClientStep(w) \/ HumanStep(w) \/ Drop(w) PROVE task' = task
  BY <1>2, <1>3, <1>10, ClientSilent, Zenon DEF ClientStep
<1>11. ASSUME NEW w \in Workers, TransportStep(w)
       PROVE  task' = task \/ (TransportRead(w) /\ Head(toServer[w]).type = "ack")
  BY <1>4, <1>5, <1>6, <1>7, <1>11, Zenon DEF TransportStep
<1> QED
  BY <1>1, <1>8, <1>9, <1>10, <1>11, Zenon DEF LinkNext

(* Every step keeps what is before a human in the human's journal.         *)
LEMMA AckedKept ==
    ASSUME ServiceInv, AllLinks, AckedIsJournalled, Leases, Leases', LinkNext \/ UNCHANGED allVars,
           ServiceStep => NotAcked
    PROVE  AckedIsJournalled'
<1>1. CASE NotAcked
  BY <1>1, JournalKeeps, AckedStays, Zenon
<1>2. ASSUME NEW w \in Workers, TransportRead(w), Head(toServer[w]).type = "ack" PROVE AckedIsJournalled'
  <2>1. PICK f : f = Head(toServer[w])
    BY Zenon
  <2>2. toServer[w] # <<>> /\ AckAssignment(w, f.r) /\ inbox' = inbox
    BY <1>2, <2>1, Zenon DEF TransportRead, journal
  <2>3. f.r \in Requests /\ inbox[w][f.r] # "none"
    <3>1. f.type = "ack"
      BY <1>2, <2>1, Zenon
    <3> QED
      BY <2>1, <2>2, <3>1, FrameRead, Zenon
  <2>4. RowTypes
    BY Zenon DEF ServiceInv, StoreInv, StoreRows
  <2> QED
    BY <2>2, <2>3, <2>4, AckedByFrame, Zenon
<1> QED
  BY <1>1, <1>2, OnlyAckWrites, Zenon

(* The link starts with empty journals and no connection.                  *)
LEMMA LinkStarts ==
    ASSUME LinkInit
    PROVE  AllLinks /\ AckedIsJournalled
<1>1. LinkFns
  BY Zenon DEF LinkInit, LinkFns
<1>2. ASSUME NEW w \in Workers PROVE LinkOK(w)
  <2>1. outbox[w] = <<>> /\ settled[w] = {} /\ toServer[w] = <<>> /\ toWorker[w] = <<>> /\ inFlight[w] = <<>>
    BY Zenon DEF LinkInit
  <2>2. DOMAIN inbox[w] = Requests /\ client[w] = "off" /\ \A r \in Requests : receipt[r] = {}
    BY Zenon DEF LinkInit, Init
  <2>3. op[w] = NoOp
    <3>1. w \in Workers \cup {Expiry}
      BY Zenon
    <3>2. op = [c \in Workers \cup {Expiry} |-> NoOp]
      BY Zenon DEF LinkInit, Init
    <3> QED
      BY <3>1, <3>2, Zenon
  <2>4. ~Busy(op[w])
    <3>1. NoOp.pc = "idle"
      BY Zenon DEF NoOp
    <3> QED
      BY <2>3, <3>1, Zenon DEF Busy
  <2>5. JournalOK(w, <<>>, {}, receipt)
    <3>1. <<>> \in Seq(Entries(w)) /\ \A i \in 1..Len(<<>>) : FALSE
      BY SMT
    <3> QED
      BY <2>2, <3>1, Zenon DEF JournalOK
  <2>6. WireOK(<<>>, inbox[w], receipt, op[w], <<>>, <<>>)
    <3>1. IsSeq(<<>>) /\ \A i \in 1..Len(<<>>) : FALSE
      BY SMT DEF IsSeq
    <3> QED
      BY <2>4, <3>1, Zenon DEF WireOK, One, Has
  <2>7. SessionOK(op[w], conn[w], client[w], <<>>, <<>>, <<>>, <<>>)
    BY <2>2, Zenon DEF SessionOK
  <2> QED
    BY <2>1, <2>2, <2>5, <2>6, <2>7, Zenon DEF LinkOK, Link
<1>3. AckedIsJournalled
  <2>1. \A r \in Requests : request[r].state # "open"
    BY Zenon DEF LinkInit, Init, NoRequest
  <2> QED
    BY <2>1, Zenon DEF AckedIsJournalled
<1> QED
  BY <1>1, <1>2, <1>3, Zenon DEF AllLinks

(* What is in flight is the oldest event, and a receipt is for it.         *)
LEMMA FlightShown ==
    ASSUME AllLinks
    PROVE  ReceiptsMatchFlight
<1>1. SUFFICES ASSUME NEW w \in Workers
               PROVE  /\ inFlight[w] # <<>> => outbox[w] # <<>> /\ Head(inFlight[w]) = Head(outbox[w])
                      /\ \A i \in DOMAIN toWorker[w] : toWorker[w][i].type = "receipt" =>
                           inFlight[w] = <<Entry(toWorker[w][i].r, toWorker[w][i].event)>>
  BY Zenon DEF ReceiptsMatchFlight
<1>2. LinkOK(w)
  BY Zenon DEF AllLinks
<1>3. WireOK(outbox[w], inbox[w], receipt, op[w], toServer[w], toWorker[w])
  BY <1>2, Zenon DEF LinkOK, Link
<1>4. SessionOK(op[w], conn[w], client[w], inFlight[w], outbox[w], toServer[w], toWorker[w])
  BY <1>2, Zenon DEF LinkOK, Link
<1>5. inFlight[w] = <<>> \/ (outbox[w] # <<>> /\ inFlight[w] = <<Head(outbox[w])>>)
  BY <1>4, Zenon DEF SessionOK
<1>6. \A x : Head(<<x>>) = x
  BY SMT
<1>7. ASSUME NEW i \in DOMAIN toWorker[w], toWorker[w][i].type = "receipt"
      PROVE  inFlight[w] = <<Entry(toWorker[w][i].r, toWorker[w][i].event)>>
  <2>1. IsSeq(toWorker[w])
    BY <1>3, Zenon DEF WireOK
  <2>2. i \in 1..Len(toWorker[w]) /\ toWorker[w] # <<>>
    <3>1. PICK S : toWorker[w] \in Seq(S)
      BY <2>1, Zenon DEF IsSeq
    <3> QED
      BY <1>7, <3>1, SMT
  <2>3. Has(toWorker[w], "receipt")
    BY <1>7, <2>2, Zenon DEF Has
  <2>4. First(outbox[w], toWorker[w][i].r, toWorker[w][i].event)
    BY <1>3, <1>7, <2>2, Zenon DEF WireOK, ToWorkerOK
  <2>5. inFlight[w] # <<>>
    BY <1>4, <2>2, <2>3, Zenon DEF SessionOK, Idle
  <2> QED
    BY <1>5, <2>4, <2>5, Zenon DEF First
<1> QED
  BY <1>5, <1>6, <1>7, Zenon

(* What the journal settled is true, and only the oldest of the rest may   *)
(* have been applied.                                                      *)
LEMMA JournalShown ==
    ASSUME AllLinks
    PROVE  JournalTruth /\ NoOvertaking
<1>1. ASSUME NEW w \in Workers
      PROVE  JournalOK(w, outbox[w], settled[w], receipt)
  BY Zenon DEF AllLinks, LinkOK, Link
<1>2. JournalTruth
  BY <1>1, Zenon DEF JournalOK, Truth, JournalTruth
<1>3. ASSUME NEW w \in Workers, NEW i \in 2..Len(outbox[w]), outbox[w][i].event \in receipt[outbox[w][i].r]
      PROVE  FALSE
  <2>1. PICK out : out = outbox[w]
    BY Zenon
  <2>2. JournalOK(w, out, settled[w], receipt)
    BY <1>1, <2>1, Zenon
  <2>3. out \in Seq(Entries(w))
    BY <2>2, Zenon DEF JournalOK
  <2>4. i \in 1..Len(out) /\ i # 1 /\ out[i] \in Entries(w)
    BY <1>3, <2>1, <2>3, SMTT(30)
  <2>5. PICK r : r = out[i].r
    BY Zenon
  <2>6. PICK e : e = out[i].event
    BY Zenon
  <2>7. r \in Requests /\ e.worker = w /\ e.id # Expiry
    BY <2>4, <2>5, <2>6, EntryFacts, Zenon
  <2>8. e \in receipt[r]
    BY <1>3, <2>1, <2>5, <2>6, Zenon
  <2>9. First(out, r, e) \/ \E done \in settled[w] : done.entry = Entry(r, e)
    BY <2>2, <2>7, <2>8, Zenon DEF JournalOK
  <2>10. ~First(out, r, e)
    <3>1. ASSUME First(out, r, e) PROVE FALSE
      <4>1. 1 \in 1..Len(out) /\ out[1].event = e
        BY <2>3, <3>1, FirstIs, SMTT(30)
      <4>2. out[1].event.id = out[i].event.id
        BY <2>6, <4>1, Zenon
      <4>3. \A j, k \in 1..Len(out) : out[j].event.id = out[k].event.id => j = k
        BY <2>2, Zenon DEF JournalOK
      <4> QED
        BY <2>4, <4>1, <4>2, <4>3, Zenon
    <3> QED
      BY <3>1, Zenon
  <2>11. PICK done \in settled[w] : done.entry = Entry(r, e)
    BY <2>9, <2>10, Zenon
  <2>12. done.entry.event = e
    BY <2>11, EntryIs, ZenonT(30)
  <2>13. out[i].event.id = done.entry.event.id
    BY <2>6, <2>12, Zenon
  <2>14. \A j \in 1..Len(out) : out[j].event.id # done.entry.event.id
    BY <2>2, <2>11, Zenon DEF JournalOK
  <2> QED
    BY <2>4, <2>13, <2>14, Zenon
<1> QED
  BY <1>2, <1>3, Zenon DEF NoOvertaking

(* The invariant of the links says that the two ends agree.                *)
LEMMA LinksShown ==
    AllLinks /\ AckedIsJournalled => LinkIsTrue
BY FlightShown, JournalShown, Zenon DEF LinkIsTrue
=============================================================================
