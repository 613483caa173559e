---------------------------- MODULE StoreRecords ----------------------------
(***************************************************************************)
(* What the HumanLLM Store adapters share (llm/store.go,                   *)
(* llm/store_types.go): the five kinds of records, and the answer of a     *)
(* primitive.  Payload bytes are their length, times are numbers (0 is     *)
(* nil), keys are numbers because scans order by them.                     *)
(***************************************************************************)
EXTENDS Integers, Sequences, FiniteSets

LOCAL INSTANCE TLC
LOCAL INSTANCE SequencesExt

\* an empty Store
NoRecords == [tasks |-> << >>, requests |-> << >>, events |-> << >>,
              receipts |-> << >>, tools |-> << >>]

\* table f with v under key k
Put(f, k, v) == (k :> v) @@ f

\* table f without the keys K
Drop(f, K) == [k \in DOMAIN f \ K |-> f[k]]

\* a primitive's answer: the logical error or "done", and the tables after it
Refused(s, why) == [got |-> why, at |-> s]
Wrote(s) == [got |-> "done", at |-> s]

\* the tables with one record stored
PutTask(s, t, r) == Wrote([s EXCEPT !.tasks = Put(@, t, r)])
PutRequest(s, k, r) == Wrote([s EXCEPT !.requests = Put(@, k, r)])
PutEvent(s, k, n, e) == Wrote([s EXCEPT !.events = Put(@, <<k, n>>, e)])
PutReceipt(s, k, w, r) == Wrote([s EXCEPT !.receipts = Put(@, <<k, w>>, r)])
PutTool(s, t, c, r) == Wrote([s EXCEPT !.tools = Put(@, <<t, c>>, r)])

\* a tool-capable task that still holds its affinity
HoldsAffinity(r) == r.open /\ r.tier = "tools"

\* when a request's answer was final, for retention
Effective(r) == IF r.ended # 0 THEN r.ended ELSE r.made

\* the rows of a set of records [at, size, ...] in the order of their cursors
Earlier(a, b) == a[1] < b[1] \/ (a[1] = b[1] /\ a[2] < b[2])
InOrder(rows) == SetToSortSeq(rows, LAMBDA x, y : Earlier(x.at, y.at))

\* the bytes of a sequence of rows
RECURSIVE Bytes(_)
Bytes(rows) == IF rows = << >> THEN 0 ELSE Head(rows).size + Bytes(Tail(rows))

\* the answer of a scan whose first row is beyond the byte budget
TooLarge == <<[at |-> <<0, 0>>, size |-> -1, flag |-> FALSE]>>

=============================================================================
