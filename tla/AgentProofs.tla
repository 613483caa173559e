----------------------------- MODULE AgentProofs ----------------------------
(***************************************************************************)
(* Proofs about HumanAgent.  AgentLedger keeps its promises for any tasks, *)
(* workers, Artifacts and commands; every theorem follows from one inductive *)
(* invariant, IInv, whose part about the records other than the commands is *)
(* StoreInv.  ApplyJournal, on the side of its callers, does for any number *)
(* of concurrent calls, identities and intents and any budget of failures. *)
(***************************************************************************)
EXTENDS AgentLedger, ApplyJournal, TLAPS

StoreType ==
    /\ task \in [Tasks -> TaskRecords]
    /\ event \in [Tasks -> Seq(EventRecords)]
    /\ grant \in [Tasks -> Seq(GrantRecords)]
    /\ artifact \in [Artifacts -> ArtifactRecords]
    /\ head \in [Workspaces -> Revisions]
    /\ origin \in [Workspaces -> Revisions]
    /\ receipt \in [Artifacts -> ReceiptRecords]

(* No event bears a fence that was never granted.                          *)
FencesGranted ==
    \A t \in Tasks : \A i \in 1..Len(event[t]) :
        event[t][i].kind \in WorkerKinds => event[t][i].fence <= task[t].fence

(* A task that was never created has left no trace.                        *)
BlankUntilCreated == \A t \in Tasks : task[t].state = "absent" => task[t] = NoTask

StoreInv ==
    /\ StoreType /\ BlankUntilCreated
    /\ LeaseHeadsHistory /\ RecordsAgree /\ FencesGranted /\ FencedOut
-----------------------------------------------------------------------------
(* The operators                                                           *)

(* A command has the fields its Go type has.                               *)
LEMMA CommandFacts ==
    ASSUME NEW c \in Commands
    PROVE  /\ c \in CommandRecords
           /\ c.id \in IDs /\ c.ident \in IDs /\ c.kind \in Kinds
           /\ c.task \in Tasks /\ c.worker \in Workers
           /\ c.fence \in Nat /\ c.revision \in Nat
           /\ c.artifact \in Artifacts \cup {None}
           /\ c.base \in Revisions /\ c.decision \in Decisions
<1>1. c \in CommandRecords
  BY AgentAssumption, Zenon
<1> QED
  BY <1>1, Zenon DEF CommandRecords

(* An event records the command behind it.                                 *)
LEMMA EventFacts ==
    ASSUME NEW c \in Commands
    PROVE  /\ EventOf(c) \in EventRecords
           /\ EventOf(c).by = c.id
           /\ EventOf(c).kind = c.kind
           /\ c.kind \in WorkerKinds => EventOf(c).fence = c.fence
BY CommandFacts, Zenon DEF EventOf, EventRecords

(* A new task.                                                             *)
LEMMA SubmittedFacts ==
    /\ Submitted \in TaskRecords
    /\ Submitted.state = "submitted" /\ Submitted.revision = 1 /\ Submitted.messages = 1
    /\ Submitted.owner = None /\ Submitted.fence = 0 /\ Submitted.artifact = None
    /\ Submitted.fate = "none" /\ Submitted.submission = None
<1>1. 1 \in 0..MaxInt64 /\ 0 \in 0..MaxInt64
  BY AgentAssumption
<1> QED
  BY <1>1, Zenon DEF Submitted, TaskRecords, TaskStates

(* A lease changes owner and fence only.                                   *)
LEMMA LeasedToFacts ==
    ASSUME NEW rec \in TaskRecords, NEW w \in Workers, Countable(rec.fence)
    PROVE  /\ LeasedTo(rec, w) \in TaskRecords
           /\ LeasedTo(rec, w).owner = w
           /\ LeasedTo(rec, w).fence = rec.fence + 1
           /\ LeasedTo(rec, w).state = rec.state /\ LeasedTo(rec, w).revision = rec.revision
           /\ LeasedTo(rec, w).messages = rec.messages /\ LeasedTo(rec, w).artifact = rec.artifact
           /\ LeasedTo(rec, w).fate = rec.fate /\ LeasedTo(rec, w).submission = rec.submission
<1>1. rec.fence + 1 \in 0..MaxInt64
  BY AgentAssumption DEF TaskRecords, Countable
<1>2. LeasedTo(rec, w) \in TaskRecords
  BY <1>1, Zenon DEF LeasedTo, TaskRecords
<1>3. LeasedTo(rec, w).owner = w /\ LeasedTo(rec, w).fence = rec.fence + 1
  BY Zenon DEF LeasedTo, TaskRecords
<1>4. /\ LeasedTo(rec, w).state = rec.state /\ LeasedTo(rec, w).revision = rec.revision
      /\ LeasedTo(rec, w).messages = rec.messages
  BY Zenon DEF LeasedTo, TaskRecords
<1>5. /\ LeasedTo(rec, w).artifact = rec.artifact /\ LeasedTo(rec, w).fate = rec.fate
      /\ LeasedTo(rec, w).submission = rec.submission
  BY Zenon DEF LeasedTo, TaskRecords
<1> QED
  BY <1>2, <1>3, <1>4, <1>5, Zenon

(* Fencing changes the owner only.                                         *)
LEMMA ReleasedFacts ==
    ASSUME NEW rec \in TaskRecords
    PROVE  /\ Released(rec) \in TaskRecords
           /\ Released(rec).owner = None
           /\ Released(rec).fence = rec.fence
           /\ Released(rec).state = rec.state /\ Released(rec).revision = rec.revision
           /\ Released(rec).messages = rec.messages /\ Released(rec).artifact = rec.artifact
           /\ Released(rec).fate = rec.fate /\ Released(rec).submission = rec.submission
BY Zenon DEF Released, TaskRecords

(* Freezing counts an event and sets the Artifact.                         *)
LEMMA WithArtifactFacts ==
    ASSUME NEW rec \in TaskRecords, NEW x \in Artifacts, Countable(rec.revision)
    PROVE  /\ WithArtifact(rec, x) \in TaskRecords
           /\ WithArtifact(rec, x).artifact = x /\ WithArtifact(rec, x).fate = "frozen"
           /\ WithArtifact(rec, x).revision = rec.revision + 1
           /\ WithArtifact(rec, x).owner = rec.owner /\ WithArtifact(rec, x).fence = rec.fence
           /\ WithArtifact(rec, x).state = rec.state /\ WithArtifact(rec, x).messages = rec.messages
           /\ WithArtifact(rec, x).submission = rec.submission
<1>1. rec.revision + 1 \in 0..MaxInt64
  BY AgentAssumption DEF TaskRecords, Countable
<1>2. WithArtifact(rec, x) \in TaskRecords
  BY <1>1, Zenon DEF WithArtifact, TaskRecords
<1>3. /\ WithArtifact(rec, x).artifact = x /\ WithArtifact(rec, x).fate = "frozen"
      /\ WithArtifact(rec, x).revision = rec.revision + 1
  BY Zenon DEF WithArtifact, TaskRecords
<1>4. /\ WithArtifact(rec, x).owner = rec.owner /\ WithArtifact(rec, x).fence = rec.fence
      /\ WithArtifact(rec, x).state = rec.state
  BY Zenon DEF WithArtifact, TaskRecords
<1>5. /\ WithArtifact(rec, x).messages = rec.messages
      /\ WithArtifact(rec, x).submission = rec.submission
  BY Zenon DEF WithArtifact, TaskRecords
<1> QED
  BY <1>2, <1>3, <1>4, <1>5, Zenon

(* A transition, as far as it is the same for every command.               *)
LEMMA AdvancedFacts ==
    ASSUME NEW rec \in TaskRecords, NEW c \in Commands, c.kind \in DOMAIN Change,
           Countable(rec.revision), rec.messages <= rec.revision
    PROVE  /\ Advanced(rec, c) \in TaskRecords
           /\ Advanced(rec, c).state = Change[c.kind].next
           /\ Advanced(rec, c).revision = rec.revision + 1
           /\ Advanced(rec, c).messages \in {rec.messages, rec.messages + 1}
           /\ Advanced(rec, c).owner = IF Change[c.kind].next \in TerminalStates THEN None ELSE rec.owner
           /\ Advanced(rec, c).fence = rec.fence
           /\ Advanced(rec, c).artifact = rec.artifact
           /\ Advanced(rec, c).fate = Fate(c.kind, rec.fate)
           /\ Advanced(rec, c).submission = IF c.kind = "complete_task" THEN c.ident ELSE rec.submission
<1>1. Change[c.kind].next \in TaskStates
  BY DEF Change, TaskStates
<1>2. \A f \in {"none", "frozen", "published", "discarded"} :
        Fate(c.kind, f) \in {"none", "frozen", "published", "discarded"}
  BY Zenon DEF Fate
<1>3. c.ident \in IDs
  BY CommandFacts, Zenon
<1>4. /\ rec.revision + 1 \in 0..MaxInt64
      /\ \A n \in {rec.messages, rec.messages + 1} : n \in 0..MaxInt64
  BY AgentAssumption DEF TaskRecords, Countable
<1> DEFINE A == Advanced(rec, c)
           K == AdvancedKeepsLease(rec, c)
<1>5. K \in TaskRecords
  <2> DEFINE state == Change[c.kind].next
             revision == rec.revision + 1
             messages == IF c.kind \in MessageKinds THEN rec.messages + 1 ELSE rec.messages
             fate == Fate(c.kind, rec.fate)
             submission == IF c.kind = "complete_task" THEN c.ident ELSE rec.submission
  <2>1. /\ state \in TaskStates /\ revision \in 0..MaxInt64 /\ messages \in 0..MaxInt64
        /\ fate \in {"none", "frozen", "published", "discarded"}
        /\ submission \in IDs \cup {None}
    BY <1>1, <1>2, <1>3, <1>4, Zenon DEF TaskRecords
  <2>2. K = [rec EXCEPT !.state = state, !.revision = revision, !.messages = messages,
                        !.fate = fate, !.submission = submission]
    BY Zenon DEF AdvancedKeepsLease
  <2> HIDE DEF state, revision, messages, fate, submission, K
  <2> QED
    BY <2>1, <2>2, Zenon DEF TaskRecords
<1>6. K.state = Change[c.kind].next /\ K.revision = rec.revision + 1
  BY Zenon DEF AdvancedKeepsLease, TaskRecords
<1>7. K.messages \in {rec.messages, rec.messages + 1} /\ K.fate = Fate(c.kind, rec.fate)
  BY Zenon DEF AdvancedKeepsLease, TaskRecords
<1>8. /\ K.owner = rec.owner /\ K.fence = rec.fence /\ K.artifact = rec.artifact
      /\ K.submission = IF c.kind = "complete_task" THEN c.ident ELSE rec.submission
  BY Zenon DEF AdvancedKeepsLease, TaskRecords
<1>9. A = [K EXCEPT !.owner = IF Change[c.kind].next \in TerminalStates THEN None ELSE @]
  BY Zenon DEF Advanced
<1> HIDE DEF A, K
<1>10. A \in TaskRecords
  BY <1>5, <1>9, Zenon DEF TaskRecords
<1>11. /\ A.owner = IF Change[c.kind].next \in TerminalStates THEN None ELSE K.owner
       /\ A.state = K.state /\ A.revision = K.revision
  BY <1>5, <1>9, Zenon DEF TaskRecords
<1>12. A.messages = K.messages /\ A.fence = K.fence /\ A.artifact = K.artifact
  BY <1>5, <1>9, Zenon DEF TaskRecords
<1>13. A.fate = K.fate /\ A.submission = K.submission
  BY <1>5, <1>9, Zenon DEF TaskRecords
<1> QED
  BY <1>6, <1>7, <1>8, <1>10, <1>11, <1>12, <1>13, Zenon DEF A

(* What the end of its task does to an Artifact.                           *)
LEMMA DecidedFacts ==
    ASSUME NEW rec \in ArtifactRecords, NEW kind
    PROVE  /\ Decided(rec, kind) \in ArtifactRecords
           /\ Decided(rec, kind).state = Fate(kind, rec.state)
           /\ Decided(rec, kind).task = rec.task
           /\ Decided(rec, kind).base = rec.base
           /\ rec.state # "frozen" => Decided(rec, kind) = rec
BY Zenon DEF Decided, ArtifactRecords, Fate

(* A sequence with one more element.                                       *)
LEMMA AppendFacts ==
    ASSUME NEW S, NEW s \in Seq(S), NEW e \in S
    PROVE  /\ Append(s, e) \in Seq(S)
           /\ Len(s) \in Nat
           /\ Len(Append(s, e)) = Len(s) + 1
           /\ \A i \in 1..Len(s) : Append(s, e)[i] = s[i]
           /\ Append(s, e)[Len(s) + 1] = e
OBVIOUS
-----------------------------------------------------------------------------
(* The steps                                                               *)

(* An event that bears the task's own fence, or none, keeps the order of   *)
(* the fences.                                                             *)
LEMMA FencesKept ==
    ASSUME StoreInv, NEW t \in Tasks, NEW e \in EventRecords, NEW R \in TaskRecords,
           task' = [task EXCEPT ![t] = R],
           event' = [event EXCEPT ![t] = Append(event[t], e)],
           R.fence = task[t].fence,
           e.kind \in WorkerKinds => e.fence = task[t].fence
    PROVE  FencesGranted' /\ FencedOut'
<1> USE DEF StoreInv, StoreType
<1>1. /\ task'[t] = R /\ event'[t] = Append(event[t], e)
      /\ \A u \in Tasks : u # t => task'[u] = task[u] /\ event'[u] = event[u]
  BY Zenon
<1>2. /\ Len(event[t]) \in Nat
      /\ Len(event'[t]) = Len(event[t]) + 1
      /\ \A i \in 1..Len(event[t]) : event'[t][i] = event[t][i]
      /\ event'[t][Len(event[t]) + 1] = e
  BY <1>1, AppendFacts
<1>3. \A i \in 1..Len(event'[t]) : i \in 1..Len(event[t]) \/ i = Len(event[t]) + 1
  BY <1>2
<1>4. \A i \in 1..Len(event'[t]) :
        event'[t][i].kind \in WorkerKinds => event'[t][i].fence <= task[t].fence
  <2> TAKE i \in 1..Len(event'[t])
  <2>1. CASE i \in 1..Len(event[t])
    BY <2>1, <1>2, Zenon DEF FencesGranted
  <2>2. CASE i = Len(event[t]) + 1
    <3>1. task[t].fence \in 0..MaxInt64
      BY Zenon DEF TaskRecords
    <3>2. task[t].fence <= task[t].fence
      BY <3>1, AgentAssumption
    <3> QED
      BY <2>2, <1>2, <3>2, Zenon
  <2> QED
    BY <2>1, <2>2, <1>3, Zenon
<1>5. FencesGranted'
  BY <1>1, <1>4, Zenon DEF FencesGranted
<1>6. ASSUME NEW i \in 1..Len(event'[t]), NEW j \in 1..Len(event'[t]), i < j,
             event'[t][i].kind \in WorkerKinds, event'[t][j].kind \in WorkerKinds
      PROVE  event'[t][i].fence <= event'[t][j].fence
  <2>1. CASE j \in 1..Len(event[t])
    <3>1. i \in 1..Len(event[t])
      BY <2>1, <1>2, <1>6
    <3> QED
      BY <2>1, <3>1, <1>2, <1>6, Zenon DEF FencedOut
  <2>2. CASE j = Len(event[t]) + 1
    BY <2>2, <1>2, <1>4, <1>6, Zenon
  <2> QED
    BY <2>1, <2>2, <1>3, Zenon
<1>7. FencedOut'
  BY <1>1, <1>6 DEF FencedOut
<1> QED
  BY <1>5, <1>7, Zenon

(* A new task starts its own history.                                      *)
LEMMA CreateKeeps ==
    ASSUME StoreInv, NEW c \in Commands, CreateTask(c)
    PROVE  StoreInv'
<1> DEFINE t == c.task
<1> USE DEF StoreInv
<1>1. t \in Tasks
  BY CommandFacts, Zenon
<1>2. /\ task' = [task EXCEPT ![t] = Submitted]
      /\ event' = [event EXCEPT ![t] = <<EventOf(c)>>]
      /\ grant' = grant /\ artifact' = artifact /\ head' = head
      /\ origin' = origin /\ receipt' = receipt
  BY Zenon DEF CreateTask
<1>3. <<EventOf(c)>> \in Seq(EventRecords) /\ Len(<<EventOf(c)>>) = 1
  BY EventFacts
<1>4. StoreType'
  BY <1>1, <1>2, <1>3, SubmittedFacts, Zenon DEF StoreType
<1>5. /\ task'[t] = Submitted /\ event'[t] = <<EventOf(c)>>
      /\ \A u \in Tasks : u # t => task'[u] = task[u] /\ event'[u] = event[u]
  BY <1>1, <1>2, Zenon DEF StoreType
<1>6. task[t] = NoTask
  BY <1>1, Zenon DEF CreateTask, BlankUntilCreated
<1>7. BlankUntilCreated'
  BY <1>5, SubmittedFacts, Zenon DEF BlankUntilCreated
<1>8. LeaseHeadsHistory'
  <2>1. Len(grant[t]) = 0
    BY <1>1, <1>6 DEF LeaseHeadsHistory, NoTask
  <2> QED
    BY <1>2, <1>5, <2>1, SubmittedFacts DEF LeaseHeadsHistory
<1>9. RecordsAgree'
  <2>1. \A x \in Artifacts : artifact[x].task # t
    BY <1>1, <1>6, AgentAssumption DEF RecordsAgree, ArtifactAgrees, NoTask
  <2>2. /\ task'[t].revision = Len(event'[t]) /\ task'[t].messages <= task'[t].revision
        /\ task'[t].state # "completed" /\ task'[t].submission = None
        /\ task'[t].artifact = None /\ task'[t].fate = "none"
    BY <1>3, <1>5, SubmittedFacts
  <2> HIDE DEF t
  <2>3. CountersAgree(t)' /\ ArtifactAgrees(t)'
    BY <1>2, <2>1, <2>2, Zenon DEF CountersAgree, ArtifactAgrees
  <2>4. ASSUME NEW u \in Tasks, u # t PROVE CountersAgree(u)' /\ ArtifactAgrees(u)'
    <3>1. CountersAgree(u) /\ ArtifactAgrees(u)
      BY Zenon DEF RecordsAgree
    <3> QED
      BY <1>2, <1>5, <2>4, <3>1, Zenon DEF CountersAgree, ArtifactAgrees
  <2> QED
    BY <2>3, <2>4, Zenon DEF RecordsAgree
<1>10. FencesGranted' /\ FencedOut'
  <2>1. \A i \in 1..Len(event'[t]) : event'[t][i].kind \notin WorkerKinds
    <3>1. c.kind = "create_task"
      BY Zenon DEF CreateTask
    <3>2. EventOf(c).kind \notin WorkerKinds
      BY <3>1, EventFacts, Zenon DEF WorkerKinds
    <3> QED
      BY <1>5, <3>2
  <2> QED
    BY <1>5, <2>1, Zenon DEF FencesGranted, FencedOut
<1> QED
  BY <1>4, <1>7, <1>8, <1>9, <1>10, Zenon

(* A grant becomes the head of the lease history.                          *)
LEMMA GrantKeeps ==
    ASSUME StoreInv, NEW c \in Commands, NEW t \in Tasks, GrantLease(c, t)
    PROVE  StoreInv'
<1> DEFINE R == LeasedTo(task[t], c.worker)
           g == [worker |-> c.worker, by |-> c.id]
<1> USE DEF StoreInv
<1>1. /\ task' = [task EXCEPT ![t] = R] /\ grant' = [grant EXCEPT ![t] = Append(grant[t], g)]
      /\ event' = event /\ artifact' = artifact /\ head' = head
      /\ origin' = origin /\ receipt' = receipt
  BY Zenon DEF GrantLease
<1>2. g \in GrantRecords /\ g.worker = c.worker /\ c.worker \in Workers
  BY CommandFacts, Zenon DEF GrantRecords
<1>3. /\ R \in TaskRecords /\ R.owner = c.worker /\ R.fence = task[t].fence + 1
      /\ R.state = task[t].state /\ R.revision = task[t].revision
      /\ R.messages = task[t].messages /\ R.artifact = task[t].artifact
      /\ R.fate = task[t].fate /\ R.submission = task[t].submission
  BY <1>2, LeasedToFacts DEF StoreType, GrantLease
<1>4. /\ Append(grant[t], g) \in Seq(GrantRecords)
      /\ Len(grant[t]) \in Nat
      /\ Len(Append(grant[t], g)) = Len(grant[t]) + 1
      /\ Append(grant[t], g)[Len(grant[t]) + 1] = g
  BY <1>2, AppendFacts DEF StoreType
<1>5. task[t].state \in TaskStates \ TerminalStates /\ task[t].fence = Len(grant[t])
  BY Zenon DEF GrantLease, Leasable, LeaseHeadsHistory
<1> HIDE DEF R, g
<1>6. StoreType'
  BY <1>1, <1>3, <1>4, Zenon DEF StoreType
<1>7. /\ task'[t] = R /\ grant'[t] = Append(grant[t], g)
      /\ \A u \in Tasks : u # t => task'[u] = task[u] /\ grant'[u] = grant[u]
  BY <1>1, Zenon DEF StoreType
<1>8. BlankUntilCreated'
  BY <1>3, <1>5, <1>7, Zenon DEF BlankUntilCreated, TaskStates
<1>9. LeaseHeadsHistory'
  <2>1. R.fence = Len(Append(grant[t], g)) /\ R.fence # 0 /\ Append(grant[t], g)[R.fence] = g
    BY <1>3, <1>4, <1>5
  <2> QED
    BY <1>2, <1>3, <1>5, <1>7, <2>1 DEF LeaseHeadsHistory
<1>10. RecordsAgree'
  <2> SUFFICES ASSUME NEW u \in Tasks PROVE CountersAgree(u)' /\ ArtifactAgrees(u)'
    BY Zenon DEF RecordsAgree
  <2>1. CountersAgree(u) /\ ArtifactAgrees(u)
    BY Zenon DEF RecordsAgree
  <2>2. /\ task'[u].revision = task[u].revision /\ task'[u].messages = task[u].messages
        /\ task'[u].state = task[u].state /\ task'[u].submission = task[u].submission
        /\ task'[u].artifact = task[u].artifact /\ task'[u].fate = task[u].fate
    BY <1>3, <1>7, Zenon
  <2> QED
    BY <1>1, <2>1, <2>2, Zenon DEF CountersAgree, ArtifactAgrees
<1>11. FencesGranted' /\ FencedOut'
  <2>1. \A u \in Tasks : task[u].fence \in Nat /\ task'[u].fence \in Nat /\ task[u].fence <= task'[u].fence
    <3>1. \A u \in Tasks : task[u].fence \in 0..MaxInt64
      BY Zenon DEF StoreType, TaskRecords
    <3>2. MaxInt64 \in Nat
      BY AgentAssumption, Zenon
    <3> QED
      BY <1>3, <1>7, <3>1, <3>2
  <2>2. \A u \in Tasks : \A i \in 1..Len(event[u]) : event[u][i].fence \in Nat
    <3>1. \A u \in Tasks : event[u] \in Seq(EventRecords)
      BY Zenon DEF StoreType
    <3>2. \A u \in Tasks : \A i \in 1..Len(event[u]) : event[u][i] \in EventRecords
      BY <3>1
    <3> QED
      BY <3>2, Zenon DEF EventRecords
  <2>3. ASSUME NEW u \in Tasks, NEW i \in 1..Len(event[u]), event[u][i].kind \in WorkerKinds
        PROVE  event[u][i].fence <= task'[u].fence
    <3>1. event[u][i].fence <= task[u].fence
      BY <2>3, Zenon DEF FencesGranted
    <3> QED
      BY <2>1, <2>2, <3>1
  <2>4. FencesGranted'
    BY <1>1, <2>3, Zenon DEF FencesGranted
  <2>5. FencedOut'
    BY <1>1, Zenon DEF FencedOut
  <2> QED
    BY <2>4, <2>5, Zenon
<1> QED
  BY <1>6, <1>8, <1>9, <1>10, <1>11, Zenon

(* Fencing takes the owner away and nothing else.                          *)
LEMMA FenceKeeps ==
    ASSUME StoreInv, NEW c \in Commands, FenceLease(c)
    PROVE  StoreInv'
<1> DEFINE t == c.task
           R == Released(task[t])
<1> USE DEF StoreInv
<1>1. /\ task' = [task EXCEPT ![t] = R]
      /\ grant' = grant /\ event' = event /\ artifact' = artifact /\ head' = head
      /\ origin' = origin /\ receipt' = receipt
  BY Zenon DEF FenceLease
<1>2. t \in Tasks /\ c.worker \in Workers
  BY CommandFacts, Zenon
<1>3. /\ R \in TaskRecords /\ R.owner = None /\ R.fence = task[t].fence
      /\ R.state = task[t].state /\ R.revision = task[t].revision
      /\ R.messages = task[t].messages /\ R.artifact = task[t].artifact
      /\ R.fate = task[t].fate /\ R.submission = task[t].submission
  BY <1>2, ReleasedFacts, Zenon DEF StoreType
<1>4. task[t].owner # None
  BY <1>2, AgentAssumption, Zenon DEF FenceLease, CurrentLease
<1>5. task[t].state # "absent"
  BY <1>2, <1>4 DEF BlankUntilCreated, NoTask
<1> HIDE DEF R, t
<1>6. StoreType'
  BY <1>1, <1>2, <1>3, Zenon DEF StoreType
<1>7. task'[t] = R /\ \A u \in Tasks : u # t => task'[u] = task[u]
  BY <1>1, <1>2, Zenon DEF StoreType
<1>8. BlankUntilCreated'
  BY <1>3, <1>5, <1>7, Zenon DEF BlankUntilCreated
<1>9. LeaseHeadsHistory'
  BY <1>1, <1>3, <1>7 DEF LeaseHeadsHistory
<1>10. RecordsAgree'
  <2> SUFFICES ASSUME NEW u \in Tasks PROVE CountersAgree(u)' /\ ArtifactAgrees(u)'
    BY Zenon DEF RecordsAgree
  <2>1. CountersAgree(u) /\ ArtifactAgrees(u)
    BY Zenon DEF RecordsAgree
  <2>2. /\ task'[u].revision = task[u].revision /\ task'[u].messages = task[u].messages
        /\ task'[u].state = task[u].state /\ task'[u].submission = task[u].submission
        /\ task'[u].artifact = task[u].artifact /\ task'[u].fate = task[u].fate
    BY <1>3, <1>7, Zenon
  <2> QED
    BY <1>1, <2>1, <2>2, Zenon DEF CountersAgree, ArtifactAgrees
<1>11. FencesGranted' /\ FencedOut'
  BY <1>1, <1>3, <1>7 DEF FencesGranted, FencedOut
<1> QED
  BY <1>6, <1>8, <1>9, <1>10, <1>11, Zenon

(* A receipt touches only receipts and heads.                              *)
LEMMA ReceiptKeeps ==
    ASSUME StoreInv, NEW c \in Commands, RecordApplyReceipt(c)
    PROVE  StoreInv'
<1> USE DEF StoreInv
<1>1. /\ task' = task /\ event' = event /\ grant' = grant /\ artifact' = artifact
      /\ origin' = origin
  BY Zenon DEF RecordApplyReceipt
<1>2. StoreType'
  <2> DEFINE x == c.artifact
             ws == WorkspaceOf[artifact[x].task]
  <2>1. x \in Artifacts
    BY CommandFacts, Zenon DEF RecordApplyReceipt
  <2>2. ReceiptOf(c) \in ReceiptRecords
    BY CommandFacts, Zenon DEF ReceiptOf, ReceiptRecords
  <2>3. NextRevision(c.base, x) \in Revisions
    BY <2>1, CommandFacts DEF NextRevision, Revisions
  <2>4. receipt' \in [Artifacts -> ReceiptRecords]
    BY <2>1, <2>2, Zenon DEF RecordApplyReceipt, StoreType
  <2>5. head' \in [Workspaces -> Revisions]
    <3>1. head' = head \/ head' = [head EXCEPT ![ws] = NextRevision(c.base, x)]
      BY Zenon DEF RecordApplyReceipt, AdvanceHead
    <3> HIDE DEF ws, x
    <3> QED
      BY <2>3, <3>1, Zenon DEF StoreType
  <2> QED
    BY <1>1, <2>4, <2>5, Zenon DEF StoreType
<1>3. BlankUntilCreated' /\ LeaseHeadsHistory' /\ RecordsAgree'
  BY <1>1 DEF BlankUntilCreated, LeaseHeadsHistory, RecordsAgree, CountersAgree, ArtifactAgrees
<1>4. FencesGranted' /\ FencedOut'
  BY <1>1, Zenon DEF FencesGranted, FencedOut
<1> QED
  BY <1>2, <1>3, <1>4, Zenon

(* The current lease names the task's fence.                               *)
LEMMA LeaseFacts ==
    ASSUME StoreInv, NEW c \in Commands, CurrentLease(c)
    PROVE  task[c.task].fence = c.fence /\ task[c.task].owner = c.worker
BY Zenon DEF CurrentLease

(* An Artifact is frozen for one task, once.                               *)
LEMMA FreezeKeeps ==
    ASSUME StoreInv, NEW c \in Commands, FreezeArtifact(c)
    PROVE  StoreInv'
<1> DEFINE t == c.task
           x == c.artifact
           R == WithArtifact(task[t], x)
           e == EventOf(c)
           X == [state |-> "frozen", task |-> t, base |-> c.base]
           ws == WorkspaceOf[t]
<1> USE DEF StoreInv
<1>1. /\ task' = [task EXCEPT ![t] = R]
      /\ event' = [event EXCEPT ![t] = Append(event[t], e)]
      /\ artifact' = [artifact EXCEPT ![x] = X]
      /\ head' = [head EXCEPT ![ws] = c.base]
      /\ origin' = [origin EXCEPT ![ws] = IF head[ws] = <<>> THEN c.base ELSE origin[ws]]
      /\ grant' = grant /\ receipt' = receipt
  BY Zenon DEF FreezeArtifact
<1>2. t \in Tasks /\ x \in Artifacts /\ x # None /\ c.base \in Revisions /\ e \in EventRecords
  BY CommandFacts, EventFacts, AgentAssumption, Zenon DEF FreezeArtifact
<1>3. /\ R \in TaskRecords /\ R.artifact = x /\ R.fate = "frozen"
      /\ R.revision = task[t].revision + 1
      /\ R.owner = task[t].owner /\ R.fence = task[t].fence
      /\ R.state = task[t].state /\ R.messages = task[t].messages
      /\ R.submission = task[t].submission
  <2>1. task[t] \in TaskRecords /\ Countable(task[t].revision)
    BY <1>2, Zenon DEF StoreType, FreezeArtifact
  <2> HIDE DEF t, x
  <2> QED
    BY <1>2, <2>1, WithArtifactFacts, Zenon
<1>4. X \in ArtifactRecords /\ X.task = t /\ X.state = "frozen"
  BY <1>2, Zenon DEF ArtifactRecords
<1>5. task[t].state = "working" /\ task[t].artifact = None /\ artifact[x].state = "absent"
  BY Zenon DEF FreezeArtifact
<1>6. e.kind \in WorkerKinds => e.fence = task[t].fence
  BY EventFacts, LeaseFacts, Zenon DEF FreezeArtifact
<1>7. /\ Append(event[t], e) \in Seq(EventRecords)
      /\ Len(Append(event[t], e)) = Len(event[t]) + 1
      /\ Len(event[t]) \in Nat
  <2>1. event[t] \in Seq(EventRecords) /\ e \in EventRecords
    BY <1>2, Zenon DEF StoreType
  <2> HIDE DEF e, t
  <2> QED
    BY <2>1, AppendFacts
<1>8. ws \in Workspaces
  BY <1>2, AgentAssumption, Zenon
<1> HIDE DEF R, e, X, t, x, ws
<1>9. StoreType'
  BY <1>1, <1>2, <1>3, <1>4, <1>7, <1>8, Zenon DEF StoreType
<1>10. /\ task'[t] = R /\ event'[t] = Append(event[t], e)
       /\ \A u \in Tasks : u # t => task'[u] = task[u] /\ event'[u] = event[u]
       /\ artifact'[x] = X /\ \A y \in Artifacts : y # x => artifact'[y] = artifact[y]
  BY <1>1, <1>2, Zenon DEF StoreType
<1>11. BlankUntilCreated'
  BY <1>3, <1>5, <1>10, Zenon DEF BlankUntilCreated
<1>12. LeaseHeadsHistory'
  BY <1>1, <1>3, <1>10 DEF LeaseHeadsHistory
<1>13. RecordsAgree'
  <2>1. \A u \in Tasks : artifact[x].task # u
    <3>1. \A u \in Tasks : task[u].fate # "absent"
      BY Zenon DEF StoreType, TaskRecords
    <3> QED
      BY <1>2, <1>5, <3>1 DEF RecordsAgree, ArtifactAgrees
  <2>2. \A u \in Tasks : task[u].artifact # x
    <3>1. \A u \in Tasks : task[u].artifact # None => artifact[task[u].artifact].task = u
      BY Zenon DEF RecordsAgree, ArtifactAgrees
    <3> QED
      BY <1>2, <2>1, <3>1, Zenon
  <2>3. \A y \in Artifacts : artifact[y].task # t
    BY <1>2, <1>5, AgentAssumption, Zenon DEF RecordsAgree, ArtifactAgrees
  <2>4. /\ R.revision = Len(event'[t]) /\ R.messages <= R.revision
        /\ (R.state = "completed") <=> (R.submission # None)
    <3>1. task[t].messages \in 0..MaxInt64 /\ task[t].revision \in 0..MaxInt64 /\ MaxInt64 \in Nat
      BY <1>2, AgentAssumption, Zenon DEF StoreType, TaskRecords
    <3>2. /\ task[t].revision = Len(event[t]) /\ task[t].messages <= task[t].revision
          /\ (task[t].state = "completed") <=> (task[t].submission # None)
      BY <1>2, Zenon DEF RecordsAgree, CountersAgree
    <3> QED
      BY <1>3, <1>7, <1>10, <3>1, <3>2
  <2>5. ASSUME NEW u \in Tasks PROVE CountersAgree(u)' /\ ArtifactAgrees(u)'
    <3>1. CASE u = t
      <4>1. CountersAgree(u)'
        BY <1>10, <2>4, <3>1, Zenon DEF CountersAgree
      <4>2. \A y \in Artifacts : artifact'[y].task = t => y = x
        BY <1>10, <2>3, Zenon
      <4>3. ArtifactAgrees(u)'
        BY <1>2, <1>3, <1>4, <1>5, <1>10, <3>1, <4>2 DEF ArtifactAgrees
      <4> QED
        BY <4>1, <4>3, Zenon
    <3>2. CASE u # t
      <4>1. task'[u] = task[u] /\ event'[u] = event[u]
        BY <1>10, <3>2, Zenon
      <4>2. task[u].artifact # None => artifact'[task[u].artifact] = artifact[task[u].artifact]
        <5>1. task[u].artifact \in Artifacts \cup {None} /\ task[u].artifact # x
          BY <2>2, Zenon DEF StoreType, TaskRecords
        <5> QED
          BY <1>10, <5>1, Zenon
      <4>3. \A y \in Artifacts : artifact'[y].task = u => artifact'[y] = artifact[y]
        BY <1>4, <1>10, <3>2, Zenon
      <4> QED
        <5>1. CountersAgree(u) /\ ArtifactAgrees(u)
          BY Zenon DEF RecordsAgree
        <5> QED
          BY <4>1, <4>2, <4>3, <5>1, Zenon DEF CountersAgree, ArtifactAgrees
    <3> QED
      BY <3>1, <3>2, Zenon
  <2> QED
    BY <2>5, Zenon DEF RecordsAgree
<1>14. FencesGranted' /\ FencedOut'
  BY <1>1, <1>2, <1>3, <1>6, FencesKept, Zenon
<1> QED
  BY <1>9, <1>11, <1>12, <1>13, <1>14, Zenon

(* What a transition needs and where it leads.                             *)
LEMMA ChangeFacts ==
    ASSUME NEW k \in DOMAIN Change
    PROVE  /\ Change[k].next \in TaskStates
           /\ Change[k].allowed \subseteq TaskStates \ TerminalStates
           /\ Change[k].next = "completed" <=> k = "complete_task"
           /\ k \in {"cancel_task", "fail_task"} => Change[k].next \in {"canceled", "failed"}
           /\ k \notin {"complete_task", "cancel_task", "fail_task", "reject_task"} =>
                Change[k].next \in {"working", "input_required"}
           /\ k = "reject_task" => Change[k].allowed = {"submitted"}
BY DEF Change, TaskStates, TerminalStates

(* A transition moves a task and its Artifact together.                    *)
LEMMA TransitionKeeps ==
    ASSUME StoreInv, NEW c \in Commands, TransitionTask(c)
    PROVE  StoreInv'
<1> DEFINE t == c.task
           R == Advanced(task[t], c)
           e == EventOf(c)
<1> USE DEF StoreInv
<1>1. /\ task' = [task EXCEPT ![t] = R]
      /\ event' = [event EXCEPT ![t] = Append(event[t], e)]
      /\ artifact' = [x \in Artifacts |->
           IF x = task[t].artifact THEN Decided(artifact[x], c.kind) ELSE artifact[x]]
      /\ grant' = grant /\ head' = head /\ origin' = origin /\ receipt' = receipt
  BY Zenon DEF TransitionTask
<1>2. t \in Tasks /\ e \in EventRecords /\ c.ident \in IDs /\ c.ident # None
  BY CommandFacts, EventFacts, AgentAssumption, Zenon
<1>3. /\ c.kind \in DOMAIN Change /\ task[t].state \in Change[c.kind].allowed
      /\ Countable(task[t].revision) /\ task[t].messages <= task[t].revision
      /\ task[t] \in TaskRecords
  BY <1>2, Zenon DEF TransitionTask, RecordsAgree, CountersAgree, StoreType
<1>4. /\ R \in TaskRecords /\ R.state = Change[c.kind].next
      /\ R.revision = task[t].revision + 1
      /\ R.messages \in {task[t].messages, task[t].messages + 1}
      /\ R.owner = IF Change[c.kind].next \in TerminalStates THEN None ELSE task[t].owner
      /\ R.fence = task[t].fence /\ R.artifact = task[t].artifact
      /\ R.fate = Fate(c.kind, task[t].fate)
      /\ R.submission = IF c.kind = "complete_task" THEN c.ident ELSE task[t].submission
  BY <1>3, AdvancedFacts, Zenon
<1>5. e.kind \in WorkerKinds => e.fence = task[t].fence
  BY EventFacts, LeaseFacts, Zenon DEF TransitionTask
<1>6. /\ Append(event[t], e) \in Seq(EventRecords)
      /\ Len(Append(event[t], e)) = Len(event[t]) + 1
      /\ Len(event[t]) \in Nat
  BY <1>2, AppendFacts DEF StoreType
<1>7. \A x \in Artifacts : artifact'[x] \in ArtifactRecords /\ artifact'[x].task = artifact[x].task
  BY <1>1, DecidedFacts, Zenon DEF StoreType
<1>8. \A x \in Artifacts : artifact'[x].state =
        IF x = task[t].artifact THEN Fate(c.kind, artifact[x].state) ELSE artifact[x].state
  BY <1>1, DecidedFacts, Zenon DEF StoreType
<1> HIDE DEF R, e, t
<1>9. StoreType'
  <2>1. artifact' \in [Artifacts -> ArtifactRecords]
    BY <1>1, <1>7, Zenon
  <2> QED
    BY <1>1, <1>2, <1>4, <1>6, <2>1, Zenon DEF StoreType
<1>10. /\ task'[t] = R /\ event'[t] = Append(event[t], e)
       /\ \A u \in Tasks : u # t => task'[u] = task[u] /\ event'[u] = event[u]
  BY <1>1, <1>2, Zenon DEF StoreType
<1>11. BlankUntilCreated'
  <2>1. R.state # "absent"
    BY <1>3, <1>4, ChangeFacts, Zenon DEF TaskStates
  <2> QED
    BY <1>10, <2>1, Zenon DEF BlankUntilCreated
<1>12. LeaseHeadsHistory'
  <2>1. R.state \in TaskStates
    BY <1>3, <1>4, ChangeFacts, Zenon
  <2>2. R.owner # None => R.owner = task[t].owner /\ R.state \in TaskStates \ TerminalStates
    BY <1>4, <2>1, Zenon
  <2>3. /\ R.fence = Len(grant[t])
        /\ R.owner # None => R.fence # 0 /\ R.owner = grant[t][R.fence].worker
    BY <1>2, <1>4, <2>2, Zenon DEF LeaseHeadsHistory
  <2> QED
    BY <1>1, <1>10, <2>2, <2>3 DEF LeaseHeadsHistory
<1>13. RecordsAgree'
  <2>1. /\ R.revision = Len(event'[t]) /\ R.messages <= R.revision
    <3>1. task[t].messages \in 0..MaxInt64 /\ task[t].revision \in 0..MaxInt64 /\ MaxInt64 \in Nat
      BY <1>3, AgentAssumption, Zenon DEF TaskRecords
    <3>2. task[t].revision = Len(event[t]) /\ task[t].messages <= task[t].revision
      BY <1>2, Zenon DEF RecordsAgree, CountersAgree
    <3> QED
      BY <1>4, <1>6, <1>10, <3>1, <3>2
  <2>2. (R.state = "completed") <=> (R.submission # None)
    <3>1. task[t].state # "completed"
      BY <1>3, ChangeFacts DEF TerminalStates
    <3>2. task[t].submission = None
      BY <1>2, <3>1, Zenon DEF RecordsAgree, CountersAgree
    <3> QED
      <4>1. Change[c.kind].next = "completed" <=> c.kind = "complete_task"
        BY <1>3, ChangeFacts, Zenon
      <4> QED
        BY <1>2, <1>4, <3>2, <4>1, Zenon
  <2>3. /\ (task[t].artifact = None) <=> (task[t].fate = "none")
        /\ task[t].fate = "frozen" => task[t].state \in {"working", "input_required"}
        /\ task[t].fate \in {"none", "frozen"}
    <3>1. task[t].fate \in {"none", "frozen", "published", "discarded"}
      BY <1>3, Zenon DEF TaskRecords
    <3>2. task[t].state \notin TerminalStates
      BY <1>3, ChangeFacts, Zenon
    <3> QED
      BY <1>2, <3>1, <3>2, Zenon DEF RecordsAgree, ArtifactAgrees, TerminalStates
  <2>4. /\ (R.artifact = None) <=> (R.fate = "none")
        /\ R.fate = "frozen" => R.state \in {"working", "input_required"}
        /\ R.fate = "published" => R.state = "completed"
        /\ R.fate = "discarded" => R.state \in {"canceled", "failed"}
    BY <1>3, <1>4, <2>3, ChangeFacts DEF Fate
  <2>5. ASSUME NEW u \in Tasks PROVE CountersAgree(u)' /\ ArtifactAgrees(u)'
    <3>1. CASE u = t
      <4>1. R.artifact # None => artifact'[R.artifact].task = t
        <5>1. task[t].artifact \in Artifacts \cup {None}
          BY <1>3, Zenon DEF TaskRecords
        <5> QED
          BY <1>2, <1>4, <1>7, <5>1, Zenon DEF RecordsAgree, ArtifactAgrees
      <4>2. \A x \in Artifacts : artifact'[x].task = t => x = R.artifact /\ artifact'[x].state = R.fate
        <5>1. \A x \in Artifacts : artifact[x].task = t =>
                x = task[t].artifact /\ artifact[x].state = task[t].fate
          BY <1>2, Zenon DEF RecordsAgree, ArtifactAgrees
        <5> QED
          BY <1>4, <1>7, <1>8, <5>1, Zenon
      <4> QED
        BY <1>10, <2>1, <2>2, <2>4, <3>1, <4>1, <4>2, Zenon DEF CountersAgree, ArtifactAgrees
    <3>2. CASE u # t
      <4>1. task'[u] = task[u] /\ event'[u] = event[u]
        BY <1>10, <3>2, Zenon
      <4>2. task[u].artifact # None => artifact'[task[u].artifact].task = artifact[task[u].artifact].task
        <5>1. task[u].artifact \in Artifacts \cup {None}
          BY Zenon DEF StoreType, TaskRecords
        <5> QED
          BY <1>7, <5>1, Zenon
      <4>3. \A x \in Artifacts : artifact[x].task = u => artifact'[x].state = artifact[x].state
        <5>1. \A x \in Artifacts : x = task[t].artifact => artifact[x].task = t
          <6>1. task[t].artifact # None => artifact[task[t].artifact].task = t
            BY <1>2, Zenon DEF RecordsAgree, ArtifactAgrees
          <6> QED
            BY <6>1, AgentAssumption, Zenon
        <5> QED
          BY <1>8, <3>2, <5>1, Zenon
      <4>4. /\ task[u].artifact # None => artifact'[task[u].artifact].task = u
            /\ \A x \in Artifacts : artifact'[x].task = u =>
                 x = task[u].artifact /\ artifact'[x].state = task[u].fate
        <5>1. ArtifactAgrees(u)
          BY Zenon DEF RecordsAgree
        <5> QED
          BY <1>7, <4>2, <4>3, <5>1, Zenon DEF ArtifactAgrees
      <4>5. CountersAgree(u) /\ ArtifactAgrees(u)
        BY Zenon DEF RecordsAgree
      <4> QED
        BY <4>1, <4>4, <4>5, Zenon DEF CountersAgree, ArtifactAgrees
    <3> QED
      BY <3>1, <3>2, Zenon
  <2> QED
    BY <2>5, Zenon DEF RecordsAgree
<1>14. FencesGranted' /\ FencedOut'
  BY <1>1, <1>2, <1>4, <1>5, FencesKept, Zenon
<1> QED
  BY <1>9, <1>11, <1>12, <1>13, <1>14, Zenon

(* Every command keeps the records in order.                               *)
LEMMA ExecuteKeeps ==
    ASSUME StoreInv, NEW c \in Commands, Execute(c)
    PROVE  StoreInv'
BY CreateKeeps, TransitionKeeps, FreezeKeeps, ReceiptKeeps, GrantKeeps, FenceKeeps, CommandFacts, Zenon
   DEF Execute, AcquireLease, ClaimLease

(* The same command again, or nothing, changes no record.                  *)
LEMMA StoreKept ==
    ASSUME StoreInv, UNCHANGED store
    PROVE  StoreInv'
<1> USE DEF store, StoreInv
<1>1. StoreType' /\ BlankUntilCreated' /\ LeaseHeadsHistory'
  BY Zenon DEF StoreType, BlankUntilCreated, LeaseHeadsHistory
<1>2. RecordsAgree' /\ FencesGranted' /\ FencedOut'
  BY Zenon DEF RecordsAgree, CountersAgree, ArtifactAgrees, FencesGranted, FencedOut
<1> QED
  BY <1>1, <1>2, Zenon
-----------------------------------------------------------------------------
(* The command records                                                     *)

GrantOf(c) == [worker |-> c.worker, by |-> c.id]

(* A command adds at most one event or one grant, to the task its record   *)
(* will name.                                                              *)
Traced(c, t) ==
    \/ event' = [event EXCEPT ![t] = Append(event[t], EventOf(c))] /\ grant' = grant
    \/ grant' = [grant EXCEPT ![t] = Append(grant[t], GrantOf(c))] /\ event' = event
    \/ event' = event /\ grant' = grant

(* A claim's record names the task it leased: it is the only one with a    *)
(* new grant.                                                              *)
LEMMA ClaimNamesTask ==
    ASSUME StoreInv, NEW c \in Commands, ClaimLease(c)
    PROVE  \E t \in Tasks : Outcome(c).task = t /\ GrantLease(c, t)
<1>1. PICK t \in Tasks : GrantLease(c, t)
  BY Zenon DEF ClaimLease
<1>2. GrantOf(c) \in GrantRecords
  BY CommandFacts, Zenon DEF GrantOf, GrantRecords
<1>3. grant' = [grant EXCEPT ![t] = Append(grant[t], GrantOf(c))]
  BY <1>1, Zenon DEF GrantLease, GrantOf
<1>4. grant \in [Tasks -> Seq(GrantRecords)]
  BY Zenon DEF StoreInv, StoreType
<1>5. Append(grant[t], GrantOf(c)) # grant[t]
  <2>1. /\ Len(grant[t]) \in Nat
        /\ Len(Append(grant[t], GrantOf(c))) = Len(grant[t]) + 1
    BY <1>2, <1>4, AppendFacts
  <2> QED
    BY <2>1
<1>6. \A u \in Tasks : grant'[u] # grant[u] <=> u = t
  BY <1>3, <1>4, <1>5, Zenon
<1>7. (CHOOSE u \in Tasks : grant'[u] # grant[u]) = t
  BY <1>6, Zenon
<1>8. c.kind = "claim_lease"
  BY Zenon DEF ClaimLease
<1> QED
  BY <1>1, <1>7, <1>8, Zenon DEF Outcome

(* What a command records is a well-formed outcome that names the task it  *)
(* has left a trace on.                                                    *)
LEMMA ExecuteTraced ==
    ASSUME StoreInv, NEW c \in Commands, Execute(c)
    PROVE  /\ Outcome(c) \in Outcomes /\ Outcome(c) # None
           /\ Outcome(c).intent = c /\ Outcome(c).task \in Tasks
           /\ Traced(c, Outcome(c).task)
<1> DEFINE t == Outcome(c).task
<1>1. t \in Tasks /\ Traced(c, t)
  <2>1. CASE ClaimLease(c)
    <3>1. PICK u \in Tasks : t = u /\ GrantLease(c, u)
      BY <2>1, ClaimNamesTask, Zenon
    <3> QED
      BY <3>1, Zenon DEF Traced, GrantLease, GrantOf
  <2>2. c.kind # "claim_lease" => t = c.task /\ t \in Tasks
    BY CommandFacts, Zenon DEF Outcome
  <2> HIDE DEF t
  <2>3. CASE CreateTask(c)
    <3>1. t = c.task /\ t \in Tasks
      BY <2>2, <2>3, Zenon DEF CreateTask
    <3>2. task[t].revision = 0
      BY <2>3, <3>1 DEF CreateTask, StoreInv, BlankUntilCreated, NoTask
    <3>3. Len(event[t]) = 0 /\ event[t] \in Seq(EventRecords)
      BY <3>1, <3>2, Zenon DEF StoreInv, StoreType, RecordsAgree, CountersAgree
    <3>4. event[t] = <<>>
      BY <3>3
    <3>5. Append(event[t], EventOf(c)) = <<EventOf(c)>>
      BY <3>4
    <3> QED
      BY <2>3, <3>1, <3>5, Zenon DEF CreateTask, Traced
  <2>4. CASE TransitionTask(c)
    <3>1. c.kind # "claim_lease"
      BY <2>4, Zenon DEF TransitionTask, Change
    <3> QED
      BY <2>2, <2>4, <3>1, Zenon DEF TransitionTask, Traced
  <2>5. CASE FreezeArtifact(c)
    BY <2>2, <2>5, Zenon DEF FreezeArtifact, Traced
  <2>6. CASE RecordApplyReceipt(c)
    BY <2>2, <2>6, Zenon DEF RecordApplyReceipt, Traced
  <2>7. CASE AcquireLease(c)
    BY <2>2, <2>7, Zenon DEF AcquireLease, GrantLease, GrantOf, Traced
  <2>8. CASE FenceLease(c)
    BY <2>2, <2>8, Zenon DEF FenceLease, Traced
  <2> QED
    BY <2>1, <2>3, <2>4, <2>5, <2>6, <2>7, <2>8, Zenon DEF Execute
<1>2. task' \in [Tasks -> TaskRecords]
  BY ExecuteKeeps, Zenon DEF StoreInv, StoreType
<1>3. ReceiptOf(c) \in ReceiptRecords /\ c \in CommandRecords
  BY CommandFacts, Zenon DEF ReceiptOf, ReceiptRecords
<1>4. Outcome(c) = [intent |-> c, task |-> t,
                    result |-> IF c.kind = "record_apply_receipt" THEN ReceiptOf(c) ELSE task'[t]]
  BY DEF Outcome
<1> HIDE DEF t
<1>5. Outcome(c) \in Outcomes
  BY <1>1, <1>2, <1>3, <1>4 DEF Outcomes
<1>6. Outcome(c).intent = c
  BY <1>4
<1>7. Outcome(c) # None
  BY <1>5, AgentAssumption, Zenon
<1> QED
  BY <1>1, <1>5, <1>6, <1>7, Zenon DEF t

(* An id in a trace is a recorded id, so an unused one is in none.         *)
LEMMA UnusedUntraced ==
    ASSUME StoreInv, ExecutedOnce, NEW id, command[id] = None, NEW t \in Tasks
    PROVE  /\ \A i \in 1..Len(event[t]) : event[t][i].by \in IDs /\ event[t][i].by # id
           /\ \A i \in 1..Len(grant[t]) : grant[t][i].by \in IDs /\ grant[t][i].by # id
<1>1. event[t] \in Seq(EventRecords) /\ grant[t] \in Seq(GrantRecords)
  BY Zenon DEF StoreInv, StoreType
<1>2. \A i \in 1..Len(event[t]) : event[t][i] \in EventRecords
  BY <1>1
<1>3. \A i \in 1..Len(grant[t]) : grant[t][i] \in GrantRecords
  BY <1>1
<1>4. \A i \in 1..Len(event[t]) : event[t][i].by \in IDs
  BY <1>2, Zenon DEF EventRecords
<1>5. \A i \in 1..Len(grant[t]) : grant[t][i].by \in IDs
  BY <1>3, Zenon DEF GrantRecords
<1> QED
  BY <1>4, <1>5, Zenon DEF ExecutedOnce, TracedOnce, Recorded

(* A command under an unused id leaves the only trace of that id.          *)
LEMMA PerformOnce ==
    ASSUME StoreInv, TypeOK, ExecutedOnce, NEW c \in Commands, Perform(c)
    PROVE  ExecutedOnce'
<1> DEFINE t == Outcome(c).task
           O == Outcome(c)
<1>1. /\ O # None /\ t \in Tasks /\ Traced(c, t) /\ c.id \in IDs
      /\ command[c.id] = None
      /\ command' = [command EXCEPT ![c.id] = O]
  BY ExecuteTraced, CommandFacts, Zenon DEF Perform, Unused
<1>2. /\ command'[c.id] # None /\ command'[c.id].task = t
      /\ \A id \in IDs : id # c.id => command'[id] = command[id]
  BY <1>1, Zenon DEF TypeOK
<1>3. /\ EventOf(c) \in EventRecords /\ EventOf(c).by = c.id
      /\ GrantOf(c) \in GrantRecords /\ GrantOf(c).by = c.id
  BY EventFacts, CommandFacts, Zenon DEF GrantOf, GrantRecords
<1>4. \A u \in Tasks :
        /\ \A i \in 1..Len(event[u]) : event[u][i].by \in IDs /\ event[u][i].by # c.id
        /\ \A i \in 1..Len(grant[u]) : grant[u][i].by \in IDs /\ grant[u][i].by # c.id
  BY <1>1, UnusedUntraced, Zenon
<1>5. \A u \in Tasks : event[u] \in Seq(EventRecords) /\ grant[u] \in Seq(GrantRecords)
  BY Zenon DEF StoreInv, StoreType
<1>6. event \in [Tasks -> Seq(EventRecords)] /\ grant \in [Tasks -> Seq(GrantRecords)]
  BY Zenon DEF StoreInv, StoreType
<1> HIDE DEF t, O
<1> DEFINE Old(s, s1, i) == i \in 1..Len(s) /\ s1[i] = s[i]
           New(s, s1, i) == i = Len(s) + 1 /\ s1[i].by = c.id
<1>7. \A u \in Tasks :
        /\ \A i \in 1..Len(event'[u]) :
             Old(event[u], event'[u], i) \/ (New(event[u], event'[u], i) /\ u = t /\ grant' = grant)
        /\ \A i \in 1..Len(grant'[u]) :
             Old(grant[u], grant'[u], i) \/ (New(grant[u], grant'[u], i) /\ u = t /\ event' = event)
  <2> TAKE u \in Tasks
  <2>1. CASE event' = [event EXCEPT ![t] = Append(event[t], EventOf(c))] /\ grant' = grant
    <3>1. CASE u = t
      <4>1. event'[u] = Append(event[u], EventOf(c)) /\ grant'[u] = grant[u]
        BY <1>6, <2>1, <3>1, Zenon
      <4>2. /\ Len(event[u]) \in Nat /\ Len(event'[u]) = Len(event[u]) + 1
            /\ \A i \in 1..Len(event[u]) : event'[u][i] = event[u][i]
            /\ event'[u][Len(event[u]) + 1] = EventOf(c)
        BY <1>3, <1>5, <4>1, AppendFacts
      <4>3. \A i \in 1..Len(event'[u]) : i \in 1..Len(event[u]) \/ i = Len(event[u]) + 1
        BY <4>2
      <4> QED
        BY <1>3, <2>1, <3>1, <4>1, <4>2, <4>3, Zenon
    <3>2. CASE u # t
      BY <1>6, <2>1, <3>2, Zenon
    <3> QED
      BY <3>1, <3>2, Zenon
  <2>2. CASE grant' = [grant EXCEPT ![t] = Append(grant[t], GrantOf(c))] /\ event' = event
    <3>1. CASE u = t
      <4>1. grant'[u] = Append(grant[u], GrantOf(c)) /\ event'[u] = event[u]
        BY <1>6, <2>2, <3>1, Zenon
      <4>2. /\ Len(grant[u]) \in Nat /\ Len(grant'[u]) = Len(grant[u]) + 1
            /\ \A i \in 1..Len(grant[u]) : grant'[u][i] = grant[u][i]
            /\ grant'[u][Len(grant[u]) + 1] = GrantOf(c)
        BY <1>3, <1>5, <4>1, AppendFacts
      <4>3. \A i \in 1..Len(grant'[u]) : i \in 1..Len(grant[u]) \/ i = Len(grant[u]) + 1
        BY <4>2
      <4> QED
        BY <1>3, <2>2, <3>1, <4>1, <4>2, <4>3, Zenon
    <3>2. CASE u # t
      BY <1>6, <2>2, <3>2, Zenon
    <3> QED
      BY <3>1, <3>2
  <2>3. CASE event' = event /\ grant' = grant
    BY <2>3, Zenon
  <2> QED
    BY <1>1, <2>1, <2>2, <2>3, Zenon DEF Traced
<1> DEFINE Apart(u) == \A i \in 1..Len(event[u]), j \in 1..Len(grant[u]) :
                          event[u][i].by # grant[u][j].by
<1>0. \A u \in Tasks : Apart(u)
  BY Zenon DEF ExecutedOnce, TracedOnce
<1>8. \A u \in Tasks :
        /\ \A i \in 1..Len(event[u]) :
             /\ command[event[u][i].by] # None /\ command[event[u][i].by].task = u
             /\ \A j \in 1..Len(event[u]) : event[u][i].by = event[u][j].by => i = j
             /\ \A j \in 1..Len(grant[u]) : event[u][i].by # grant[u][j].by
        /\ \A i \in 1..Len(grant[u]) :
             /\ command[grant[u][i].by] # None /\ command[grant[u][i].by].task = u
             /\ \A j \in 1..Len(grant[u]) : grant[u][i].by = grant[u][j].by => i = j
  BY Zenon DEF ExecutedOnce, TracedOnce, Recorded
<1>9. ASSUME NEW u \in Tasks, NEW i \in 1..Len(event'[u])
      PROVE  /\ command'[event'[u][i].by] # None /\ command'[event'[u][i].by].task = u
             /\ \A j \in 1..Len(event'[u]) : event'[u][i].by = event'[u][j].by => i = j
             /\ \A j \in 1..Len(grant'[u]) : event'[u][i].by # grant'[u][j].by
  <2>1. command'[event'[u][i].by] # None /\ command'[event'[u][i].by].task = u
    <3>1. CASE Old(event[u], event'[u], i)
      <4>1. event[u][i].by \in IDs /\ event[u][i].by # c.id
        BY <1>4, <3>1, Zenon
      <4>2. command[event[u][i].by] # None /\ command[event[u][i].by].task = u
        BY <1>8, <3>1, Zenon
      <4> QED
        BY <1>2, <3>1, <4>1, <4>2, Zenon
    <3>2. CASE New(event[u], event'[u], i) /\ u = t
      BY <1>2, <3>2, Zenon
    <3> QED
      BY <1>7, <3>1, <3>2, Zenon
  <2>2. ASSUME NEW j \in 1..Len(event'[u]), event'[u][i].by = event'[u][j].by PROVE i = j
    <3>1. CASE Old(event[u], event'[u], i) /\ Old(event[u], event'[u], j)
      <4>1. event[u][i].by = event[u][j].by => i = j
        BY <1>8, <3>1, Zenon
      <4> QED
        BY <2>2, <3>1, <4>1, Zenon
    <3>2. CASE New(event[u], event'[u], i) /\ New(event[u], event'[u], j)
      BY <3>2, Zenon
    <3>3. CASE Old(event[u], event'[u], i) /\ New(event[u], event'[u], j)
      BY <1>4, <2>2, <3>3, Zenon
    <3>4. CASE New(event[u], event'[u], i) /\ Old(event[u], event'[u], j)
      BY <1>4, <2>2, <3>4, Zenon
    <3> QED
      BY <1>7, <3>1, <3>2, <3>3, <3>4, Zenon
  <2>3. ASSUME NEW j \in 1..Len(grant'[u]) PROVE event'[u][i].by # grant'[u][j].by
    <3>1. CASE Old(event[u], event'[u], i) /\ Old(grant[u], grant'[u], j)
      <4>1. i \in 1..Len(event[u]) /\ j \in 1..Len(grant[u])
        BY <3>1, Zenon
      <4>2. event[u][i].by # grant[u][j].by
        BY <1>0, <4>1, Zenon
      <4> QED
        BY <3>1, <4>2, Zenon
    <3>2. CASE New(event[u], event'[u], i) /\ grant' = grant
      BY <1>4, <3>2, Zenon
    <3>3. CASE New(grant[u], grant'[u], j) /\ event' = event
      BY <1>4, <3>3, Zenon
    <3> QED
      BY <1>7, <3>1, <3>2, <3>3, Zenon
  <2> QED
    BY <2>1, <2>2, <2>3, Zenon
<1>10. ASSUME NEW u \in Tasks, NEW i \in 1..Len(grant'[u])
       PROVE  /\ command'[grant'[u][i].by] # None /\ command'[grant'[u][i].by].task = u
              /\ \A j \in 1..Len(grant'[u]) : grant'[u][i].by = grant'[u][j].by => i = j
  <2>1. command'[grant'[u][i].by] # None /\ command'[grant'[u][i].by].task = u
    <3>1. CASE Old(grant[u], grant'[u], i)
      <4>1. grant[u][i].by \in IDs /\ grant[u][i].by # c.id
        BY <1>4, <3>1, Zenon
      <4>2. command[grant[u][i].by] # None /\ command[grant[u][i].by].task = u
        BY <1>8, <3>1, Zenon
      <4> QED
        BY <1>2, <3>1, <4>1, <4>2, Zenon
    <3>2. CASE New(grant[u], grant'[u], i) /\ u = t
      BY <1>2, <3>2, Zenon
    <3> QED
      BY <1>7, <3>1, <3>2, Zenon
  <2>2. ASSUME NEW j \in 1..Len(grant'[u]), grant'[u][i].by = grant'[u][j].by PROVE i = j
    <3>1. CASE Old(grant[u], grant'[u], i) /\ Old(grant[u], grant'[u], j)
      <4>1. grant[u][i].by = grant[u][j].by => i = j
        BY <1>8, <3>1, Zenon
      <4> QED
        BY <2>2, <3>1, <4>1
    <3>2. CASE New(grant[u], grant'[u], i) /\ New(grant[u], grant'[u], j)
      BY <3>2
    <3>3. CASE Old(grant[u], grant'[u], i) /\ New(grant[u], grant'[u], j)
      BY <1>4, <2>2, <3>3, Zenon
    <3>4. CASE New(grant[u], grant'[u], i) /\ Old(grant[u], grant'[u], j)
      BY <1>4, <2>2, <3>4, Zenon
    <3> QED
      BY <1>7, <3>1, <3>2, <3>3, <3>4, Zenon
  <2> QED
    BY <2>1, <2>2, Zenon
<1> QED
  BY <1>9, <1>10, Zenon DEF ExecutedOnce, TracedOnce, Recorded

(* An answer is the command record it was read from.                       *)
AnswersRecorded ==
    \A a \in answered : a.intent.id \in IDs /\ a # None /\ command[a.intent.id] = a

(* The inductive invariant.                                                *)
IInv == TypeOK /\ StoreInv /\ ExecutedOnce /\ AnswersRecorded

(* The empty store satisfies it.                                           *)
LEMMA InitIInv == Init => IInv
<1> SUFFICES ASSUME Init PROVE IInv
  BY Zenon
<1> USE DEF Init
<1>1. 0 \in 0..MaxInt64
  BY AgentAssumption
<1>2. NoTask \in TaskRecords
  BY <1>1, Zenon DEF NoTask, TaskRecords
<1>3. <<>> \in Revisions /\ NoArtifact \in ArtifactRecords /\ NoReceipt \in ReceiptRecords
  <2>1. <<>> \in Revisions
    BY DEF Revisions
  <2>2. NoArtifact \in ArtifactRecords
    BY <2>1, Zenon DEF NoArtifact, ArtifactRecords
  <2>3. NoReceipt \in ReceiptRecords
    BY Zenon DEF NoReceipt, ReceiptRecords
  <2> QED
    BY <2>1, <2>2, <2>3, Zenon
<1>4. TypeOK
  BY <1>2, <1>3 DEF TypeOK
<1>5. StoreType /\ BlankUntilCreated
  BY <1>4, Zenon DEF TypeOK, StoreType, BlankUntilCreated
<1>6. \A t \in Tasks : Len(event[t]) = 0 /\ Len(grant[t]) = 0
  BY Zenon
<1>7. LeaseHeadsHistory
  BY <1>6, Zenon DEF LeaseHeadsHistory, NoTask
<1>8. RecordsAgree
  <2>1. \A t \in Tasks :
          /\ task[t].state = "absent" /\ task[t].revision = 0 /\ task[t].messages = 0
          /\ task[t].submission = None /\ task[t].artifact = None /\ task[t].fate = "none"
    BY Zenon DEF NoTask
  <2>2. \A t \in Tasks, x \in Artifacts : artifact[x].task # t
    BY AgentAssumption, Zenon DEF NoArtifact
  <2> HIDE DEF Init
  <2>3. \A t \in Tasks : CountersAgree(t)
    <3> TAKE t \in Tasks
    <3>1. task[t].revision = Len(event[t])
      BY <1>6, <2>1, Zenon
    <3>2. task[t].messages <= task[t].revision
      BY <2>1
    <3>3. task[t].state # "completed" /\ task[t].submission = None
      BY <2>1, Zenon
    <3> QED
      BY <3>1, <3>2, <3>3, Zenon DEF CountersAgree
  <2>4. \A t \in Tasks : ArtifactAgrees(t)
    BY <2>1, <2>2, Zenon DEF ArtifactAgrees
  <2> QED
    BY <2>3, <2>4, Zenon DEF RecordsAgree
<1>9. FencesGranted /\ FencedOut /\ ExecutedOnce
  BY <1>6 DEF FencesGranted, FencedOut, ExecutedOnce, TracedOnce
<1> QED
  BY <1>4, <1>5, <1>7, <1>8, <1>9, Zenon DEF IInv, StoreInv, AnswersRecorded

(* A first execution keeps it.                                             *)
LEMMA PerformKeeps ==
    ASSUME IInv, NEW c \in Commands, Perform(c)
    PROVE  IInv'
<1> USE DEF IInv
<1> DEFINE O == Outcome(c)
<1>1. Execute(c)
  BY Zenon DEF Perform
<1>2. /\ O \in Outcomes /\ O # None /\ O.intent = c /\ c.id \in IDs
      /\ command[c.id] = None
      /\ command' = [command EXCEPT ![c.id] = O]
      /\ answered' = answered \/ answered' = answered \cup {command'[c.id]}
  BY <1>1, ExecuteTraced, CommandFacts, Zenon DEF Perform, Unused, Answer
<1> HIDE DEF O
<1>3. StoreInv'
  BY <1>1, ExecuteKeeps, Zenon
<1>4. command' \in [IDs -> Outcomes \cup {None}]
  BY <1>2, Zenon DEF TypeOK
<1>5. TypeOK'
  BY <1>3, <1>4, Zenon DEF TypeOK, StoreInv, StoreType
<1>6. ExecutedOnce'
  BY PerformOnce, Zenon
<1>7. command'[c.id] = O /\ \A id \in IDs : id # c.id => command'[id] = command[id]
  BY <1>2, Zenon DEF TypeOK
<1>8. AnswersRecorded'
  <2>1. \A a \in answered : a.intent.id # c.id
    BY <1>2, Zenon DEF AnswersRecorded
  <2> QED
    BY <1>2, <1>7, <2>1 DEF AnswersRecorded
<1> QED
  BY <1>3, <1>5, <1>6, <1>8, Zenon

(* A replay, and a step of somebody else, keep it.                         *)
LEMMA NextKeeps ==
    ASSUME IInv, [Next]_vars
    PROVE  IInv'
<1> USE DEF IInv
<1>1. ASSUME UNCHANGED <<store, command>>,
             answered' = answered \/ \E c \in Commands : Replay(c)
      PROVE  IInv'
  <2>1. StoreInv'
    BY <1>1, StoreKept, Zenon
  <2>2. TypeOK' /\ ExecutedOnce'
    <3>1. /\ task' = task /\ event' = event /\ grant' = grant /\ artifact' = artifact
          /\ head' = head /\ origin' = origin /\ receipt' = receipt /\ command' = command
      BY <1>1, Zenon DEF store
    <3>2. TypeOK'
      BY <3>1, Zenon DEF TypeOK
    <3>3. ExecutedOnce'
      <4>1. ASSUME NEW t \in Tasks PROVE TracedOnce(t)'
        <5>1. TracedOnce(t)
          BY Zenon DEF ExecutedOnce
        <5> QED
          BY <3>1, <5>1, Zenon DEF TracedOnce, Recorded
      <4> QED
        BY <4>1, Zenon DEF ExecutedOnce
    <3> QED
      BY <3>2, <3>3, Zenon
  <2>3. \A a \in answered' \ answered :
          \E c \in Commands : a = command[c.id] /\ a # None /\ a.intent = c
    BY <1>1, Zenon DEF Replay, Answer
  <2>4. \A a \in answered' : a.intent.id \in IDs /\ a # None /\ command[a.intent.id] = a
    BY <2>3, CommandFacts, Zenon DEF AnswersRecorded
  <2>5. AnswersRecorded'
    BY <1>1, <2>4, Zenon DEF AnswersRecorded
  <2> QED
    BY <2>1, <2>2, <2>5, Zenon
<1>2. CASE \E c \in Commands : Perform(c)
  BY <1>2, PerformKeeps, Zenon
<1>3. CASE \E c \in Commands : Replay(c)
  <2>1. UNCHANGED <<store, command>>
    BY <1>3, Zenon DEF Replay
  <2> QED
    BY <1>1, <1>3, <2>1, Zenon
<1>4. CASE UNCHANGED vars
  BY <1>1, <1>4, Zenon DEF vars
<1> QED
  BY <1>2, <1>3, <1>4, Zenon DEF Next

(* The invariant holds in every behaviour of the ledger.                   *)
LEMMA Inductive == Spec => []IInv
<1>1. Init => IInv
  BY InitIInv, Zenon
<1>2. IInv /\ [Next]_vars => IInv'
  BY NextKeeps, Zenon
<1> QED
  BY <1>1, <1>2, PTL DEF Spec
-----------------------------------------------------------------------------
(* Every record the package agent commits keeps its Go type; no revision,  *)
(* message count or fence passes MaxInt64.                                 *)
THEOREM TypeCorrect == Spec => []TypeOK
<1>1. IInv => TypeOK
  BY Zenon DEF IInv
<1> QED
  BY <1>1, Inductive, PTL

(* The lease pointer heads the grant history and only an unfinished task   *)
(* has an owner, whatever AcquireLease, ClaimLease, FenceLease and the     *)
(* transitions do in whatever order.                                       *)
THEOREM LeasesHeadHistory == Spec => []LeaseHeadsHistory
<1>1. IInv => LeaseHeadsHistory
  BY Zenon DEF IInv, StoreInv
<1> QED
  BY <1>1, Inductive, PTL

(* A task's counters, its events, its submission and its Artifact's record *)
(* never disagree, so the validations on read never find a corrupt store.  *)
THEOREM RecordsNeverDisagree == Spec => []RecordsAgree
<1>1. IInv => RecordsAgree
  BY Zenon DEF IInv, StoreInv
<1> QED
  BY <1>1, Inductive, PTL

(* requireCurrentLease fences retired grants out for good.                 *)
THEOREM RetiredGrantsFencedOut == Spec => []FencedOut
<1>1. IInv => FencedOut
  BY Zenon DEF IInv, StoreInv
<1> QED
  BY <1>1, Inductive, PTL

(* Looking the id up and recording it in the transaction that executes the *)
(* command executes every command at most once.                            *)
THEOREM CommandsExecutedOnce == Spec => []ExecutedOnce
<1>1. IInv => ExecutedOnce
  BY Zenon DEF IInv
<1> QED
  BY <1>1, Inductive, PTL

(* All answers to one command id are equal, first ones and replays.        *)
THEOREM AnswersNeverDiffer == Spec => []AnswersAgree
<1>1. IInv => AnswersAgree
  BY Zenon DEF IInv, AnswersRecorded, AnswersAgree
<1> QED
  BY <1>1, Inductive, PTL

(* The durable core's promise as one invariant: leases head their history, *)
(* records agree, retired grants are fenced out, and every command is      *)
(* executed once and answered alike, for every number of tasks, workers,   *)
(* Artifacts and commands.                                                 *)
THEOREM CommandsCorrect == Spec => []CommandsAreSound
BY TypeCorrect, LeasesHeadHistory, RecordsNeverDisagree, RetiredGrantsFencedOut,
   CommandsExecutedOnce, AnswersNeverDiffer, PTL DEF CommandsAreSound

(* No command touches a finished task, a decided Artifact or its receipt.  *)
LEMMA ExecuteFinal ==
    ASSUME IInv, NEW c \in Commands, Execute(c)
    PROVE  FinalStep
<1> USE DEF IInv, StoreInv
<1>1. CASE CreateTask(c)
  <2>1. c.task \in Tasks /\ task[c.task].state \notin TerminalStates
    BY <1>1, CommandFacts, Zenon DEF CreateTask, TerminalStates
  <2> QED
    BY <1>1, <2>1, Zenon DEF CreateTask, FinalStep, StoreType
<1>2. CASE TransitionTask(c)
  <2>1. c.task \in Tasks /\ task[c.task].state \notin TerminalStates
    BY <1>2, CommandFacts, ChangeFacts DEF TransitionTask
  <2>2. \A u \in Tasks : u # c.task => task'[u] = task[u] /\ event'[u] = event[u]
    BY <1>2, Zenon DEF TransitionTask, StoreType
  <2>3. grant' = grant /\ receipt' = receipt
    BY <1>2, Zenon DEF TransitionTask
  <2>4. \A x \in Artifacts :
          artifact'[x] = IF x = task[c.task].artifact THEN Decided(artifact[x], c.kind) ELSE artifact[x]
    BY <1>2, Zenon DEF TransitionTask
  <2>5. \A x \in Artifacts : artifact[x].state # "frozen" => artifact'[x] = artifact[x]
    BY <2>4, DecidedFacts, Zenon DEF StoreType
  <2> QED
    BY <2>1, <2>2, <2>3, <2>5, Zenon DEF FinalStep
<1>3. CASE FreezeArtifact(c)
  <2>1. c.task \in Tasks /\ task[c.task].state \notin TerminalStates
    BY <1>3, CommandFacts, Zenon DEF FreezeArtifact, TerminalStates
  <2>2. \A u \in Tasks : u # c.task => task'[u] = task[u] /\ event'[u] = event[u]
    BY <1>3, Zenon DEF FreezeArtifact, StoreType
  <2>3. grant' = grant /\ receipt' = receipt /\ artifact[c.artifact].state = "absent"
    BY <1>3, Zenon DEF FreezeArtifact
  <2>4. \A x \in Artifacts : x # c.artifact => artifact'[x] = artifact[x]
    BY <1>3, Zenon DEF FreezeArtifact, StoreType
  <2> QED
    BY <2>1, <2>2, <2>3, <2>4, Zenon DEF FinalStep
<1>4. CASE RecordApplyReceipt(c)
  <2>1. task' = task /\ event' = event /\ grant' = grant /\ artifact' = artifact
    BY <1>4, Zenon DEF RecordApplyReceipt
  <2>2. receipt' = receipt \/ (Undecided(c.artifact) /\ receipt' = [receipt EXCEPT ![c.artifact] = ReceiptOf(c)])
    BY <1>4, Zenon DEF RecordApplyReceipt
  <2>3. \A x \in Artifacts : receipt[x] # NoReceipt => receipt'[x] = receipt[x]
    BY <2>2, Zenon DEF Undecided, StoreType
  <2> QED
    BY <2>1, <2>3, Zenon DEF FinalStep
<1>5. ASSUME NEW t \in Tasks, GrantLease(c, t) PROVE FinalStep
  BY <1>5, Zenon DEF GrantLease, Leasable, FinalStep, StoreType
<1>6. CASE FenceLease(c)
  <2>1. c.task \in Tasks /\ task[c.task].owner # None
    BY <1>6, CommandFacts, AgentAssumption, Zenon DEF FenceLease, CurrentLease
  <2>2. task[c.task].state \notin TerminalStates
    BY <2>1, Zenon DEF LeaseHeadsHistory
  <2> QED
    BY <1>6, <2>1, <2>2, Zenon DEF FenceLease, FinalStep, StoreType
<1> QED
  BY <1>1, <1>2, <1>3, <1>4, <1>5, <1>6, CommandFacts, Zenon DEF Execute, AcquireLease, ClaimLease

(* A finished task and a decided Artifact are final: transition,           *)
(* AcquireLease, ClaimLease, FenceLease and FreezeArtifact refuse them.    *)
THEOREM FinishedIsFinal == Spec => TasksFinal
<1>1. ASSUME IInv, [Next]_vars PROVE [FinalStep]_vars
  <2>1. CASE \E c \in Commands : Perform(c)
    BY <1>1, <2>1, ExecuteFinal, Zenon DEF Perform
  <2>2. CASE \E c \in Commands : Replay(c)
    <3>1. UNCHANGED store
      BY <2>2, Zenon DEF Replay
    <3> QED
      BY <3>1, Zenon DEF store, FinalStep
  <2>3. CASE UNCHANGED vars
    BY <2>3, Zenon
  <2> QED
    BY <1>1, <2>1, <2>2, <2>3, Zenon DEF Next
<1> QED
  BY <1>1, Inductive, PTL DEF Spec, TasksFinal
-----------------------------------------------------------------------------
(* Every workspace moves along one chain (OneChain), on top of IInv.       *)

(* An Artifact that exists belongs to a task.                              *)
ArtifactsOwned == \A x \in Artifacts : artifact[x].state # "absent" => artifact[x].task \in Tasks

StartsWith(s, p) == Len(p) <= Len(s) /\ p = SubSeq(s, 1, Len(p))

(* The head of a workspace continues its first base with Artifacts that    *)
(* were made for it and received: OneChain's first half.                   *)
HeadChained(ws) ==
    /\ StartsWith(head[ws], origin[ws])
    /\ \A i \in Len(origin[ws]) + 1 .. Len(head[ws]) :
         /\ head[ws][i] \in Artifacts
         /\ receipt[head[ws][i]].decision = "success"
         /\ artifact[head[ws][i]].base = SubSeq(head[ws], 1, i - 1)
         /\ WorkspaceOf[artifact[head[ws][i]].task] = ws

(* An Artifact received with success is in its workspace's chain.          *)
ReceivedChained(x) ==
    receipt[x].decision = "success" =>
        /\ artifact[x].state = "published"
        /\ \E i \in Len(origin[WorkspaceOf[artifact[x].task]]) + 1
                    .. Len(head[WorkspaceOf[artifact[x].task]]) :
             head[WorkspaceOf[artifact[x].task]][i] = x

ChainInv == ArtifactsOwned /\ OneChain
-----------------------------------------------------------------------------
(* A prefix stays one, and every shorter prefix is the same, when an       *)
(* element is appended.                                                    *)
LEMMA PrefixOfAppend ==
    ASSUME NEW S, NEW p \in Seq(S), NEW s \in Seq(S), NEW e \in S, StartsWith(s, p)
    PROVE  /\ StartsWith(Append(s, e), p)
           /\ \A i \in 1..Len(s) + 1 : SubSeq(Append(s, e), 1, i - 1) = SubSeq(s, 1, i - 1)
           /\ SubSeq(Append(s, e), 1, Len(s)) = s
<1>1. /\ Append(s, e) \in Seq(S) /\ Len(s) \in Nat /\ Len(p) \in Nat
      /\ Len(Append(s, e)) = Len(s) + 1
      /\ \A i \in 1..Len(s) : Append(s, e)[i] = s[i]
  BY AppendFacts
<1>2. ASSUME NEW i \in 1..Len(s) + 1
      PROVE  SubSeq(Append(s, e), 1, i - 1) = SubSeq(s, 1, i - 1)
  BY <1>1
<1>3. SubSeq(s, 1, Len(s)) = s
  BY <1>1
<1>4. SubSeq(Append(s, e), 1, Len(s)) = s
  BY <1>1, <1>2, <1>3
<1>5. Len(p) <= Len(s) /\ p = SubSeq(s, 1, Len(p))
  BY Zenon DEF StartsWith
<1>6. SubSeq(Append(s, e), 1, Len(p)) = SubSeq(s, 1, Len(p))
  BY <1>1, <1>2, <1>5
<1> QED
  BY <1>1, <1>2, <1>4, <1>5, <1>6 DEF StartsWith

(* A sequence is a prefix of itself.                                       *)
LEMMA PrefixOfSelf ==
    ASSUME NEW S, NEW s \in Seq(S)
    PROVE  StartsWith(s, s)
BY DEF StartsWith

(* OneChain by workspace and by Artifact.                                  *)
LEMMA ChainHalves ==
    OneChain <=> /\ \A ws \in Workspaces : HeadChained(ws)
                 /\ \A x \in Artifacts : ReceivedChained(x)
BY Zenon DEF OneChain, HeadChained, ReceivedChained, StartsWith

(* Steps that move no head and record no receipt, and may decide a frozen  *)
(* Artifact: everything but FreezeArtifact and RecordApplyReceipt.         *)
LEMMA SameHeads ==
    ASSUME ChainInv, head' = head, origin' = origin, receipt' = receipt,
           \A x \in Artifacts :
               /\ artifact'[x].task = artifact[x].task /\ artifact'[x].base = artifact[x].base
               /\ artifact[x].state = "published" => artifact'[x].state = "published"
               /\ artifact[x].state = "absent" => artifact'[x].state = "absent"
    PROVE  ChainInv'
<1> USE DEF ChainInv
<1>1. ArtifactsOwned'
  BY Zenon DEF ArtifactsOwned
<1>2. ASSUME NEW ws \in Workspaces PROVE HeadChained(ws)'
  <2>1. HeadChained(ws)
    BY ChainHalves, Zenon
  <2> QED
    BY <2>1, ZenonT(30) DEF HeadChained
<1>3. ASSUME NEW x \in Artifacts PROVE ReceivedChained(x)'
  <2>1. ReceivedChained(x)
    BY ChainHalves, Zenon
  <2> QED
    BY <2>1, Zenon DEF ReceivedChained
<1>4. OneChain'
  BY <1>2, <1>3, Zenon DEF OneChain, HeadChained, ReceivedChained, StartsWith
<1> QED
  BY <1>1, <1>4, Zenon

(* Freezing gives a workspace its first base or leaves its head alone.     *)
LEMMA FreezeChains ==
    ASSUME IInv, ChainInv, NEW c \in Commands, FreezeArtifact(c)
    PROVE  ChainInv'
<1> DEFINE y == c.artifact
           X == [state |-> "frozen", task |-> c.task, base |-> c.base]
           w == WorkspaceOf[c.task]
<1> USE DEF IInv, StoreInv, ChainInv
<1>1. /\ artifact' = [artifact EXCEPT ![y] = X] /\ receipt' = receipt
      /\ head' = [head EXCEPT ![w] = c.base]
      /\ origin' = [origin EXCEPT ![w] = IF head[w] = <<>> THEN c.base ELSE origin[w]]
      /\ head[w] = <<>> \/ head[w] = c.base
      /\ artifact[y].state = "absent"
  BY Zenon DEF FreezeArtifact, HeadAdmits
<1>2. c.task \in Tasks /\ y \in Artifacts /\ c.base \in Revisions
  BY CommandFacts, Zenon DEF FreezeArtifact
<1>3. w \in Workspaces
  BY <1>2, AgentAssumption, Zenon
<1>4. X.task = c.task /\ X.base = c.base /\ X.state = "frozen"
  BY Zenon
<1> HIDE DEF y, X, w
<1>5. artifact'[y] = X /\ \A x \in Artifacts : x # y => artifact'[x] = artifact[x]
  BY <1>1, <1>2, Zenon DEF StoreType
<1>6. receipt[y].decision # "success"
  BY <1>1, <1>2, ChainHalves, Zenon DEF ReceivedChained
<1>7. \A v \in Workspaces : v # w => head'[v] = head[v] /\ origin'[v] = origin[v]
  BY <1>1, <1>3, Zenon DEF StoreType
<1>8. /\ head'[w] = c.base
      /\ head[w] = <<>> => origin'[w] = c.base
      /\ head[w] # <<>> => origin'[w] = origin[w] /\ head'[w] = head[w]
  BY <1>1, <1>3, Zenon DEF StoreType
<1>9. ArtifactsOwned'
  BY <1>2, <1>4, <1>5, Zenon DEF ArtifactsOwned
<1>10. ASSUME NEW ws \in Workspaces, head'[ws] = head[ws], origin'[ws] = origin[ws]
       PROVE  HeadChained(ws)'
  <2>1. HeadChained(ws)
    BY ChainHalves, Zenon
  <2>2. \A i \in Len(origin[ws]) + 1 .. Len(head[ws]) :
          /\ head[ws][i] \in Artifacts /\ head[ws][i] # y
    BY <1>6, <2>1, Zenon DEF HeadChained
  <2>3. ASSUME NEW i \in Len(origin[ws]) + 1 .. Len(head[ws])
        PROVE  /\ head[ws][i] \in Artifacts
               /\ receipt'[head[ws][i]].decision = "success"
               /\ artifact'[head[ws][i]].base = SubSeq(head[ws], 1, i - 1)
               /\ WorkspaceOf[artifact'[head[ws][i]].task] = ws
    <3>1. artifact'[head[ws][i]] = artifact[head[ws][i]]
      BY <1>5, <2>2, Zenon
    <3> QED
      BY <1>1, <2>1, <3>1, Zenon DEF HeadChained
  <2>4. StartsWith(head[ws], origin[ws])
    BY <2>1, Zenon DEF HeadChained
  <2> QED
    BY <1>10, <2>3, <2>4, Zenon DEF HeadChained
<1>11. ASSUME head[w] = <<>> PROVE HeadChained(w)'
  <2>1. StartsWith(c.base, c.base) /\ Len(c.base) \in Nat
    BY <1>2, PrefixOfSelf DEF Revisions
  <2>2. Len(c.base) + 1 .. Len(c.base) = {}
    BY <2>1
  <2> QED
    BY <1>8, <1>11, <2>1, <2>2, Zenon DEF HeadChained
<1>12. ASSUME NEW x \in Artifacts PROVE ReceivedChained(x)'
  <2> SUFFICES ASSUME receipt[x].decision = "success" PROVE ReceivedChained(x)'
    BY <1>1, Zenon DEF ReceivedChained
  <2> DEFINE v == WorkspaceOf[artifact[x].task]
  <2>1. /\ artifact[x].state = "published"
        /\ \E i \in Len(origin[v]) + 1 .. Len(head[v]) : head[v][i] = x
    BY ChainHalves, Zenon DEF ReceivedChained
  <2>2. x # y /\ artifact'[x] = artifact[x]
    BY <1>1, <1>5, <2>1, Zenon
  <2>3. v \in Workspaces
    BY <2>1, AgentAssumption, Zenon DEF ArtifactsOwned
  <2>4. head[v] # <<>>
    <3>1. origin[v] \in Revisions
      BY <2>3, Zenon DEF StoreType
    <3>2. Len(origin[v]) \in Nat
      BY <3>1 DEF Revisions
    <3> QED
      BY <2>1, <3>2
  <2>5. head'[v] = head[v] /\ origin'[v] = origin[v]
    BY <1>7, <1>8, <2>3, <2>4, Zenon
  <2> QED
    BY <2>1, <2>2, <2>5, Zenon DEF ReceivedChained
<1>13. OneChain'
  <2>1. \A ws \in Workspaces : HeadChained(ws)'
    BY <1>7, <1>8, <1>10, <1>11, Zenon
  <2> QED
    BY <2>1, <1>12, Zenon DEF OneChain, HeadChained, ReceivedChained, StartsWith
<1> QED
  BY <1>9, <1>13, Zenon

(* A success receipt appends the Artifact to the head it was made for, any *)
(* other receipt leaves the chains alone.                                  *)
LEMMA ReceiptChains ==
    ASSUME IInv, ChainInv, NEW c \in Commands, RecordApplyReceipt(c)
    PROVE  ChainInv'
<1> DEFINE y == c.artifact
<1> USE DEF IInv, StoreInv, ChainInv
<1>1. artifact' = artifact /\ origin' = origin
  BY Zenon DEF RecordApplyReceipt
<1>2. y \in Artifacts /\ artifact[y].state = "published" /\ artifact[y].base = c.base
  BY CommandFacts, Zenon DEF RecordApplyReceipt
<1>3. PICK w \in Workspaces : w = WorkspaceOf[artifact[y].task]
  BY <1>2, AgentAssumption, Zenon DEF ArtifactsOwned
<1>4. CASE receipt' = receipt /\ head' = head
  BY <1>1, <1>4, SameHeads, Zenon
<1>5. ASSUME receipt[y] = NoReceipt, receipt' = [receipt EXCEPT ![y] = ReceiptOf(c)],
             c.decision # "success", head' = head
      PROVE  ChainInv'
  <2> HIDE DEF y
  <2>1. \A x \in Artifacts : x # y => receipt'[x] = receipt[x]
    BY <1>2, <1>5, Zenon DEF StoreType
  <2>2. receipt[y].decision # "success" /\ receipt'[y].decision # "success"
    BY <1>2, <1>5, SMTT(30) DEF NoReceipt, ReceiptOf, StoreType
  <2>3. ASSUME NEW ws \in Workspaces PROVE HeadChained(ws)'
    <3>1. HeadChained(ws)
      BY ChainHalves, Zenon
    <3> QED
      BY <1>1, <1>5, <2>1, <2>2, <3>1 DEF HeadChained
  <2>4. ASSUME NEW x \in Artifacts PROVE ReceivedChained(x)'
    <3>1. ReceivedChained(x)
      BY ChainHalves, Zenon
    <3> QED
      BY <1>1, <1>5, <2>1, <2>2, <3>1, Zenon DEF ReceivedChained
  <2>5. OneChain'
    BY <2>3, <2>4, Zenon DEF OneChain, HeadChained, ReceivedChained, StartsWith
  <2> QED
    BY <1>1, <2>5, Zenon DEF ArtifactsOwned
<1>6. ASSUME receipt[y] = NoReceipt, receipt' = [receipt EXCEPT ![y] = ReceiptOf(c)],
             c.decision = "success", head[w] = c.base,
             head' = [head EXCEPT ![w] = NextRevision(c.base, y)]
      PROVE  ChainInv'
  <2> HIDE DEF y
  <2> DEFINE S == Bases \cup Artifacts
  <2>1. /\ \A x \in Artifacts : x # y => receipt'[x] = receipt[x]
        /\ receipt'[y].decision = "success"
    BY <1>2, <1>6, Zenon DEF ReceiptOf, StoreType
  <2>2. head[w] \in Seq(S) /\ origin[w] \in Seq(S) /\ y \in S
    BY <1>2, <1>3, Zenon DEF StoreType, Revisions
  <2>3. /\ head'[w] = Append(head[w], y)
        /\ \A v \in Workspaces : v # w => head'[v] = head[v]
    BY <1>3, <1>6, Zenon DEF StoreType, NextRevision
  <2>4. /\ Len(head[w]) \in Nat /\ Len(head'[w]) = Len(head[w]) + 1
        /\ \A i \in 1..Len(head[w]) : head'[w][i] = head[w][i]
        /\ head'[w][Len(head[w]) + 1] = y
    BY <2>2, <2>3, AppendFacts
  <2>5. HeadChained(w)
    BY <1>3, ChainHalves, Zenon
  <2>6. Len(origin[w]) \in Nat /\ Len(origin[w]) <= Len(head[w])
    BY <2>2, <2>5 DEF HeadChained, StartsWith
  <2>7. /\ StartsWith(head'[w], origin[w])
        /\ \A i \in 1..Len(head[w]) + 1 : SubSeq(head'[w], 1, i - 1) = SubSeq(head[w], 1, i - 1)
        /\ SubSeq(head'[w], 1, Len(head[w])) = head[w]
    <3>1. StartsWith(head[w], origin[w])
      BY <2>5, Zenon DEF HeadChained
    <3> HIDE DEF S
    <3> QED
      BY <2>2, <2>3, <3>1, PrefixOfAppend
  <2>8. \A x \in Artifacts : receipt[x].decision = "success" => receipt'[x].decision = "success"
    BY <2>1, Zenon
  <2>9. HeadChained(w)'
    <3>1. ASSUME NEW i \in Len(origin[w]) + 1 .. Len(head'[w])
          PROVE  /\ head'[w][i] \in Artifacts
                 /\ receipt'[head'[w][i]].decision = "success"
                 /\ artifact[head'[w][i]].base = SubSeq(head'[w], 1, i - 1)
                 /\ WorkspaceOf[artifact[head'[w][i]].task] = w
      <4>1. CASE i = Len(head[w]) + 1
        <5>1. head'[w][i] = y /\ i - 1 = Len(head[w])
          BY <2>4, <4>1
        <5>2. WorkspaceOf[artifact[y].task] = w
          BY <1>3, Zenon
        <5> QED
          BY <1>2, <1>6, <2>1, <2>7, <5>1, <5>2, Zenon
      <4>2. CASE i \in Len(origin[w]) + 1 .. Len(head[w])
        <5>1. i \in 1..Len(head[w]) /\ i \in 1..Len(head[w]) + 1
          BY <2>4, <2>6, <4>2
        <5>2. /\ head[w][i] \in Artifacts /\ receipt[head[w][i]].decision = "success"
              /\ artifact[head[w][i]].base = SubSeq(head[w], 1, i - 1)
              /\ WorkspaceOf[artifact[head[w][i]].task] = w
          BY <2>5, <4>2, Zenon DEF HeadChained
        <5>3. head'[w][i] = head[w][i] /\ SubSeq(head'[w], 1, i - 1) = SubSeq(head[w], 1, i - 1)
          BY <2>4, <2>7, <5>1, Zenon
        <5> QED
          BY <2>8, <5>2, <5>3, Zenon
      <4> QED
        BY <2>4, <2>6, <4>1, <4>2
    <3> QED
      BY <1>1, <2>7, <3>1, Zenon DEF HeadChained
  <2>10. ASSUME NEW ws \in Workspaces, ws # w PROVE HeadChained(ws)'
    <3>1. HeadChained(ws)
      BY ChainHalves, Zenon
    <3> QED
      BY <1>1, <2>3, <2>8, <2>10, <3>1, Zenon DEF HeadChained
  <2>11. ASSUME NEW x \in Artifacts PROVE ReceivedChained(x)'
    <3>1. CASE x = y
      <4>1. WorkspaceOf[artifact[y].task] = w
        BY <1>3, Zenon
      <4>2. Len(head[w]) + 1 \in Len(origin[w]) + 1 .. Len(head'[w])
        BY <2>4, <2>6
      <4> QED
        BY <1>1, <1>2, <2>4, <3>1, <4>1, <4>2, Zenon DEF ReceivedChained
    <3>2. CASE x # y
      <4> DEFINE v == WorkspaceOf[artifact[x].task]
      <4> SUFFICES ASSUME receipt[x].decision = "success" PROVE ReceivedChained(x)'
        BY <2>1, <3>2, Zenon DEF ReceivedChained
      <4>1. artifact[x].state = "published"
        BY ChainHalves, Zenon DEF ReceivedChained
      <4>2. PICK i \in Len(origin[v]) + 1 .. Len(head[v]) : head[v][i] = x
        BY ChainHalves, Zenon DEF ReceivedChained
      <4>3. v \in Workspaces
        BY <4>1, AgentAssumption, Zenon DEF ArtifactsOwned
      <4> HIDE DEF v
      <4>4. i \in Len(origin[v]) + 1 .. Len(head'[v]) /\ head'[v][i] = x
        <5>1. CASE v = w
          <6>1. i \in 1..Len(head[w]) /\ i \in Len(origin[w]) + 1 .. Len(head'[w])
            BY <2>4, <2>6, <5>1
          <6> QED
            BY <2>4, <4>2, <5>1, <6>1, Zenon
        <5>2. CASE v # w
          BY <2>3, <4>2, <4>3, <5>2, Zenon
        <5> QED
          BY <5>1, <5>2, Zenon
      <4> QED
        BY <1>1, <4>1, <4>4, Zenon DEF ReceivedChained, v
    <3> QED
      BY <3>1, <3>2, Zenon
  <2>12. OneChain'
    <3>1. \A ws \in Workspaces : HeadChained(ws)'
      BY <2>9, <2>10, Zenon
    <3> QED
      BY <2>11, <3>1, Zenon DEF OneChain, HeadChained, ReceivedChained, StartsWith
  <2> QED
    BY <1>1, <2>12, Zenon DEF ArtifactsOwned
<1> QED
  BY <1>3, <1>4, <1>5, <1>6, Zenon DEF RecordApplyReceipt, Undecided, AdvanceHead

(* Every step keeps the chains.                                            *)
LEMMA NextChains ==
    ASSUME IInv, ChainInv, [Next]_vars
    PROVE  ChainInv'
<1>1. ASSUME head' = head, origin' = origin, receipt' = receipt, artifact' = artifact
      PROVE  ChainInv'
  BY <1>1, SameHeads, Zenon
<1>2. ASSUME NEW c \in Commands, TransitionTask(c) PROVE ChainInv'
  <2>1. /\ head' = head /\ origin' = origin /\ receipt' = receipt
        /\ \A x \in Artifacts : artifact'[x] =
             IF x = task[c.task].artifact THEN Decided(artifact[x], c.kind) ELSE artifact[x]
    BY <1>2, Zenon DEF TransitionTask
  <2>2. \A x \in Artifacts :
          /\ artifact'[x].task = artifact[x].task /\ artifact'[x].base = artifact[x].base
          /\ artifact[x].state # "frozen" => artifact'[x] = artifact[x]
    BY <2>1, DecidedFacts DEF IInv, StoreInv, StoreType
  <2> QED
    BY <2>1, <2>2, SameHeads, Zenon
<1>3. ASSUME NEW c \in Commands, Execute(c) PROVE ChainInv'
  <2>1. CASE CreateTask(c) \/ AcquireLease(c) \/ ClaimLease(c) \/ FenceLease(c)
    BY <1>1, <2>1, Zenon DEF CreateTask, AcquireLease, ClaimLease, GrantLease, FenceLease
  <2> QED
    BY <1>2, <1>3, <2>1, FreezeChains, ReceiptChains, Zenon DEF Execute
<1>4. CASE \E c \in Commands : Perform(c)
  BY <1>3, <1>4, Zenon DEF Perform
<1>5. CASE \E c \in Commands : Replay(c)
  BY <1>1, <1>5, Zenon DEF Replay, store
<1>6. CASE UNCHANGED vars
  BY <1>1, <1>6, Zenon DEF vars, store
<1> QED
  BY <1>4, <1>5, <1>6, Zenon DEF Next

(* RecordApplyReceipt's compare and swap and FreezeArtifact's base check   *)
(* keep the confirmed revisions of every workspace on one chain.           *)
THEOREM WorkspacesKeepOneChain == Spec => []OneChain
<1>1. Init => ChainInv
  <2> SUFFICES ASSUME Init PROVE ChainInv
    BY Zenon
  <2>1. ArtifactsOwned
    BY Zenon DEF Init, NoArtifact, ArtifactsOwned
  <2>2. \A x \in Artifacts : receipt[x].decision # "success"
    BY Zenon DEF Init, NoReceipt
  <2>3. \A ws \in Workspaces : head[ws] = <<>> /\ origin[ws] = <<>>
    BY Zenon DEF Init
  <2>4. StartsWith(<<>>, <<>>)
    BY DEF StartsWith
  <2>5. \A ws \in Workspaces : HeadChained(ws)
    BY <2>3, <2>4 DEF HeadChained
  <2> QED
    BY <2>1, <2>2, <2>5, ChainHalves, Zenon DEF ChainInv, ReceivedChained
<1>2. IInv /\ ChainInv /\ [Next]_vars => ChainInv'
  BY NextChains, Zenon
<1>3. ChainInv => OneChain
  BY Zenon DEF ChainInv
<1> QED
  BY <1>1, <1>2, <1>3, Inductive, PTL DEF Spec

-----------------------------------------------------------------------------
(* ApplyJournal: receipts, and the contract of ApplyStore                  *)

Stops == {"wait", "begin", "cas", "called", "complete"}
Rows == {EmptyRow} \cup [state : {"pending"} \cup ApplyDecisions, intent : ApplyIntents]
Hands == {Away} \cup [at : Stops, id : ApplyIds, intent : ApplyIntents]

ApplyType ==
  /\ journal \in [ApplyIds -> Rows]
  /\ hand \in [Appliers -> Hands]
  /\ locks \in [ApplyIds -> [refs : Nat, token : BOOLEAN]]
  /\ casResult \in [ApplyIds -> {"no call", "calling"} \cup ApplyDecisions]
  /\ effect \subseteq ApplyIds
  /\ receipts \subseteq [id : ApplyIds, intent : ApplyIntents, decision : ApplyDecisions]

\* The calls that have the token of their identity are alone with it.
Holding(c) == hand[c].at \notin {"idle", "wait"}

Exclusive ==
  \A c \in Appliers : Holding(c) =>
    /\ ~ locks[Id(c)].token
    /\ \A d \in Appliers : Holding(d) /\ Id(d) = Id(c) => d = c

\* Where a call is says what the applier has been asked and has answered.
Asked ==
  \A c \in Appliers :
    /\ hand[c].at = "cas" => casResult[Id(c)] = "no call"
    /\ hand[c].at = "called" => casResult[Id(c)] = "calling"
    /\ hand[c].at = "complete" => casResult[Id(c)] \in ApplyDecisions

\* The applier is asked only for an admitted intent, changes the workspace only
\* when asked, and answers truly.
Answered ==
  \A k \in ApplyIds :
    /\ journal[k] = EmptyRow => casResult[k] = "no call"
    /\ casResult[k] = "no call" => k \notin effect
    /\ casResult[k] = "success" => k \in effect
    /\ casResult[k] \in {"conflict", "rejected"} => k \notin effect
    /\ journal[k].state \in ApplyDecisions \ {"indeterminate"} => casResult[k] = journal[k].state

\* A receipt repeats the terminal row.
Reported == \A r \in receipts : journal[r.id] = [state |-> r.decision, intent |-> r.intent]

JournalInv ==
  /\ ApplyType /\ Exclusive /\ Asked /\ Answered /\ Reported
  /\ LiveCallKeepsItsRow /\ OwnerLeavesAlone /\ LocksAreReturned
-----------------------------------------------------------------------------
\* A call that is under way knows its identity and its intent.
LEMMA HandShape ==
  ASSUME NEW h \in Hands
  PROVE  /\ h.at \in Stops \cup {"idle"}
         /\ h.at = "idle" => h = Away
         /\ h.at # "idle" => /\ h \in [at : Stops, id : ApplyIds, intent : ApplyIntents]
                             /\ h.id \in ApplyIds /\ h.intent \in ApplyIntents
BY DEF Hands, Away, Stops

\* The same of a caller's call.
LEMMA HandFacts ==
  ASSUME ApplyType, NEW c \in Appliers
  PROVE  /\ hand[c].at \in Stops \cup {"idle"}
         /\ hand[c].at = "idle" => hand[c] = Away
         /\ hand[c].at # "idle" => /\ hand[c] \in [at : Stops, id : ApplyIds, intent : ApplyIntents]
                                   /\ Id(c) \in ApplyIds /\ hand[c].intent \in ApplyIntents
<1>1. hand[c] \in Hands
  BY Zenon DEF ApplyType
<1> QED
  BY <1>1, HandShape, Zenon DEF Id

\* A call goes on with its identity and intent.
LEMMA HandMoves ==
  ASSUME ApplyType, NEW c \in Appliers, hand[c].at # "idle", NEW at \in Stops, HandTo(c, at)
  PROVE  /\ hand' \in [Appliers -> Hands]
         /\ hand'[c].at = at /\ hand'[c].id = hand[c].id /\ hand'[c].intent = hand[c].intent
         /\ \A d \in Appliers \ {c} : hand'[d] = hand[d]
<1>1. hand[c] \in [at : Stops, id : ApplyIds, intent : ApplyIntents]
  BY HandFacts, Zenon
<1>2. hand' = [hand EXCEPT ![c] = [hand[c] EXCEPT !.at = at]]
  BY Zenon DEF HandTo
<1>3. [hand[c] EXCEPT !.at = at] \in [at : Stops, id : ApplyIds, intent : ApplyIntents]
  BY <1>1, Zenon
<1>4. hand' \in [Appliers -> Hands]
  BY <1>2, <1>3, Zenon DEF ApplyType, Hands
<1>5. hand'[c] = [hand[c] EXCEPT !.at = at] /\ \A d \in Appliers \ {c} : hand'[d] = hand[d]
  BY <1>2, Zenon DEF ApplyType
<1> QED
  BY <1>1, <1>4, <1>5, Zenon

\* A call ends.
LEMMA HandLeaves ==
  ASSUME ApplyType, NEW c \in Appliers, hand' = [hand EXCEPT ![c] = Away]
  PROVE  /\ hand' \in [Appliers -> Hands] /\ hand'[c].at = "idle"
         /\ \A d \in Appliers \ {c} : hand'[d] = hand[d]
BY Zenon DEF ApplyType, Hands, Away

-----------------------------------------------------------------------------
(* The rows, the applier and the receipts.                                 *)

DataInv ==
  /\ journal \in [ApplyIds -> Rows]
  /\ hand \in [Appliers -> Hands]
  /\ casResult \in [ApplyIds -> {"no call", "calling"} \cup ApplyDecisions]
  /\ effect \subseteq ApplyIds
  /\ receipts \subseteq [id : ApplyIds, intent : ApplyIntents, decision : ApplyDecisions]
  /\ Asked /\ Answered /\ Reported /\ LiveCallKeepsItsRow

Live == {"cas", "called", "complete"}

\* The state of the empty row.
LEMMA EmptyState == EmptyRow.state = "none"
BY Zenon DEF EmptyRow

\* The fields of a pending row.
LEMMA PendingRow ==
  ASSUME NEW r, NEW i, r = [state |-> "pending", intent |-> i]
  PROVE  r.state = "pending" /\ r.intent = i
BY Zenon

\* A row is empty, or has a state and an intent.
LEMMA RowFacts ==
  ASSUME DataInv, NEW k \in ApplyIds
  PROVE  /\ journal[k] = EmptyRow <=> journal[k].state = "none"
         /\ journal[k] # EmptyRow => /\ journal[k] \in [state : {"pending"} \cup ApplyDecisions, intent : ApplyIntents]
                                     /\ journal[k].intent \in ApplyIntents
         /\ journal[k].state \in {"none", "pending"} \cup ApplyDecisions
         /\ ~ ("none" \in ApplyDecisions) /\ ~ ("pending" \in ApplyDecisions)
<1>1. journal[k] = EmptyRow \/ journal[k] \in [state : {"pending"} \cup ApplyDecisions, intent : ApplyIntents]
  BY Zenon DEF DataInv, Rows
<1>2. "none" \notin ApplyDecisions /\ "pending" \notin ApplyDecisions
  BY Zenon DEF ApplyDecisions
<1>3. CASE journal[k] = EmptyRow
  BY <1>2, <1>3, EmptyState, Zenon
<1>4. CASE journal[k] \in [state : {"pending"} \cup ApplyDecisions, intent : ApplyIntents]
  <2>1. journal[k].state \in {"pending"} \cup ApplyDecisions /\ journal[k].intent \in ApplyIntents
    BY <1>4, Zenon
  <2>2. journal[k].state # "none"
    BY <1>2, <2>1, Zenon
  <2>3. journal[k] # EmptyRow
    BY <2>2, EmptyState, Zenon
  <2> QED
    BY <1>2, <1>4, <2>1, <2>2, <2>3, Zenon
<1> QED
  BY <1>1, <1>3, <1>4, Zenon

\* A receipt names an identity with a terminal row.
LEMMA ReportFacts ==
  ASSUME DataInv, NEW r \in receipts
  PROVE  r.id \in ApplyIds /\ r.decision \in ApplyDecisions /\ journal[r.id].state = r.decision
<1>1. r \in [id : ApplyIds, intent : ApplyIntents, decision : ApplyDecisions]
  BY Zenon DEF DataInv
<1>2. journal[r.id] = [state |-> r.decision, intent |-> r.intent]
  BY Zenon DEF DataInv, Reported
<1> QED
  BY <1>1, <1>2

\* Steps that touch no row, ask and answer nothing and report nothing: calls come,
\* wait and go.
LEMMA StayData ==
  ASSUME DataInv, journal' = journal, casResult' = casResult, effect' = effect, receipts' = receipts,
         hand' \in [Appliers -> Hands], \A d \in Appliers : hand'[d].at \in Live => hand'[d] = hand[d]
  PROVE  DataInv'
<1>1. \A d \in Appliers : hand'[d].at \in Live => hand'[d].at = hand[d].at /\ Id(d)' = Id(d) /\ hand'[d].intent = hand[d].intent
  BY Zenon DEF Id
<1>2. Asked'
  BY <1>1 DEF DataInv, Asked, Live
<1>3. LiveCallKeepsItsRow'
  BY <1>1, Zenon DEF DataInv, LiveCallKeepsItsRow, Live
<1> QED
  BY <1>2, <1>3, Zenon DEF DataInv, Answered, Reported

\* A row that was settled in time by the call that holds its identity, or found
\* without an outcome by a retry, with the receipt if the commit was answered.
LEMMA SettleData ==
  ASSUME DataInv, Exclusive, NEW c \in Appliers, Holding(c), NEW k \in ApplyIds, k = Id(c),
         hand' \in [Appliers -> Hands], hand'[c].at = "idle", \A d \in Appliers \ {c} : hand'[d] = hand[d],
         NEW o \in ApplyDecisions, o = "indeterminate" \/ o = casResult[k],
         journal[k].state = "pending", journal' = Terminal(k, o), casResult' = casResult, effect' = effect,
         receipts' \subseteq receipts \cup {[id |-> k, intent |-> journal[k].intent, decision |-> o]}
  PROVE  DataInv'
<1>1. /\ journal[k] \in [state : {"pending"} \cup ApplyDecisions, intent : ApplyIntents]
      /\ journal[k].intent \in ApplyIntents
  BY RowFacts, Zenon
<1>2. /\ journal'[k].state = o /\ journal'[k].intent = journal[k].intent
      /\ journal'[k] \in [state : {"pending"} \cup ApplyDecisions, intent : ApplyIntents]
      /\ \A j \in ApplyIds \ {k} : journal'[j] = journal[j]
  BY <1>1, Zenon DEF Terminal, DataInv
<1>3. journal' \in [ApplyIds -> Rows]
  BY <1>2, Zenon DEF Terminal, DataInv, Rows
<1>4. \A d \in Appliers : hand'[d].at \in Live =>
        hand'[d] = hand[d] /\ Id(d)' = Id(d) /\ Id(d) # k
  BY Zenon DEF Live, Exclusive, Holding, Id
<1>5. Asked'
  BY <1>4 DEF DataInv, Asked, Live
<1>6. LiveCallKeepsItsRow'
  <2>1. ASSUME NEW d \in Appliers, hand'[d].at \in Live
        PROVE  journal'[Id(d)'] = [state |-> "pending", intent |-> hand'[d].intent]
    <3>1. Id(d) \in ApplyIds
      BY <1>4, <2>1, HandShape, Zenon DEF DataInv, Live, Id
    <3>2. journal[Id(d)] = [state |-> "pending", intent |-> hand[d].intent]
      BY <1>4, <2>1, Zenon DEF DataInv, LiveCallKeepsItsRow, Live
    <3> QED
      BY <1>2, <1>4, <2>1, <3>1, <3>2
  <2> QED
    BY <2>1, Zenon DEF LiveCallKeepsItsRow, Live
<1>7. Answered'
  <2>1. journal'[k] # EmptyRow
    BY <1>2, EmptyState, RowFacts, Zenon
  <2>2. \A j \in ApplyIds \ {k} : journal'[j] = journal[j]
    BY <1>2, Zenon
  <2>3. /\ casResult[k] = "no call" => k \notin effect
        /\ casResult[k] = "success" => k \in effect
        /\ casResult[k] \in {"conflict", "rejected"} => k \notin effect
        /\ journal'[k].state \in ApplyDecisions \ {"indeterminate"} => casResult[k] = journal'[k].state
    BY <1>2, ZenonT(30) DEF DataInv, Answered
  <2>4. ASSUME NEW j \in ApplyIds, j # k
        PROVE  /\ journal'[j] = EmptyRow => casResult[j] = "no call"
               /\ casResult[j] = "no call" => j \notin effect
               /\ casResult[j] = "success" => j \in effect
               /\ casResult[j] \in {"conflict", "rejected"} => j \notin effect
               /\ journal'[j].state \in ApplyDecisions \ {"indeterminate"} => casResult[j] = journal'[j].state
    BY <2>2, <2>4, ZenonT(30) DEF DataInv, Answered
  <2> QED
    BY <2>1, <2>3, <2>4, ZenonT(30) DEF Answered
<1>8. receipts' \subseteq [id : ApplyIds, intent : ApplyIntents, decision : ApplyDecisions]
  <2>1. [id |-> k, intent |-> journal[k].intent, decision |-> o]
          \in [id : ApplyIds, intent : ApplyIntents, decision : ApplyDecisions]
    BY <1>1, Zenon
  <2> QED
    BY <2>1, Zenon DEF DataInv
<1>9. Reported'
  <2>1. \A r \in receipts : r.id # k /\ r.id \in ApplyIds
    BY ReportFacts, RowFacts
  <2>2. journal'[k] = [state |-> o, intent |-> journal[k].intent]
    BY <1>2, Zenon
  <2>3. \A r \in receipts' : r \in receipts \/ r = [id |-> k, intent |-> journal[k].intent, decision |-> o]
    BY Zenon
  <2>4. \A r \in receipts : journal'[r.id] = [state |-> r.decision, intent |-> r.intent]
    BY <1>2, <2>1, ZenonT(30) DEF DataInv, Reported
  <2>5. ASSUME NEW r, r = [id |-> k, intent |-> journal[k].intent, decision |-> o]
        PROVE  journal'[r.id] = [state |-> r.decision, intent |-> r.intent]
    BY <2>2, <2>5, Zenon
  <2> QED
    BY <2>3, <2>4, <2>5, Zenon DEF Reported
<1> QED
  BY <1>3, <1>5, <1>6, <1>7, <1>8, <1>9, Zenon DEF DataInv

\* The first call of an identity makes its intent durable, and goes on or ends.
LEMMA AdmitData ==
  ASSUME DataInv, Exclusive, NEW c \in Appliers, Holding(c), NEW k \in ApplyIds, k = Id(c),
         hand' \in [Appliers -> Hands], \A d \in Appliers \ {c} : hand'[d] = hand[d],
         \/ hand'[c].at = "idle"
         \/ hand'[c].at = "cas" /\ hand'[c].id = k /\ hand'[c].intent = hand[c].intent,
         journal[k] = EmptyRow, hand[c].intent \in ApplyIntents,
         journal' = [journal EXCEPT ![k] = [state |-> "pending", intent |-> hand[c].intent]],
         casResult' = casResult, effect' = effect, receipts' = receipts
  PROVE  DataInv'
<1>1. /\ journal' \in [ApplyIds -> Rows]
      /\ journal'[k] = [state |-> "pending", intent |-> hand[c].intent]
      /\ \A j \in ApplyIds \ {k} : journal'[j] = journal[j]
  BY Zenon DEF DataInv, Rows
<1>2. \A d \in Appliers \ {c} : hand'[d].at \in Live =>
        hand'[d] = hand[d] /\ Id(d)' = Id(d) /\ Id(d) # k
  BY Zenon DEF Live, Exclusive, Holding, Id
<1>3. casResult[k] = "no call"
  BY Zenon DEF DataInv, Answered
<1>4. Asked'
  BY <1>2, <1>3 DEF DataInv, Asked, Live, Id
<1>5. LiveCallKeepsItsRow'
  <2>1. ASSUME NEW d \in Appliers \ {c}, hand'[d].at \in Live
        PROVE  journal'[Id(d)'] = [state |-> "pending", intent |-> hand'[d].intent]
    <3>1. Id(d) \in ApplyIds
      BY <1>2, <2>1, HandShape, Zenon DEF DataInv, Live, Id
    <3>2. journal[Id(d)] = [state |-> "pending", intent |-> hand[d].intent]
      BY <1>2, <2>1, Zenon DEF DataInv, LiveCallKeepsItsRow, Live
    <3> QED
      BY <1>1, <1>2, <2>1, <3>1, <3>2
  <2>2. hand'[c].at \in Live => journal'[Id(c)'] = [state |-> "pending", intent |-> hand'[c].intent]
    BY <1>1, Zenon DEF Live, Id
  <2> QED
    BY <2>1, <2>2, Zenon DEF LiveCallKeepsItsRow, Live
<1>6. Answered'
  <2>1. journal'[k].state = "pending"
    BY <1>1, Zenon
  <2>2. journal'[k] # EmptyRow
    BY <2>1, EmptyState, Zenon
  <2> QED
    BY <1>1, <2>1, <2>2, RowFacts, ZenonT(30) DEF DataInv, Answered
<1>7. Reported'
  <2>1. \A r \in receipts : r.id # k /\ r.id \in ApplyIds
    BY ReportFacts, RowFacts, Zenon
  <2> QED
    BY <1>1, <2>1, Zenon DEF DataInv, Reported
<1> QED
  BY <1>1, <1>4, <1>5, <1>6, <1>7, Zenon DEF DataInv

\* A retry is answered from a terminal row.
LEMMA ReplayData ==
  ASSUME DataInv, NEW c \in Appliers, NEW k \in ApplyIds, k = Id(c),
         hand' \in [Appliers -> Hands], hand'[c].at = "idle", \A d \in Appliers \ {c} : hand'[d] = hand[d],
         journal[k].state \in ApplyDecisions, journal' = journal, casResult' = casResult, effect' = effect,
         receipts' = receipts \cup {[id |-> k, intent |-> journal[k].intent, decision |-> journal[k].state]}
  PROVE  DataInv'
<1>1. \A d \in Appliers : hand'[d].at \in Live => hand'[d] = hand[d]
  BY Zenon DEF Live
<1>2. /\ journal[k] \in [state : {"pending"} \cup ApplyDecisions, intent : ApplyIntents]
      /\ journal[k].intent \in ApplyIntents
  BY RowFacts, Zenon
<1>3. /\ \A d \in Appliers : hand'[d].at \in Live => /\ hand'[d].at = hand[d].at /\ Id(d)' = Id(d)
                                                     /\ hand'[d].intent = hand[d].intent
  BY <1>1, Zenon DEF Id
<1>4. Asked'
  BY <1>3, ZenonT(30) DEF DataInv, Asked, Live
<1>5. LiveCallKeepsItsRow'
  BY <1>3, Zenon DEF DataInv, LiveCallKeepsItsRow, Live
<1>6. ASSUME NEW r, r = [id |-> k, intent |-> journal[k].intent, decision |-> journal[k].state]
      PROVE  /\ r \in [id : ApplyIds, intent : ApplyIntents, decision : ApplyDecisions]
             /\ journal[r.id] = [state |-> r.decision, intent |-> r.intent]
  BY <1>2, <1>6, Zenon
<1>7. receipts' \subseteq [id : ApplyIds, intent : ApplyIntents, decision : ApplyDecisions] /\ Reported'
  BY <1>6, Zenon DEF DataInv, Reported
<1> QED
  BY <1>4, <1>5, <1>7, Zenon DEF DataInv, Answered

\* begin keeps the rows, whether its commit is answered, lost or refused.
LEMMA BeginData ==
  ASSUME ApplyType, DataInv, Exclusive, NEW c \in Appliers, BeginApply(c)
  PROVE  DataInv'
<1>1. hand[c].at = "begin" /\ hand[c] \in Hands
  BY Zenon DEF BeginApply, DataInv
<1>2. PICK k \in ApplyIds : k = Id(c)
  BY <1>1, HandShape, Zenon DEF Id
<1>3. Holding(c) /\ hand[c].intent \in ApplyIntents
  BY <1>1, HandShape, Zenon DEF Holding
<1>4. casResult' = casResult /\ effect' = effect
  BY Zenon DEF BeginApply
<1>5. ASSUME Leaves(c)
      PROVE  /\ hand' \in [Appliers -> Hands] /\ hand'[c].at = "idle"
             /\ \A d \in Appliers \ {c} : hand'[d] = hand[d]
  BY <1>5, Zenon DEF Leaves, DataInv, Hands, Away
<1>6. ASSUME HandTo(c, "cas")
      PROVE  /\ hand' \in [Appliers -> Hands] /\ \A d \in Appliers \ {c} : hand'[d] = hand[d]
             /\ hand'[c].at = "cas" /\ hand'[c].id = k /\ hand'[c].intent = hand[c].intent
  BY <1>1, <1>2, <1>6, HandMoves, Zenon DEF Stops, Id
<1>7. CASE journal[k] = EmptyRow /\ journal' = [journal EXCEPT ![k] = [state |-> "pending", intent |-> hand[c].intent]]
           /\ (HandTo(c, "cas") \/ Leaves(c)) /\ receipts' = receipts
  BY <1>2, <1>3, <1>4, <1>5, <1>6, <1>7, AdmitData, Zenon
<1>8. CASE journal[k].state = "pending" /\ journal' = Terminal(k, "indeterminate") /\ Leaves(c)
           /\ receipts' \subseteq receipts \cup {[id |-> k, intent |-> journal[k].intent, decision |-> "indeterminate"]}
  BY <1>2, <1>3, <1>4, <1>5, <1>8, SettleData, Zenon DEF ApplyDecisions
<1>9. CASE journal' = journal /\ Leaves(c) /\ receipts' = receipts
  <2>1. \A d \in Appliers : hand'[d].at \in Live => hand'[d] = hand[d]
    BY <1>5, <1>9, Zenon DEF Live
  <2> QED
    BY <1>4, <1>5, <1>9, <2>1, StayData, Zenon
<1>10. CASE journal' = journal /\ Leaves(c) /\ journal[k].state \in ApplyDecisions
            /\ receipts' = receipts \cup {[id |-> k, intent |-> journal[k].intent, decision |-> journal[k].state]}
  BY <1>2, <1>4, <1>5, <1>10, ReplayData, Zenon
<1>11. ASSUME journal[k].state = "pending", SendReceipt(c, Terminal(k, "indeterminate")[k])
       PROVE  receipts' = receipts \cup {[id |-> k, intent |-> journal[k].intent, decision |-> "indeterminate"]}
  <2>1. Terminal(k, "indeterminate")[k].state = "indeterminate" /\ Terminal(k, "indeterminate")[k].intent = journal[k].intent
    BY <1>11, RowFacts, Zenon DEF Terminal, DataInv
  <2> QED
    BY <1>2, <1>11, <2>1, Zenon DEF SendReceipt, ApplyDecisions
<1>12. ASSUME journal[k].state \in ApplyDecisions, SendReceipt(c, journal[k])
       PROVE  receipts' = receipts \cup {[id |-> k, intent |-> journal[k].intent, decision |-> journal[k].state]}
  BY <1>2, <1>12, Zenon DEF SendReceipt
<1>13. journal[k] # EmptyRow /\ journal[k].state # "pending" => journal[k].state \in ApplyDecisions
  BY RowFacts, Zenon
<1>14. \/ /\ journal[k] = EmptyRow /\ HandTo(c, "cas") /\ receipts' = receipts
          /\ journal' = [journal EXCEPT ![k] = [state |-> "pending", intent |-> hand[c].intent]]
       \/ Leaves(c) /\ journal' = journal /\ receipts' = receipts
       \/ /\ journal[k] # EmptyRow /\ journal[k].state = "pending" /\ journal' = Terminal(k, "indeterminate")
          /\ Leaves(c) /\ SendReceipt(c, Terminal(k, "indeterminate")[k])
       \/ /\ journal[k] # EmptyRow /\ journal[k].state # "pending" /\ journal' = journal
          /\ Leaves(c) /\ SendReceipt(c, journal[k])
       \/ /\ journal[k] = EmptyRow /\ Leaves(c) /\ receipts' = receipts
          /\ journal' = [journal EXCEPT ![k] = [state |-> "pending", intent |-> hand[c].intent]]
       \/ /\ journal[k].state = "pending" /\ journal' = Terminal(k, "indeterminate")
          /\ Leaves(c) /\ receipts' = receipts
  BY <1>2, Zenon DEF BeginApply
<1> QED
  BY <1>7, <1>8, <1>9, <1>10, <1>11, <1>12, <1>13, <1>14, Zenon

\* The applier starts: its row is pending and it was never asked before.
LEMMA CallData ==
  ASSUME ApplyType, DataInv, Exclusive, NEW c \in Appliers, CallCAS(c)
  PROVE  DataInv'
<1>1. hand[c].at = "cas" /\ HandTo(c, "called") /\ journal' = journal /\ receipts' = receipts
  BY Zenon DEF CallCAS
<1>2. PICK k \in ApplyIds : k = Id(c)
  BY <1>1, HandFacts, Zenon
<1>3. /\ hand' \in [Appliers -> Hands] /\ \A d \in Appliers \ {c} : hand'[d] = hand[d]
      /\ hand'[c].at = "called" /\ hand'[c].id = k /\ hand'[c].intent = hand[c].intent
  BY <1>1, <1>2, HandMoves, Zenon DEF Stops, Id
<1>4. casResult[k] = "no call" /\ journal[k] = [state |-> "pending", intent |-> hand[c].intent]
  BY <1>1, <1>2, Zenon DEF DataInv, Asked, LiveCallKeepsItsRow
<1>5. /\ casResult' = [casResult EXCEPT ![k] = "calling"] /\ effect' \in {effect, effect \cup {k}}
  BY <1>2, Zenon DEF CallCAS
<1>6. /\ casResult' \in [ApplyIds -> {"no call", "calling"} \cup ApplyDecisions] /\ casResult'[k] = "calling"
      /\ \A j \in ApplyIds \ {k} : casResult'[j] = casResult[j] /\ (j \in effect' <=> j \in effect)
      /\ effect' \subseteq ApplyIds
  BY <1>5, Zenon DEF DataInv
<1>7. \A d \in Appliers \ {c} : hand'[d].at \in Live =>
        hand'[d] = hand[d] /\ Id(d)' = Id(d) /\ Id(d) \in ApplyIds \ {k}
  BY <1>1, <1>2, <1>3, HandFacts, Zenon DEF Live, Exclusive, Holding, Id
<1>8. Asked'
  <2>1. ASSUME NEW d \in Appliers \ {c}, hand'[d].at \in Live
        PROVE  casResult'[Id(d)'] = casResult[Id(d)] /\ hand'[d] = hand[d]
    BY <1>6, <1>7, <2>1, Zenon
  <2>2. ASSUME NEW d \in Appliers \ {c}
        PROVE  /\ hand'[d].at = "cas" => casResult'[Id(d)'] = "no call"
               /\ hand'[d].at = "called" => casResult'[Id(d)'] = "calling"
               /\ hand'[d].at = "complete" => casResult'[Id(d)'] \in ApplyDecisions
    BY <2>1, ZenonT(30) DEF DataInv, Asked, Live
  <2>3. Id(c)' = k
    BY <1>3, Zenon DEF Id
  <2> QED
    BY <1>3, <1>6, <2>2, <2>3, Zenon DEF Asked
<1>9. LiveCallKeepsItsRow'
  BY <1>1, <1>2, <1>3, <1>4, <1>7 DEF DataInv, LiveCallKeepsItsRow, Live, Id
<1>10. Answered'
  <2>1. journal[k].state = "pending"
    BY <1>4, PendingRow, Zenon
  <2>2. journal[k] # EmptyRow /\ journal[k].state \notin ApplyDecisions
    BY <2>1, RowFacts, Zenon
  <2> QED
    BY <1>1, <1>6, <2>2, ZenonT(30) DEF DataInv, Answered, ApplyDecisions
<1> QED
  BY <1>1, <1>3, <1>6, <1>8, <1>9, <1>10, Zenon DEF DataInv, Reported

\* The applier answers, truly or not at all.
LEMMA ReturnData ==
  ASSUME ApplyType, DataInv, Exclusive, NEW c \in Appliers, ReturnCAS(c)
  PROVE  DataInv'
<1>1. hand[c].at = "called" /\ HandTo(c, "complete") /\ journal' = journal /\ receipts' = receipts /\ effect' = effect
  BY Zenon DEF ReturnCAS
<1>2. PICK k \in ApplyIds : k = Id(c)
  BY <1>1, HandFacts, Zenon
<1>3. /\ hand' \in [Appliers -> Hands] /\ \A d \in Appliers \ {c} : hand'[d] = hand[d]
      /\ hand'[c].at = "complete" /\ hand'[c].id = k /\ hand'[c].intent = hand[c].intent
  BY <1>1, <1>2, HandMoves, Zenon DEF Stops, Id
<1>4. casResult[k] = "calling" /\ journal[k] = [state |-> "pending", intent |-> hand[c].intent]
  BY <1>1, <1>2, Zenon DEF DataInv, Asked, LiveCallKeepsItsRow
<1>5. PICK o \in ApplyDecisions : /\ casResult' = [casResult EXCEPT ![k] = o]
                                  /\ o = "success" => k \in effect
                                  /\ o \in {"conflict", "rejected"} => k \notin effect
  BY <1>2, Zenon DEF ReturnCAS, Decision, ApplierAnswers, ApplyDecisions
<1>6. /\ casResult' \in [ApplyIds -> {"no call", "calling"} \cup ApplyDecisions] /\ casResult'[k] = o
      /\ \A j \in ApplyIds \ {k} : casResult'[j] = casResult[j]
  BY <1>5, Zenon DEF DataInv
<1>7. \A d \in Appliers \ {c} : hand'[d].at \in Live =>
        hand'[d] = hand[d] /\ Id(d)' = Id(d) /\ Id(d) \in ApplyIds \ {k}
  BY <1>1, <1>2, <1>3, HandFacts, Zenon DEF Live, Exclusive, Holding, Id
<1>8. Asked'
  <2>1. ASSUME NEW d \in Appliers \ {c}, hand'[d].at \in Live
        PROVE  casResult'[Id(d)'] = casResult[Id(d)] /\ hand'[d] = hand[d]
    BY <1>6, <1>7, <2>1, Zenon
  <2>2. ASSUME NEW d \in Appliers \ {c}
        PROVE  /\ hand'[d].at = "cas" => casResult'[Id(d)'] = "no call"
               /\ hand'[d].at = "called" => casResult'[Id(d)'] = "calling"
               /\ hand'[d].at = "complete" => casResult'[Id(d)'] \in ApplyDecisions
    BY <2>1, ZenonT(30) DEF DataInv, Asked, Live
  <2>3. Id(c)' = k
    BY <1>3, Zenon DEF Id
  <2> QED
    BY <1>3, <1>6, <2>2, <2>3, Zenon DEF Asked
<1>9. LiveCallKeepsItsRow'
  BY <1>1, <1>2, <1>3, <1>4, <1>7 DEF DataInv, LiveCallKeepsItsRow, Live, Id
<1>10. Answered'
  <2>1. journal[k].state = "pending"
    BY <1>4, PendingRow, Zenon
  <2>2. journal[k] # EmptyRow /\ journal[k].state \notin ApplyDecisions
    BY <2>1, RowFacts, Zenon
  <2> QED
    BY <1>1, <1>5, <1>6, <2>2 DEF DataInv, Answered, ApplyDecisions
<1> QED
  BY <1>1, <1>3, <1>6, <1>8, <1>9, <1>10, Zenon DEF DataInv, Reported

\* The call settles its own row with the applier's answer, or its commit fails.
LEMMA CompleteData ==
  ASSUME ApplyType, DataInv, Exclusive, NEW c \in Appliers, CompleteApply(c)
  PROVE  DataInv'
<1>1. hand[c].at = "complete" /\ casResult' = casResult /\ effect' = effect
  BY Zenon DEF CompleteApply
<1>2. PICK k \in ApplyIds : k = Id(c)
  BY <1>1, HandFacts, Zenon
<1>3. Holding(c) /\ casResult[k] \in ApplyDecisions
  BY <1>1, <1>2, Zenon DEF Holding, DataInv, Asked
<1>4. journal[k].state = "pending"
  <2>1. journal[k] = [state |-> "pending", intent |-> hand[c].intent]
    BY <1>1, <1>2, Zenon DEF DataInv, LiveCallKeepsItsRow
  <2> QED
    BY <2>1, PendingRow, Zenon
<1>5. Leaves(c)
  BY Zenon DEF CompleteApply
<1>6. /\ hand' \in [Appliers -> Hands] /\ hand'[c].at = "idle"
      /\ \A d \in Appliers \ {c} : hand'[d] = hand[d]
  BY <1>5, HandLeaves, Zenon DEF Leaves
<1>7. Terminal(k, casResult[k])[k].state = casResult[k] /\ Terminal(k, casResult[k])[k].intent = journal[k].intent
  BY <1>3, <1>4, RowFacts, Zenon DEF Terminal, DataInv
<1>8. \/ journal' = Terminal(k, casResult[k]) /\ (SendReceipt(c, Terminal(k, casResult[k])[k]) \/ receipts' = receipts)
      \/ journal' = journal /\ receipts' = receipts
  BY <1>2, Zenon DEF CompleteApply
<1>9. CASE journal' = Terminal(k, casResult[k]) /\ (SendReceipt(c, Terminal(k, casResult[k])[k]) \/ receipts' = receipts)
  <2>1. receipts' \subseteq receipts \cup {[id |-> k, intent |-> journal[k].intent, decision |-> casResult[k]]}
    BY <1>2, <1>3, <1>7, <1>9, Zenon DEF SendReceipt
  <2> QED
    BY <1>1, <1>2, <1>3, <1>4, <1>6, <1>9, <2>1, SettleData, Zenon
<1>10. CASE journal' = journal /\ receipts' = receipts
  <2>1. \A d \in Appliers : hand'[d].at \in Live => hand'[d] = hand[d]
    BY <1>6, Zenon DEF Live
  <2> QED
    BY <1>1, <1>6, <1>10, <2>1, StayData, Zenon
<1> QED
  BY <1>8, <1>9, <1>10, Zenon

\* Recovery settles the pending rows of an owner whose calls are gone.
LEMMA OpenData ==
  ASSUME DataInv, OwnerLeavesAlone, OpenJournal
  PROVE  DataInv'
<1>1. /\ \A c \in Appliers : hand[c].at = "idle"
      /\ hand' = hand /\ effect' = effect /\ receipts' = receipts
  BY Zenon DEF OpenJournal, OwnerLeavesAlone
<1>2. Asked' /\ LiveCallKeepsItsRow'
  BY <1>1, Zenon DEF Asked, LiveCallKeepsItsRow
<1>3. ASSUME NEW k \in ApplyIds
      PROVE  /\ casResult'[k] = IF casResult[k] = "calling" THEN "indeterminate" ELSE casResult[k]
             /\ journal'[k] = IF journal[k].state = "pending" THEN [journal[k] EXCEPT !.state = "indeterminate"] ELSE journal[k]
  BY Zenon DEF OpenJournal
<1>4. casResult' \in [ApplyIds -> {"no call", "calling"} \cup ApplyDecisions]
  BY Zenon DEF OpenJournal, DataInv, ApplyDecisions
<1>5. ASSUME NEW k \in ApplyIds
      PROVE  /\ journal'[k] \in Rows
             /\ journal[k].state = "pending" => journal'[k].state = "indeterminate" /\ journal'[k] # EmptyRow
             /\ journal[k].state # "pending" => journal'[k] = journal[k]
  <2>1. CASE journal[k].state = "pending"
    <3>1. journal[k] \in [state : {"pending"} \cup ApplyDecisions, intent : ApplyIntents]
      BY <2>1, RowFacts, Zenon
    <3>2. journal'[k] = [journal[k] EXCEPT !.state = "indeterminate"]
      BY <1>3, <2>1, Zenon
    <3>3. /\ journal'[k] \in [state : {"pending"} \cup ApplyDecisions, intent : ApplyIntents]
          /\ journal'[k].state = "indeterminate"
      BY <3>1, <3>2, Zenon DEF ApplyDecisions
    <3>4. journal'[k] # EmptyRow
      BY <3>3, EmptyState, Zenon
    <3> QED
      BY <2>1, <3>3, <3>4, Zenon DEF Rows
  <2>2. CASE journal[k].state # "pending"
    BY <1>3, <2>2, Zenon DEF DataInv
  <2> QED
    BY <2>1, <2>2, Zenon
<1>6. journal' \in [ApplyIds -> Rows]
  BY <1>5, Zenon DEF OpenJournal
<1>7. Answered'
  <2>1. ASSUME NEW k \in ApplyIds
        PROVE  /\ casResult[k] = "calling" => casResult'[k] = "indeterminate"
               /\ casResult[k] # "calling" => casResult'[k] = casResult[k]
    BY <1>3, Zenon
  <2>2. ASSUME NEW k \in ApplyIds
        PROVE  /\ journal'[k] = EmptyRow => casResult'[k] = "no call"
               /\ journal'[k].state \in ApplyDecisions \ {"indeterminate"} => casResult'[k] = journal'[k].state
    BY <1>5, <2>1, Zenon DEF DataInv, Answered, ApplyDecisions
  <2> QED
    BY <1>1, <2>1, <2>2, Zenon DEF DataInv, Answered
<1>8. Reported'
  <2>1. \A r \in receipts : r.id \in ApplyIds /\ journal[r.id].state # "pending"
    BY ReportFacts, RowFacts
  <2>2. \A r \in receipts : journal'[r.id] = journal[r.id]
    BY <1>5, <2>1, Zenon
  <2> QED
    BY <1>1, <2>2, Zenon DEF DataInv, Reported
<1> QED
  BY <1>1, <1>2, <1>4, <1>6, <1>7, <1>8, Zenon DEF DataInv
-----------------------------------------------------------------------------
(* The lock table.                                                         *)

INSTANCE FiniteSetTheorems

\* The calls that refer to an identity's entry.
Referring(k) == {c \in Appliers : hand[c].at # "idle" /\ Id(c) = k}

\* They are counted because calls are finitely many.
LEMMA Counted ==
  ASSUME NEW k
  PROVE  IsFiniteSet(Referring(k)) /\ Cardinality(Referring(k)) \in Nat
<1>1. Referring(k) \in SUBSET Appliers
  BY Zenon DEF Referring
<1>2. IsFiniteSet(Referring(k))
  BY <1>1, AppliersAreFinite, FS_Subset, Zenon
<1> QED
  BY <1>2, FS_CardinalityType, Zenon

\* A second call at an entry is seen in its count.
LEMMA NotAlone ==
  ASSUME NEW k, NEW c \in Referring(k), NEW d \in Referring(k), c # d
  PROVE  Cardinality(Referring(k)) # 1
BY Counted, FS_Singleton

\* The locks are what the invariants say, entry by entry.
LockInv == locks \in [ApplyIds -> [refs : Nat, token : BOOLEAN]] /\ Exclusive /\ LocksAreReturned

\* An entry's count is the number of the calls that refer to it.
LEMMA RefsCount ==
  LocksAreReturned <=>
    \A k \in ApplyIds :
      /\ locks[k].refs = Cardinality(Referring(k))
      /\ ~ locks[k].token => \E c \in Appliers : Holding(c) /\ Id(c) = k
BY Zenon DEF LocksAreReturned, Referring, Holding

\* Calls that only go on leave the counts alone.
LEMMA GoOnLocks ==
  ASSUME ApplyType, LockInv, NEW c \in Appliers, Holding(c), NEW at \in Stops \ {"wait"},
         HandTo(c, at), locks' = locks
  PROVE  LockInv'
<1>1. /\ hand'[c].at = at /\ hand'[c].id = hand[c].id
      /\ \A d \in Appliers \ {c} : hand'[d] = hand[d]
  BY HandMoves, Zenon DEF Holding
<1>2. \A d \in Appliers : /\ Holding(d)' <=> Holding(d)
                          /\ (hand'[d].at # "idle") <=> (hand[d].at # "idle")
                          /\ Id(d)' = Id(d)
  BY <1>1, Zenon DEF Holding, Id, Stops
<1>3. \A k : Referring(k)' = Referring(k)
  BY <1>2, Zenon DEF Referring
<1>4. Exclusive'
  BY <1>2, Zenon DEF LockInv, Exclusive
<1>5. LocksAreReturned'
  <2>1. \A k \in ApplyIds :
          /\ locks'[k].refs = Cardinality(Referring(k)')
          /\ ~ locks'[k].token => \E d \in Appliers : Holding(d)' /\ Id(d)' = k
    BY <1>2, <1>3, RefsCount, Zenon DEF LockInv
  <2> QED
    BY <2>1, Zenon DEF LocksAreReturned, Referring, Holding
<1> QED
  BY <1>4, <1>5, Zenon DEF LockInv

\* A call takes the token nobody has.
LEMMA TakeLocks ==
  ASSUME ApplyType, LockInv, NEW c \in Appliers, TakeToken(c)
  PROVE  LockInv'
<1>1. /\ hand[c].at = "wait" /\ locks[Id(c)].token
      /\ locks' = [locks EXCEPT ![Id(c)].token = FALSE] /\ HandTo(c, "begin")
  BY Zenon DEF TakeToken
<1>2. Id(c) \in ApplyIds
  BY <1>1, HandFacts, Zenon
<1>3. /\ hand'[c].at = "begin" /\ hand'[c].id = hand[c].id
      /\ \A d \in Appliers \ {c} : hand'[d] = hand[d]
  BY <1>1, HandMoves, Zenon DEF Stops
<1>4. /\ \A d \in Appliers : ((hand'[d].at # "idle") <=> (hand[d].at # "idle")) /\ Id(d)' = Id(d)
      /\ \A d \in Appliers \ {c} : Holding(d)' <=> Holding(d)
      /\ Holding(c)'
  BY <1>1, <1>3, Zenon DEF Holding, Id
<1>5. \A k : Referring(k)' = Referring(k)
  BY <1>4, Zenon DEF Referring
<1>6. \A d \in Appliers : Holding(d) => Id(d) # Id(c)
  BY <1>1, Zenon DEF LockInv, Exclusive
<1>7. /\ locks' \in [ApplyIds -> [refs : Nat, token : BOOLEAN]]
      /\ \A k \in ApplyIds : locks'[k].refs = locks[k].refs
      /\ ~ locks'[Id(c)].token /\ \A k \in ApplyIds \ {Id(c)} : locks'[k] = locks[k]
  BY <1>1, <1>2, Zenon DEF LockInv
<1>8. Exclusive'
  <2>1. \A d \in Appliers : Holding(d)' => ~ locks'[Id(d)'].token
    <3> SUFFICES ASSUME NEW d \in Appliers, Holding(d)' PROVE ~ locks'[Id(d)].token
      BY <1>4, Zenon
    <3>1. CASE Id(d) = Id(c)
      BY <3>1, <1>7, Zenon
    <3>2. CASE Id(d) # Id(c)
      <4>1. Holding(d)
        BY <3>2, <1>4, Zenon
      <4>2. Id(d) \in ApplyIds
        BY <4>1, HandFacts, Zenon DEF Holding
      <4> QED
        BY <3>2, <4>1, <4>2, <1>7, Zenon DEF LockInv, Exclusive
    <3> QED
      BY <3>1, <3>2, Zenon
  <2>2. \A d, e \in Appliers : Holding(d)' /\ Holding(e)' /\ Id(e)' = Id(d)' => e = d
    BY <1>4, <1>6, Zenon DEF LockInv, Exclusive
  <2> QED
    BY <2>1, <2>2, Zenon DEF Exclusive
<1>9. LocksAreReturned'
  <2>1. \A k \in ApplyIds : locks'[k].refs = Cardinality(Referring(k)')
    BY <1>5, <1>7, RefsCount, Zenon DEF LockInv
  <2>2. ASSUME NEW k \in ApplyIds, ~ locks'[k].token
        PROVE  \E d \in Appliers : Holding(d)' /\ Id(d)' = k
    <3>1. CASE k = Id(c)
      BY <1>4, <3>1, Zenon
    <3>2. CASE k # Id(c)
      <4>1. PICK d \in Appliers : Holding(d) /\ Id(d) = k
        BY <1>7, <2>2, <3>2, RefsCount, Zenon DEF LockInv
      <4> QED
        BY <1>4, <3>2, <4>1, Zenon
    <3> QED
      BY <3>1, <3>2, Zenon
  <2> QED
    BY <2>1, <2>2, Zenon DEF LocksAreReturned, Referring, Holding
<1> QED
  BY <1>7, <1>8, <1>9, Zenon DEF LockInv

\* A call joins the entry of its identity.
LEMMA EnterLocks ==
  ASSUME ApplyType, LockInv, NEW c \in Appliers, NEW k \in ApplyIds, NEW i \in ApplyIntents, EnterApply(c, k, i)
  PROVE  LockInv'
<1>1. /\ hand[c].at = "idle" /\ hand' = [hand EXCEPT ![c] = [at |-> "wait", id |-> k, intent |-> i]]
      /\ locks' = [locks EXCEPT ![k].refs = locks[k].refs + 1]
  BY Zenon DEF EnterApply
<1>2. /\ hand'[c].at = "wait" /\ hand'[c].id = k /\ \A d \in Appliers \ {c} : hand'[d] = hand[d]
  BY <1>1, Zenon DEF ApplyType
<1>3. \A d \in Appliers : (Holding(d)' <=> Holding(d)) /\ (Holding(d) => Id(d)' = Id(d))
  BY <1>1, <1>2, Zenon DEF Holding, Id
<1>4. /\ Referring(k)' = Referring(k) \cup {c} /\ c \notin Referring(k)
      /\ \A j \in ApplyIds \ {k} : Referring(j)' = Referring(j)
  BY <1>1, <1>2, Zenon DEF Referring, Id
<1>5. Cardinality(Referring(k)') = Cardinality(Referring(k)) + 1
  BY <1>4, Counted, FS_AddElement, ZenonT(30)
<1>6. /\ locks' \in [ApplyIds -> [refs : Nat, token : BOOLEAN]]
      /\ locks'[k].refs = locks[k].refs + 1 /\ locks'[k].token = locks[k].token
      /\ \A j \in ApplyIds \ {k} : locks'[j] = locks[j]
  BY <1>1 DEF LockInv
<1>7. \A j \in ApplyIds : locks'[j].token = locks[j].token
  BY <1>6, Zenon
<1>8. Exclusive'
  <2>1. \A d \in Appliers : Holding(d) => Id(d) \in ApplyIds
    BY HandFacts, Zenon DEF Holding
  <2> QED
    BY <1>3, <1>7, <2>1, Zenon DEF LockInv, Exclusive
<1>9. LocksAreReturned'
  <2>1. \A j \in ApplyIds : locks'[j].refs = Cardinality(Referring(j)')
    BY <1>4, <1>5, <1>6, RefsCount, Zenon DEF LockInv
  <2>2. ASSUME NEW j \in ApplyIds, ~ locks'[j].token
        PROVE  \E d \in Appliers : Holding(d)' /\ Id(d)' = j
    BY <1>3, <1>7, <2>2, RefsCount, Zenon DEF LockInv
  <2> QED
    BY <2>1, <2>2, Zenon DEF LocksAreReturned, Referring, Holding
<1> QED
  BY <1>6, <1>8, <1>9, Zenon DEF LockInv

\* An entry a call refers to is counted at least once.
LEMMA AtLeastOne ==
  ASSUME LockInv, NEW k \in ApplyIds, NEW c \in Referring(k)
  PROVE  /\ locks[k].refs = Cardinality(Referring(k)) /\ locks[k].refs - 1 \in Nat
         /\ Cardinality(Referring(k) \ {c}) = locks[k].refs - 1
<1>1. locks[k].refs = Cardinality(Referring(k))
  BY RefsCount, Zenon DEF LockInv
<1>2. /\ Cardinality(Referring(k) \ {c}) = Cardinality(Referring(k)) - 1
      /\ Cardinality(Referring(k) \ {c}) \in Nat
  BY Counted, FS_RemoveElement, FS_CardinalityType, Zenon
<1> QED
  BY <1>1, <1>2, Zenon

\* A call leaves its entry, which goes with the last one.  Whoever has the token of
\* the entry afterwards had it before.
LEMMA LeaveLocks ==
  ASSUME ApplyType, LockInv, NEW c \in Appliers, hand[c].at # "idle", NEW k \in ApplyIds, k = Id(c),
         hand' = [hand EXCEPT ![c] = Away],
         locks' \in [ApplyIds -> [refs : Nat, token : BOOLEAN]], locks'[k].refs = locks[k].refs - 1,
         \A j \in ApplyIds \ {k} : locks'[j] = locks[j],
         locks'[k].token <=> \A d \in Appliers \ {c} : ~ (Holding(d) /\ Id(d) = k)
  PROVE  LockInv'
<1>1. hand'[c].at = "idle" /\ \A d \in Appliers \ {c} : hand'[d] = hand[d]
  BY HandLeaves, Zenon
<1>2. ~ Holding(c)' /\ \A d \in Appliers \ {c} : (Holding(d)' <=> Holding(d)) /\ Id(d)' = Id(d)
  BY <1>1, Zenon DEF Holding, Id
<1>3. /\ Referring(k)' = Referring(k) \ {c} /\ c \in Referring(k)
      /\ \A j \in ApplyIds \ {k} : Referring(j)' = Referring(j)
  BY <1>1 DEF Referring, Id
<1>4. Cardinality(Referring(k)') = locks[k].refs - 1
  BY <1>3, AtLeastOne
<1>5. Exclusive'
  <2>1. ASSUME NEW d \in Appliers, Holding(d)'
        PROVE  d # c /\ Holding(d) /\ Id(d)' = Id(d) /\ ~ locks'[Id(d)].token
    <3>1. d # c /\ Holding(d) /\ Id(d)' = Id(d) /\ Id(d) \in ApplyIds
      BY <1>2, <2>1, HandFacts, Zenon DEF Holding
    <3> QED
      BY <3>1, Zenon DEF LockInv, Exclusive
  <2> QED
    BY <2>1 DEF LockInv, Exclusive
<1>6. LocksAreReturned'
  <2>1. \A j \in ApplyIds : locks'[j].refs = Cardinality(Referring(j)')
    BY <1>3, <1>4, RefsCount, Zenon DEF LockInv
  <2>2. ASSUME NEW j \in ApplyIds, ~ locks'[j].token
        PROVE  \E d \in Appliers : Holding(d)' /\ Id(d)' = j
    <3>1. CASE j = k
      BY <1>2, <2>2, <3>1, Zenon
    <3>2. CASE j # k
      <4>1. PICK d \in Appliers : Holding(d) /\ Id(d) = j
        BY <2>2, <3>2, RefsCount, Zenon DEF LockInv
      <4> QED
        BY <1>2, <3>2, <4>1, Zenon
    <3> QED
      BY <3>1, <3>2, Zenon
  <2> QED
    BY <2>1, <2>2, Zenon DEF LocksAreReturned, Referring, Holding
<1> QED
  BY <1>5, <1>6, Zenon DEF LockInv

\* What an entry is with one reference less.
LEMMA Dropped ==
  ASSUME LockInv, NEW k \in ApplyIds, NEW c \in Referring(k)
  PROVE  /\ Unreferenced(k) \in [refs : Nat, token : BOOLEAN] /\ Unreferenced(k).refs = locks[k].refs - 1
         /\ locks[k].refs = 1 => Unreferenced(k).token
         /\ locks[k].refs # 1 => (Unreferenced(k).token <=> locks[k].token)
<1>1. locks[k] \in [refs : Nat, token : BOOLEAN] /\ locks[k].refs - 1 \in Nat
  BY AtLeastOne, Zenon DEF LockInv
<1>2. CASE locks[k].refs = 1
  BY <1>2 DEF Unreferenced, NoEntry
<1>3. CASE locks[k].refs # 1
  BY <1>1, <1>3, Zenon DEF Unreferenced
<1> QED
  BY <1>2, <1>3, Zenon

\* The deferred unlock keeps the lock table.
LEMMA UnlockLocks ==
  ASSUME ApplyType, LockInv, NEW c \in Appliers, Holding(c), Leaves(c)
  PROVE  LockInv'
<1>1. PICK k \in ApplyIds : k = Id(c)
  BY HandFacts, Zenon DEF Holding
<1>2. hand' = [hand EXCEPT ![c] = Away] /\ hand[c].at # "idle" /\ c \in Referring(k)
  BY <1>1, Zenon DEF Leaves, Holding, Referring
<1>3. /\ locks' \in [ApplyIds -> [refs : Nat, token : BOOLEAN]] /\ locks'[k].refs = locks[k].refs - 1
      /\ locks'[k].token /\ \A j \in ApplyIds \ {k} : locks'[j] = locks[j]
  <2>1. locks' = [locks EXCEPT ![k] = [Unreferenced(k) EXCEPT !.token = TRUE]]
    BY <1>1, Zenon DEF Leaves
  <2>2. Unreferenced(k) \in [refs : Nat, token : BOOLEAN] /\ Unreferenced(k).refs = locks[k].refs - 1
    BY <1>2, Dropped, Zenon
  <2> QED
    BY <2>1, <2>2, Zenon DEF LockInv
<1>4. \A d \in Appliers \ {c} : ~ (Holding(d) /\ Id(d) = k)
  BY <1>1, Zenon DEF LockInv, Exclusive
<1> QED
  BY <1>1, <1>2, <1>3, <1>4, LeaveLocks, Zenon

\* A cancelled call drops its reference: were its entry dropped under the call
\* that has the token, that call would be counted too.
LEMMA GiveUpLocks ==
  ASSUME ApplyType, LockInv, NEW c \in Appliers, GiveUp(c)
  PROVE  LockInv'
<1>1. /\ hand[c].at = "wait" /\ hand' = [hand EXCEPT ![c] = Away]
      /\ locks' = [locks EXCEPT ![Id(c)] = Unreferenced(Id(c))]
  BY Zenon DEF GiveUp
<1>2. PICK k \in ApplyIds : k = Id(c)
  BY <1>1, HandFacts, Zenon
<1>3. locks[k] \in [refs : Nat, token : BOOLEAN] /\ c \in Referring(k)
  BY <1>1, <1>2, Zenon DEF LockInv, Referring
<1>4. locks[k].token <=> \A d \in Appliers \ {c} : ~ (Holding(d) /\ Id(d) = k)
  BY <1>1, <1>2, <1>3, RefsCount, Zenon DEF LockInv, Exclusive, Holding
<1>5. locks[k].refs = 1 => locks[k].token
  <2> SUFFICES ASSUME locks[k].refs = 1, ~ locks[k].token PROVE FALSE
    BY <1>3, Zenon
  <2>1. PICK d \in Appliers \ {c} : Holding(d) /\ Id(d) = k
    BY <1>4, Zenon
  <2>2. d \in Referring(k)
    BY <2>1, Zenon DEF Referring, Holding
  <2>3. Cardinality(Referring(k)) = 1
    BY <1>3, AtLeastOne, Zenon
  <2> QED
    BY <1>3, <2>1, <2>2, <2>3, NotAlone, Zenon
<1>6. /\ Unreferenced(k) \in [refs : Nat, token : BOOLEAN] /\ Unreferenced(k).refs = locks[k].refs - 1
      /\ Unreferenced(k).token <=> locks[k].token
  BY <1>3, <1>5, Dropped, Zenon
<1>7. /\ locks' \in [ApplyIds -> [refs : Nat, token : BOOLEAN]] /\ locks'[k] = Unreferenced(k)
      /\ \A j \in ApplyIds \ {k} : locks'[j] = locks[j]
  BY <1>1, <1>2, <1>6, Zenon DEF LockInv
<1> QED
  BY <1>1, <1>2, <1>4, <1>6, <1>7, LeaveLocks, ZenonT(30)

\* When no call is under way no entry is left.
LEMMA EmptyLocks ==
  ASSUME locks' = [k \in ApplyIds |-> NoEntry], hand' = [c \in Appliers |-> Away]
  PROVE  LockInv'
<1>1. \A c \in Appliers : hand'[c].at = "idle" /\ ~ Holding(c)'
  BY Zenon DEF Away, Holding
<1>2. \A k \in ApplyIds : Referring(k)' = {}
  BY <1>1, Zenon DEF Referring
<1>3. Cardinality({}) = 0
  BY FS_EmptySet, Zenon
<1>4. \A k \in ApplyIds : locks'[k].refs = Cardinality(Referring(k)') /\ locks'[k].token
  BY <1>2, <1>3, Zenon DEF NoEntry
<1>5. locks' \in [ApplyIds -> [refs : Nat, token : BOOLEAN]]
  BY Zenon DEF NoEntry
<1> QED
  BY <1>1, <1>4, <1>5, Zenon DEF LockInv, Exclusive, LocksAreReturned, Referring

-----------------------------------------------------------------------------
(* The invariant.                                                          *)

\* The invariant is the lock table's, the rows' and the owner's together.
LEMMA InvParts == JournalInv <=> ApplyType /\ DataInv /\ LockInv /\ OwnerLeavesAlone
BY Zenon DEF JournalInv, ApplyType, DataInv, LockInv

\* A journal starts with no row, no call and no entry.
LEMMA JournalStarts == ApplyInit => JournalInv
<1> SUFFICES ASSUME ApplyInit PROVE JournalInv
  BY Zenon
<1>1. \A c \in Appliers : hand[c] = Away /\ hand[c].at = "idle" /\ ~ Holding(c)
  BY Zenon DEF ApplyInit, Away, Holding
<1>2. \A k \in ApplyIds : journal[k] = EmptyRow /\ casResult[k] = "no call" /\ locks[k].refs = 0 /\ locks[k].token
  BY Zenon DEF ApplyInit, NoEntry
<1>3. ApplyType
  BY Zenon DEF ApplyInit, ApplyType, Rows, Hands, NoEntry
<1>4. LocksAreReturned
  <2>1. \A k \in ApplyIds : Referring(k) = {}
    BY <1>1, Zenon DEF Referring
  <2>2. Cardinality({}) = 0
    BY FS_EmptySet, Zenon
  <2> QED
    BY <1>2, <2>1, <2>2, RefsCount, Zenon
<1>5. Answered
  <2>1. \A k \in ApplyIds : journal[k].state = "none"
    BY <1>2, EmptyState, Zenon
  <2> QED
    BY <1>2, <2>1, Zenon DEF Answered, ApplyInit, ApplyDecisions
<1>6. Exclusive /\ Asked /\ LiveCallKeepsItsRow /\ OwnerLeavesAlone
  BY <1>1, Zenon DEF Exclusive, Asked, LiveCallKeepsItsRow, OwnerLeavesAlone
<1>7. Reported
  BY Zenon DEF ApplyInit, Reported
<1> QED
  BY <1>3, <1>4, <1>5, <1>6, <1>7, Zenon DEF JournalInv

\* What the parts say afterwards is the invariant afterwards.
LEMMA InvAgain ==
  ASSUME DataInv', LockInv', OwnerLeavesAlone'
  PROVE  JournalInv'
BY Zenon DEF JournalInv, ApplyType, DataInv, LockInv

\* A call comes, waits, gets its turn or gives up.
LEMMA CallStepInv ==
  ASSUME JournalInv, NEW c \in Appliers,
         \/ \E k \in ApplyIds, i \in ApplyIntents : EnterApply(c, k, i)
         \/ TakeToken(c)
         \/ GiveUp(c)
  PROVE  JournalInv'
<1>1. ApplyType /\ DataInv /\ LockInv /\ OwnerLeavesAlone
  BY InvParts, Zenon
<1>2. owner' = owner /\ journal' = journal /\ casResult' = casResult /\ effect' = effect /\ receipts' = receipts
  BY Zenon DEF EnterApply, TakeToken, GiveUp
<1>3. owner # "free"
  BY <1>1, Zenon DEF EnterApply, TakeToken, GiveUp, OwnerLeavesAlone
<1>4. /\ hand' \in [Appliers -> Hands]
      /\ \A d \in Appliers : hand'[d].at \in Live => hand'[d] = hand[d]
      /\ LockInv'
  <2>1. CASE \E k \in ApplyIds, i \in ApplyIntents : EnterApply(c, k, i)
    <3>1. PICK k \in ApplyIds, i \in ApplyIntents : EnterApply(c, k, i)
      BY <2>1, Zenon
    <3>2. hand' = [hand EXCEPT ![c] = [at |-> "wait", id |-> k, intent |-> i]]
      BY <3>1, Zenon DEF EnterApply
    <3>3. [at |-> "wait", id |-> k, intent |-> i] \in Hands
      BY Zenon DEF Hands, Stops
    <3>4. hand' \in [Appliers -> Hands] /\ hand'[c].at = "wait" /\ \A d \in Appliers \ {c} : hand'[d] = hand[d]
      BY <1>1, <3>2, <3>3, Zenon DEF ApplyType
    <3> QED
      BY <1>1, <3>1, <3>4, EnterLocks, Zenon DEF Live
  <2>2. CASE TakeToken(c)
    <3>1. hand[c].at # "idle" /\ HandTo(c, "begin")
      BY <2>2, Zenon DEF TakeToken
    <3>2. hand' \in [Appliers -> Hands] /\ hand'[c].at = "begin" /\ \A d \in Appliers \ {c} : hand'[d] = hand[d]
      BY <1>1, <3>1, HandMoves, Zenon DEF Stops
    <3> QED
      BY <1>1, <2>2, <3>2, TakeLocks, Zenon DEF Live
  <2>3. CASE GiveUp(c)
    <3>1. hand' \in [Appliers -> Hands] /\ hand'[c].at = "idle" /\ \A d \in Appliers \ {c} : hand'[d] = hand[d]
      BY <1>1, <2>3, HandLeaves, Zenon DEF GiveUp
    <3> QED
      BY <1>1, <2>3, <3>1, GiveUpLocks, Zenon DEF Live
  <2> QED
    BY <2>1, <2>2, <2>3, Zenon
<1>5. DataInv'
  BY <1>1, <1>2, <1>4, StayData, Zenon
<1> QED
  BY <1>2, <1>3, <1>4, <1>5, InvAgain, Zenon DEF OwnerLeavesAlone

\* The call that has the token begins, asks the applier, hears it and settles.
LEMMA HoldStepInv ==
  ASSUME JournalInv, NEW c \in Appliers, BeginApply(c) \/ CallCAS(c) \/ ReturnCAS(c) \/ CompleteApply(c)
  PROVE  JournalInv'
<1>1. ApplyType /\ DataInv /\ LockInv /\ OwnerLeavesAlone /\ Exclusive
  BY InvParts, Zenon DEF LockInv
<1>2. owner' = owner /\ hand[c].at \in {"begin", "cas", "called", "complete"}
  BY Zenon DEF BeginApply, CallCAS, ReturnCAS, CompleteApply
<1>3. OwnerLeavesAlone'
  BY <1>1, <1>2, Zenon DEF OwnerLeavesAlone
<1>4. Holding(c)
  BY <1>2, Zenon DEF Holding
<1>5. \/ Leaves(c)
      \/ locks' = locks /\ (HandTo(c, "cas") \/ HandTo(c, "called") \/ HandTo(c, "complete"))
  BY Zenon DEF BeginApply, CallCAS, ReturnCAS, CompleteApply
<1>6. LockInv'
  BY <1>1, <1>4, <1>5, UnlockLocks, GoOnLocks, Zenon DEF Stops
<1>7. DataInv'
  BY <1>1, BeginData, CallData, ReturnData, CompleteData, Zenon
<1> QED
  BY <1>3, <1>6, <1>7, InvAgain, Zenon

\* The owner closes, dies and is succeeded.
LEMMA OwnerStepInv ==
  ASSUME JournalInv, StopAdmission \/ ReleaseOwner \/ ApplyCrash \/ OpenJournal
  PROVE  JournalInv'
<1>1. ApplyType /\ DataInv /\ LockInv /\ OwnerLeavesAlone
  BY InvParts, Zenon
<1>2. CASE StopAdmission \/ ReleaseOwner
  <2>1. UNCHANGED <<journal, hand, locks, effect, casResult, receipts>>
    BY <1>2, Zenon DEF StopAdmission, ReleaseOwner
  <2>2. OwnerLeavesAlone'
    BY <1>2, Zenon DEF StopAdmission, ReleaseOwner, OwnerLeavesAlone
  <2>3. DataInv'
    BY <1>1, <2>1, StayData, Zenon DEF DataInv
  <2>4. LockInv'
    BY <1>1, <2>1, SMTT(30) DEF LockInv, Exclusive, LocksAreReturned, Holding, Id
  <2> QED
    BY <2>2, <2>3, <2>4, InvAgain, Zenon
<1>3. CASE ApplyCrash
  <2>1. \A c \in Appliers : hand'[c] = Away /\ hand'[c].at = "idle"
    BY <1>3, Zenon DEF ApplyCrash, Away
  <2>2. hand' \in [Appliers -> Hands]
    BY <1>3, Zenon DEF ApplyCrash, Hands
  <2>3. UNCHANGED <<journal, effect, casResult, receipts>>
    BY <1>3, Zenon DEF ApplyCrash
  <2>4. DataInv'
    BY <1>1, <2>1, <2>2, <2>3, StayData, Zenon DEF Live
  <2>5. LockInv'
    BY <1>3, EmptyLocks, Zenon DEF ApplyCrash
  <2> QED
    BY <2>1, <2>4, <2>5, InvAgain, Zenon DEF OwnerLeavesAlone
<1>4. CASE OpenJournal
  <2>1. hand' = hand /\ locks' = locks /\ owner' = "open"
    BY <1>4, Zenon DEF OpenJournal
  <2>2. LockInv'
    BY <1>1, <2>1, SMTT(30) DEF LockInv, Exclusive, LocksAreReturned, Holding, Id
  <2> QED
    BY <1>1, <1>4, <2>1, <2>2, OpenData, InvAgain, Zenon DEF OwnerLeavesAlone
<1> QED
  BY <1>2, <1>3, <1>4, Zenon

\* Every step keeps the invariant.
LEMMA JournalKept == JournalInv /\ [ApplyNext]_applyVars => JournalInv'
<1> SUFFICES ASSUME JournalInv, [ApplyNext]_applyVars PROVE JournalInv'
  BY Zenon
<1>1. CASE UNCHANGED applyVars
  <2>1. ApplyType /\ DataInv /\ LockInv /\ OwnerLeavesAlone
    BY InvParts, Zenon
  <2>2. UNCHANGED <<journal, owner, hand, locks, effect, casResult, receipts>>
    BY <1>1, Zenon DEF applyVars
  <2>3. DataInv'
    BY <2>1, <2>2, StayData, Zenon DEF DataInv
  <2>4. LockInv'
    BY <2>1, <2>2 DEF LockInv, Exclusive, LocksAreReturned, Holding, Id
  <2> QED
    BY <2>1, <2>2, <2>3, <2>4, InvAgain, Zenon DEF OwnerLeavesAlone
<1>2. CASE \E c \in Appliers : \/ \E k \in ApplyIds, i \in ApplyIntents : EnterApply(c, k, i)
                               \/ TakeToken(c) \/ GiveUp(c)
  BY <1>2, CallStepInv, Zenon
<1>3. CASE \E c \in Appliers : BeginApply(c) \/ CallCAS(c) \/ ReturnCAS(c) \/ CompleteApply(c)
  BY <1>3, HoldStepInv, Zenon
<1>4. CASE StopAdmission \/ ReleaseOwner \/ ApplyCrash \/ OpenJournal
  BY <1>4, OwnerStepInv, Zenon
<1> QED
  BY <1>1, <1>2, <1>3, <1>4, Zenon DEF ApplyNext

\* A receipt repeats the one terminal row of its identity, which repeats the
\* applier's true answer or says that it is not known.
LEMMA SoundReceipts == JournalInv => ReceiptsAreSound
<1> SUFFICES ASSUME JournalInv PROVE ReceiptsAreSound
  BY Zenon
<1>1. DataInv
  BY InvParts, Zenon
<1>2. ASSUME NEW r \in receipts
      PROVE  /\ r.decision = "success" => r.id \in effect
             /\ r.decision \in {"conflict", "rejected"} => r.id \notin effect
  <2>1. r.id \in ApplyIds /\ r.decision \in ApplyDecisions /\ journal[r.id].state = r.decision
    BY <1>1, ReportFacts, Zenon
  <2>2. r.decision # "indeterminate" => casResult[r.id] = r.decision
    BY <1>1, <2>1, Zenon DEF DataInv, Answered
  <2> QED
    BY <1>1, <2>1, <2>2, Zenon DEF DataInv, Answered
<1>3. ASSUME NEW r \in receipts, NEW other \in receipts, other.id = r.id
      PROVE  other = r
  <2>1. /\ r \in [id : ApplyIds, intent : ApplyIntents, decision : ApplyDecisions]
        /\ other \in [id : ApplyIds, intent : ApplyIntents, decision : ApplyDecisions]
    BY <1>1, Zenon DEF DataInv
  <2>2. [state |-> other.decision, intent |-> other.intent] = [state |-> r.decision, intent |-> r.intent]
    BY <1>1, <1>3, Zenon DEF DataInv, Reported
  <2>3. other.decision = r.decision /\ other.intent = r.intent
    BY <2>2, Zenon
  <2> QED
    BY <1>3, <2>1, <2>3
<1>4. ReceiptsAreTrue
  BY <1>2, <1>3, Zenon DEF ReceiptsAreTrue
<1> QED
  BY <1>4, Zenon DEF JournalInv, ReceiptsAreSound

\* What the agent is told of an Artifact is true and is told once; a live
\* external call keeps its row, another owner never meets one, and no identity
\* stays locked: Apply, close, death and recovery in any interleaving.
THEOREM ReceiptsSound == ApplySpec => []ReceiptsAreSound
BY JournalStarts, JournalKept, SoundReceipts, PTL DEF ApplySpec
-----------------------------------------------------------------------------
(* The journal implements the Store contract.                              *)

\* The journal's empty row is the contract's missing record.
LEMMA SameRow == EmptyRow = Contract!NoRecord
BY Zenon DEF EmptyRow, Contract!NoRecord

\* begin admits an intent, settles a row that was left pending, or repeats one.
LEMMA BeginImplements ==
  ASSUME JournalInv, NEW c \in Appliers, BeginApply(c)
  PROVE  Contract!ContractNext \/ UNCHANGED <<journal, casResult>>
<1>1. ApplyType /\ DataInv
  BY InvParts, Zenon
<1>2. hand[c].at = "begin" /\ casResult' = casResult
  BY Zenon DEF BeginApply
<1>3. PICK k \in ApplyIds : k = Id(c)
  BY <1>1, <1>2, HandFacts, Zenon
<1>4. hand[c].intent \in ApplyIntents
  BY <1>1, <1>2, HandFacts, Zenon
<1>5. \/ journal[k] = EmptyRow /\ journal' = [journal EXCEPT ![k] = [state |-> "pending", intent |-> hand[c].intent]]
      \/ journal[k].state = "pending" /\ journal' = Terminal(k, "indeterminate")
      \/ journal' = journal
  BY <1>3, Zenon DEF BeginApply
<1>6. CASE journal[k] = EmptyRow /\ journal' = [journal EXCEPT ![k] = [state |-> "pending", intent |-> hand[c].intent]]
  <2>1. Contract!Admit(k, hand[c].intent)
    BY <1>2, <1>6, SameRow, Zenon DEF Contract!Admit
  <2> QED
    BY <1>4, <2>1, Zenon DEF Contract!ContractNext
<1>7. CASE journal[k].state = "pending" /\ journal' = Terminal(k, "indeterminate")
  <2>1. Contract!Settle(k, "indeterminate")
    BY <1>2, <1>7, Zenon DEF Contract!Settle, Contract!Indeterminates, Terminal
  <2> QED
    BY <2>1, Zenon DEF Contract!ContractNext, ApplyDecisions
<1> QED
  BY <1>2, <1>5, <1>6, <1>7, Zenon

\* The applier is asked once, for a durable intent, and answers once.
LEMMA CallImplements ==
  ASSUME JournalInv, NEW c \in Appliers, CallCAS(c) \/ ReturnCAS(c)
  PROVE  Contract!ContractNext
<1>1. ApplyType /\ DataInv
  BY InvParts, Zenon
<1>2. journal' = journal /\ hand[c].at \in {"cas", "called"}
  BY Zenon DEF CallCAS, ReturnCAS
<1>3. PICK k \in ApplyIds : k = Id(c)
  BY <1>1, <1>2, HandFacts, Zenon
<1>4. CASE CallCAS(c)
  <2>1. hand[c].at = "cas" /\ casResult' = [casResult EXCEPT ![k] = "calling"]
    BY <1>3, <1>4, Zenon DEF CallCAS
  <2>2. casResult[k] = "no call" /\ journal[k] = [state |-> "pending", intent |-> hand[c].intent]
    BY <1>1, <1>3, <2>1, Zenon DEF DataInv, Asked, LiveCallKeepsItsRow
  <2>3. journal[k].state = "pending"
    BY <2>2, PendingRow, Zenon
  <2>4. Contract!Invoke(k)
    BY <1>2, <2>1, <2>2, <2>3, Zenon DEF Contract!Invoke
  <2> QED
    BY <2>4, Zenon DEF Contract!ContractNext
<1>5. CASE ReturnCAS(c)
  <2>1. hand[c].at = "called"
    BY <1>5, Zenon DEF ReturnCAS
  <2>2. PICK o \in ApplyDecisions : casResult' = [casResult EXCEPT ![k] = o]
    BY <1>3, <1>5, Zenon DEF ReturnCAS, Decision, ApplyDecisions
  <2>3. casResult[k] = "calling"
    BY <1>1, <1>3, <2>1, Zenon DEF DataInv, Asked
  <2>4. Contract!Return(k, o)
    BY <1>2, <2>2, <2>3, Zenon DEF Contract!Return
  <2> QED
    BY <2>4, Zenon DEF Contract!ContractNext
<1> QED
  BY <1>4, <1>5, Zenon

\* complete settles the row with what the call gave.
LEMMA CompleteImplements ==
  ASSUME JournalInv, NEW c \in Appliers, CompleteApply(c)
  PROVE  Contract!ContractNext \/ UNCHANGED <<journal, casResult>>
<1>1. ApplyType /\ DataInv
  BY InvParts, Zenon
<1>2. hand[c].at = "complete" /\ casResult' = casResult
  BY Zenon DEF CompleteApply
<1>3. PICK k \in ApplyIds : k = Id(c)
  BY <1>1, <1>2, HandFacts, Zenon
<1>4. casResult[k] \in ApplyDecisions
  BY <1>1, <1>2, <1>3, Zenon DEF DataInv, Asked
<1>5. \/ journal[k].state = "pending" /\ journal' = Terminal(k, casResult[k])
      \/ journal' = journal
  BY <1>3, Zenon DEF CompleteApply
<1>6. CASE journal[k].state = "pending" /\ journal' = Terminal(k, casResult[k])
  <2>1. Contract!Settle(k, casResult[k])
    BY <1>2, <1>6, Zenon DEF Contract!Settle, Contract!Indeterminates, Terminal
  <2> QED
    BY <1>4, <2>1, Zenon DEF Contract!ContractNext
<1> QED
  BY <1>2, <1>5, <1>6, Zenon

\* Every step of the journal is a step of the contract or none.
LEMMA StepImplements ==
  JournalInv /\ [ApplyNext]_applyVars => [Contract!ContractNext]_<<journal, casResult>>
<1> SUFFICES ASSUME JournalInv, [ApplyNext]_applyVars
             PROVE  Contract!ContractNext \/ UNCHANGED <<journal, casResult>>
  BY Zenon
<1>1. CASE UNCHANGED applyVars
  BY <1>1, Zenon DEF applyVars
<1>2. CASE \E c \in Appliers : \/ \E k \in ApplyIds, i \in ApplyIntents : EnterApply(c, k, i)
                               \/ TakeToken(c) \/ GiveUp(c)
  BY <1>2, Zenon DEF EnterApply, TakeToken, GiveUp
<1>3. CASE \E c \in Appliers : BeginApply(c) \/ CallCAS(c) \/ ReturnCAS(c) \/ CompleteApply(c)
  BY <1>3, BeginImplements, CallImplements, CompleteImplements, Zenon
<1>4. CASE StopAdmission \/ ReleaseOwner \/ ApplyCrash
  BY <1>4, Zenon DEF StopAdmission, ReleaseOwner, ApplyCrash
<1>5. CASE OpenJournal
  <2>1. Contract!Recover
    BY <1>5, Zenon DEF OpenJournal, Contract!Recover
  <2> QED
    BY <2>1, Zenon DEF Contract!ContractNext
<1> QED
  BY <1>1, <1>2, <1>3, <1>4, <1>5, Zenon DEF ApplyNext

\* The journal keeps the promise of a workspace Store: the intent is durable
\* before the applier is invoked, it is invoked at most once, and the record
\* becomes terminal once, with its answer or as "indeterminate".
THEOREM JournalImplementsStore == ApplySpec => ImplementsContract
<1>1. ApplyInit => Contract!ContractInit
  BY SameRow, Zenon DEF ApplyInit, Contract!ContractInit
<1> QED
  BY <1>1, JournalStarts, JournalKept, StepImplements, PTL DEF ApplySpec, ImplementsContract, Contract!ApplyContract
=============================================================================
