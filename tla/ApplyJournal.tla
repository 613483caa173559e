---------------------------- MODULE ApplyJournal ----------------------------
(***************************************************************************)
(* The caller-side apply journal (workspace/sqlite/journal.go): callers    *)
(* apply Artifacts concurrently, one at a time per identity, around an     *)
(* external compare-and-swap that runs outside any transaction; the owner  *)
(* of the file closes it while calls are running, dies, and is succeeded   *)
(* by another owner that recovers what it finds.  The terminal record is   *)
(* what the caller reports to the agent (a2a/caller_apply.go).             *)
(*                                                                         *)
(* An outcome is its decision and the revision it observed: the intended   *)
(* result, another one, or none.                                           *)
(***************************************************************************)
EXTENDS Integers, FiniteSets

CONSTANTS Appliers,      \* concurrent calls of Apply
          ApplyIds,      \* apply identities
          ApplyIntents,  \* canonical intents a caller may use for an identity
          ApplyBudget    \* [calls, faults, stops] a run may spend

ASSUME AppliersAreFinite == IsFiniteSet(Appliers)

VARIABLES journal,   \* identity -> row
          owner,     \* "open", "closing" or "free": the owner and its lock
          hand,      \* caller -> where its Apply is
          locks,     \* identity -> the entry of the lock table, refs 0 when absent
          effect,    \* history: identities whose change the applier made
          casResult, \* history: what the applier gave for an identity
          receipts,  \* receipts sent to the agent
          purse      \* what is left of ApplyBudget

applyVars == <<journal, owner, hand, locks, effect, casResult, receipts, purse>>

ApplyDecisions == {"success", "conflict", "rejected", "indeterminate"}
Observed == {"result", "other", "none"}
EmptyRow == [state |-> "none", intent |-> ""]
Away == [at |-> "idle"]
NoEntry == [refs |-> 0, token |-> TRUE]

ApplyInit ==
  /\ journal = [k \in ApplyIds |-> EmptyRow]
  /\ owner = "open"
  /\ hand = [c \in Appliers |-> Away]
  /\ locks = [k \in ApplyIds |-> NoEntry]
  /\ effect = {}
  /\ casResult = [k \in ApplyIds |-> "no call"]
  /\ receipts = {}
  /\ purse \in ApplyBudget

Pay(what) == purse[what] > 0 /\ purse' = [purse EXCEPT ![what] = @ - 1]
HandTo(c, at) == hand' = [hand EXCEPT ![c].at = at]
Id(c) == hand[c].id

\* ValidateCASOutcome.
ValidOutcome(decision, observed) ==
  /\ decision \in ApplyDecisions
  /\ decision = "success" => observed = "result"
  /\ decision = "conflict" => observed # "none"

-----------------------------------------------------------------------------

\* acquire counts a call in while the journal is open; lockIdentity then
\* creates or joins the entry of its identity.
EnterApply(c, k, i) ==
  /\ hand[c].at = "idle" /\ owner = "open" /\ Pay("calls")
  /\ hand' = [hand EXCEPT ![c] = [at |-> "wait", id |-> k, intent |-> i]]
  /\ locks' = [locks EXCEPT ![k].refs = @ + 1]
  /\ UNCHANGED <<journal, owner, effect, casResult, receipts>>

\* releaseIdentityReference drops the entry with its last reference.
Unreferenced(k) == IF locks[k].refs = 1 THEN NoEntry ELSE [locks[k] EXCEPT !.refs = @ - 1]

\* mutant: an entry is shared, its token is not waited for
TakeTokenAnyway(c) ==
  /\ hand[c].at = "wait"
  /\ locks' = [locks EXCEPT ![Id(c)].token = FALSE]
  /\ HandTo(c, "begin")
  /\ UNCHANGED <<journal, owner, effect, casResult, receipts, purse>>

TakeToken(c) ==
  /\ hand[c].at = "wait" /\ locks[Id(c)].token
  /\ locks' = [locks EXCEPT ![Id(c)].token = FALSE]
  /\ HandTo(c, "begin")
  /\ UNCHANGED <<journal, owner, effect, casResult, receipts, purse>>

\* The context of a waiting call is cancelled.
GiveUp(c) ==
  /\ hand[c].at = "wait"
  /\ locks' = [locks EXCEPT ![Id(c)] = Unreferenced(Id(c))]
  /\ hand' = [hand EXCEPT ![c] = Away]
  /\ UNCHANGED <<journal, owner, effect, casResult, receipts, purse>>

\* The deferred unlock puts the token back, then drops the reference.
Leaves(c) ==
  /\ hand' = [hand EXCEPT ![c] = Away]
  /\ locks' = [locks EXCEPT ![Id(c)] = [Unreferenced(Id(c)) EXCEPT !.token = TRUE]]

\* terminalizeApply.
Terminal(k, decision) == [journal EXCEPT ![k].state = decision]

\* NewApplyReceiptRequest: a receipt is made from a terminal record only.
SendReceipt(c, row) ==
  receipts' = IF row.state \in ApplyDecisions
                THEN receipts \cup {[id |-> Id(c), intent |-> row.intent, decision |-> row.state]}
                ELSE receipts

\* mutant: an exact retry of an unsettled row calls the applier again
BeginApplyAgain(c) ==
  /\ hand[c].at = "begin"
  /\ \/ /\ journal[Id(c)] = EmptyRow \/ journal[Id(c)] = [state |-> "pending", intent |-> hand[c].intent]
        /\ journal' = [journal EXCEPT ![Id(c)] = [state |-> "pending", intent |-> hand[c].intent]]
        /\ HandTo(c, "cas") /\ UNCHANGED <<locks, receipts>>
     \/ /\ journal[Id(c)].state \in ApplyDecisions
        /\ SendReceipt(c, journal[Id(c)]) /\ Leaves(c) /\ UNCHANGED journal
  /\ UNCHANGED <<owner, effect, casResult, purse>>

\* begin: an unused identity becomes durable as pending before anything else;
\* an exact retry replays, and settles a row without a terminal outcome.
BeginApply(c) ==
  /\ hand[c].at = "begin"
  /\ LET k == Id(c)
         row == journal[k]
         pending == [journal EXCEPT ![k] = [state |-> "pending", intent |-> hand[c].intent]]
         replayed == IF row.state = "pending" THEN Terminal(k, "indeterminate") ELSE journal
     IN \/ /\ row = EmptyRow
           /\ journal' = pending /\ HandTo(c, "cas")
           /\ UNCHANGED <<locks, receipts, purse>>
        \/ /\ row # EmptyRow /\ row.intent # hand[c].intent
           /\ Leaves(c) /\ UNCHANGED <<journal, receipts, purse>>
        \/ /\ row # EmptyRow /\ row.intent = hand[c].intent
           /\ journal' = replayed
           /\ SendReceipt(c, replayed[k]) /\ Leaves(c) /\ UNCHANGED purse
        \/ /\ Pay("faults")
           /\ journal' \in {journal} \cup (IF row = EmptyRow THEN {pending}
                                           ELSE IF row.intent = hand[c].intent THEN {replayed} ELSE {})
           /\ Leaves(c) /\ UNCHANGED receipts
  /\ UNCHANGED <<owner, effect, casResult>>

\* The external applier starts, and may change the workspace before it
\* returns.  Its valid answers are true; an error may mean either.
CallCAS(c) ==
  /\ hand[c].at = "cas"
  /\ casResult' = [casResult EXCEPT ![Id(c)] = "calling"]
  /\ effect' \in {effect, effect \cup {Id(c)}}
  /\ HandTo(c, "called")
  /\ UNCHANGED <<journal, owner, locks, receipts, purse>>

ApplierAnswers(k, decision, observed) ==
  ValidOutcome(decision, observed) =>
    /\ decision = "success" => k \in effect
    /\ decision \in {"conflict", "rejected"} => k \notin effect

\* An error, and an outcome that does not fit the intent, are indeterminate.
Decision(failed, decision, observed) ==
  IF failed \/ ~ ValidOutcome(decision, observed) THEN "indeterminate" ELSE decision

ReturnCAS(c) ==
  /\ hand[c].at = "called"
  /\ \E failed \in BOOLEAN, decision \in ApplyDecisions, observed \in Observed :
       /\ ~ failed => ApplierAnswers(Id(c), decision, observed)
       /\ casResult' = [casResult EXCEPT ![Id(c)] = Decision(failed, decision, observed)]
       /\ HandTo(c, "complete")
  /\ UNCHANGED <<journal, owner, locks, effect, receipts, purse>>

\* complete: terminal with the outcome, in a context of its own.  When the
\* commit fails the caller gets the pending record and an error.
CompleteApply(c) ==
  /\ hand[c].at = "complete"
  /\ LET k == Id(c)
         done == Terminal(k, casResult[k])
     IN \/ /\ journal[k].state = "pending" /\ journal[k].intent = hand[c].intent
           /\ journal' = done
           /\ SendReceipt(c, done[k]) /\ Leaves(c) /\ UNCHANGED purse
        \/ /\ Pay("faults")
           /\ journal' \in {journal} \cup (IF journal[k].state = "pending" THEN {done} ELSE {})
           /\ Leaves(c) /\ UNCHANGED receipts
  /\ UNCHANGED <<owner, effect, casResult>>

-----------------------------------------------------------------------------

\* close stops admission; the file and its lock go when the last call ended.
StopAdmission ==
  /\ owner = "open" /\ Pay("stops")
  /\ owner' = "closing"
  /\ UNCHANGED <<journal, hand, locks, effect, casResult, receipts>>

ReleaseOwner ==
  /\ owner = "closing" /\ \A c \in Appliers : hand[c].at = "idle"
  /\ owner' = "free"
  /\ UNCHANGED <<journal, hand, locks, effect, casResult, receipts, purse>>

\* The process dies; the operating system releases the owner lock.
ApplyCrash ==
  /\ owner # "free" /\ Pay("stops")
  /\ owner' = "free"
  /\ hand' = [c \in Appliers |-> Away]
  /\ locks' = [k \in ApplyIds |-> NoEntry]
  /\ UNCHANGED <<journal, effect, casResult, receipts>>

\* Open takes the lock; recoverPending settles every pending row without
\* calling the applier.
OpenJournal ==
  /\ owner = "free" /\ owner' = "open"
  /\ journal' = [k \in ApplyIds |-> IF journal[k].state = "pending"
                                      THEN [journal[k] EXCEPT !.state = "indeterminate"]
                                      ELSE journal[k]]
  /\ casResult' = [k \in ApplyIds |-> IF casResult[k] = "calling" THEN "indeterminate" ELSE casResult[k]]
  /\ UNCHANGED <<hand, locks, effect, receipts, purse>>

ApplyNext ==
  \/ \E c \in Appliers :
       \/ \E k \in ApplyIds, i \in ApplyIntents : EnterApply(c, k, i)
       \/ TakeToken(c) \/ GiveUp(c) \/ BeginApply(c)
       \/ CallCAS(c) \/ ReturnCAS(c) \/ CompleteApply(c)
  \/ StopAdmission \/ ReleaseOwner \/ ApplyCrash \/ OpenJournal

ApplySpec == ApplyInit /\ [][ApplyNext]_applyVars

-----------------------------------------------------------------------------
(* Properties.                                                             *)

\* The journal keeps the Store contract of workspace/apply.go: durable intent
\* before the external call, at most one call, one terminal record.
Contract == INSTANCE ApplyStore WITH Artifacts <- ApplyIds, Intents <- ApplyIntents,
              Outcomes <- ApplyDecisions, record <- journal, returned <- casResult
ImplementsContract == Contract!ApplyContract

\* While the external call of an identity runs, its row stays pending: a
\* concurrent exact retry waits for the identity's lock instead of settling
\* as "indeterminate" a call that is about to succeed.
LiveCallKeepsItsRow ==
  \A c \in Appliers :
    hand[c].at \in {"cas", "called", "complete"} =>
      journal[Id(c)] = [state |-> "pending", intent |-> hand[c].intent]

\* What the agent is told about an Artifact is one decision, and it is true:
\* success means the workspace was changed, conflict and rejection that it
\* was not, and no two receipts of an identity differ.
ReceiptsAreTrue ==
  \A r \in receipts :
    /\ r.decision = "success" => r.id \in effect
    /\ r.decision \in {"conflict", "rejected"} => r.id \notin effect
    /\ \A other \in receipts : other.id = r.id => other = r

\* The file is handed to another owner only when no call of this one is
\* running: recovery never settles the row of a live external call.
OwnerLeavesAlone == owner = "free" => \A c \in Appliers : hand[c].at = "idle"

\* The lock table forgets an identity exactly when no call refers to it, and
\* a free entry always has its token: no identity is ever locked for good.
LocksAreReturned ==
  \A k \in ApplyIds :
    /\ locks[k].refs = Cardinality({c \in Appliers : hand[c].at # "idle" /\ Id(c) = k})
    /\ ~ locks[k].token => \E c \in Appliers : hand[c].at \notin {"idle", "wait"} /\ Id(c) = k

\* What the agent is told of an Artifact is true because its external call is
\* alone: nobody settles its row meanwhile, neither a retry nor the next owner
\* of the file, and no identity stays locked (ApplyPort.Apply, recovery).
ReceiptsAreSound == ReceiptsAreTrue /\ LiveCallKeepsItsRow /\ OwnerLeavesAlone /\ LocksAreReturned
=============================================================================
