-------------------------- MODULE LLMServiceProofs --------------------------
(***************************************************************************)
(* Proofs about LLMService for any tasks, requests, workers, concurrent    *)
(* calls, inputs, events, failures and crashes: whatever the interleaving  *)
(* of its handlers, the Store changes only as LLMLedger does, workers are  *)
(* told the truth, and no admitted request is lost.  Then the service with *)
(* its callers and with its workers.                                       *)
(***************************************************************************)
EXTENDS LLMServiceHandlerProofs, LLMEndsProofs, LLMLinkProofs

(* The invariant holds of a new service.                                   *)
LEMMA InitInv == Init => ServiceInv /\ OneOpenTaskPerSession /\ NoStrandedRequest
BY InitRows, InitLedgerInv, Zenon DEF ServiceInv, StoreInv

(* What a step keeps is the invariant.                                     *)
LEMMA KeptInv ==
    ASSUME ServiceInv, Kept
    PROVE  ServiceInv'
BY LedgerKept, Zenon DEF Kept, ServiceInv, StoreInv

(* What a step keeps of the responses.                                     *)
LEMMA KeptGrows ==
    ASSUME ServiceInv, Kept
    PROVE  Grows
BY LedgerGrows, Zenon DEF Kept, ServiceInv, StoreInv, StoreRows

(* The invariant of the service: records, snapshots, calls and memory.     *)
THEOREM ServiceInvariant == Spec => []ServiceInv
<1>1. Init => ServiceInv
  BY InitInv, Zenon
<1>2. ServiceInv /\ [Next]_vars => ServiceInv'
  BY StepKept, KeptInv, Zenon
<1> QED
  BY <1>1, <1>2, PTL DEF Spec

(* Whatever the interleaving of admissions, acknowledgements, events,      *)
(* expiry, retention, failures and crashes, a worker is told the truth of  *)
(* its event, an assignment is deliverable until it is acknowledged, and a *)
(* snapshot of the current revision is the current record.                 *)
THEOREM HandlersSound == Spec => []HandlersAreSound
BY ServiceInvariant, InvSound, PTL

(* The handlers of service.go, cut at every transaction, change the Store  *)
(* only by LLMLedger's operations.                                         *)
THEOREM ServiceImplementsLedger == Spec => ImplementsLedger
<1>1. Init => Ledger!Init
  BY InitLedger, Zenon
<1>2. ServiceInv /\ [Next]_vars => [UNCHANGED store \/ Ledger!Next]_(Ledger!vars)
  BY StepKept, Zenon DEF Kept
<1> QED
  BY <1>1, <1>2, ServiceInvariant, PTL DEF Spec, ImplementsLedger

(* Concurrent admissions never open two tasks for one session, and without *)
(* Store failures no admitted request is left out of memory.               *)
THEOREM AdmissionsSound == Spec => []AdmissionsAreSound
<1>1. Init => AdmissionsAreSound
  BY InitInv, Zenon DEF AdmissionsAreSound
<1>2. ServiceInv /\ AdmissionsAreSound /\ [Next]_vars => AdmissionsAreSound'
  BY StepKept, Zenon DEF Kept, SessionsKept, AdmissionsAreSound
<1> QED
  BY <1>1, <1>2, ServiceInvariant, PTL DEF Spec
-----------------------------------------------------------------------------
(* The service with its callers                                            *)

(* The service, its answers and its handlers.                              *)
LEMMA CallerInvariant == CallerSpec => [](ServiceInv /\ Replies /\ Handlers)
<1>1. CallerInit => ServiceInv /\ Replies /\ Handlers
  <2> SUFFICES ASSUME CallerInit PROVE ServiceInv /\ Replies /\ Handlers
    BY Zenon
  <2>1. ServiceInv
    BY InitInv, Zenon DEF CallerInit
  <2>2. Replies
    <3>1. \A a \in Attempts : adm[a].pc = "idle" /\ adm[a].reply = "none"
      BY Zenon DEF CallerInit, Init, NoAttempt
    <3> QED
      BY <3>1, Zenon DEF Replies, ReplyOK
  <2>3. Handlers
    <3>1. \A a \in Attempts : handler[a].pc = "idle" /\ DOMAIN handler[a] = HandlerFields
      BY Zenon DEF CallerInit, NoHandler, HandlerFields
    <3> QED
      BY <3>1, Zenon DEF Handlers, HandlerOK, CallerInit
  <2> QED
    BY <2>1, <2>2, <2>3, Zenon
<1>2. ServiceInv /\ Replies /\ Handlers /\ [CallerNext]_callerVars => (ServiceInv /\ Replies /\ Handlers)'
  <2> SUFFICES ASSUME ServiceInv, Replies, Handlers, CallerNext \/ UNCHANGED callerVars
               PROVE  (ServiceInv /\ Replies /\ Handlers)'
    BY Zenon
  <2>1. Kept
    BY CallerIsService, StepKept, Zenon
  <2>2. Grows /\ ServiceInv'
    BY <2>1, KeptGrows, KeptInv, Zenon
  <2> QED
    BY <2>2, CallerKept, Zenon
<1> QED
  BY <1>1, <1>2, PTL DEF CallerSpec

(* However many callers retry, leave and come back, and wherever pages,    *)
(* commits, prunes and crashes fall, a caller has been sent a prefix of    *)
(* the durable response and, at the end, all of it with its status.        *)
THEOREM ResponsesExact == CallerSpec => []ExactResponse
BY CallerInvariant, ServedExactly, PTL
-----------------------------------------------------------------------------
(* The service with its workers' links                                     *)

(* The service, its workers' journals and the frames between them.         *)
LEMMA LinkInvariant == LinkSpec => [](ServiceInv /\ AllLinks /\ AckedIsJournalled)
<1>1. LinkInit => ServiceInv /\ AllLinks /\ AckedIsJournalled
  BY InitInv, LinkStarts, Zenon DEF LinkInit
<1>2. ServiceInv' => Leases'
  BY InvLeases, PTL
<1>3. ServiceInv /\ AllLinks /\ AckedIsJournalled /\ [LinkNext]_allVars =>
        (ServiceInv /\ AllLinks /\ AckedIsJournalled)'
  <2> SUFFICES ASSUME ServiceInv, AllLinks, AckedIsJournalled, LinkNext \/ UNCHANGED allVars
               PROVE  (ServiceInv /\ AllLinks /\ AckedIsJournalled)'
    BY Zenon
  <2>1. Kept
    BY LinkIsService, StepKept, FailedReplyKept, Zenon
  <2>2. ServiceInv'
    BY <2>1, KeptInv, Zenon
  <2>3. Leases /\ Leases' /\ DOMAIN receipt = Requests
    BY <1>2, <2>2, InvLeases, Zenon
  <2>4. (ServiceStep => Quiet) /\ (ServiceStep => NotAcked)
    BY <2>3, ServiceQuiet, ServiceNotAcked, Zenon
  <2> QED
    BY <2>2, <2>3, <2>4, LinksKept, AckedKept, Zenon
<1> QED
  BY <1>1, <1>3, PTL DEF LinkSpec

(* Wherever connections break and whoever crashes, whatever commits fail   *)
(* or have an unknown outcome, and however the worker retries: a receipt   *)
(* settles the event it is for, what the worker's journal says of a        *)
(* settled event is true of the Store, no answer overtakes an earlier one, *)
(* and a task before its human is in the human's journal.                  *)
THEOREM LinksTrue == LinkSpec => []LinkIsTrue
BY LinkInvariant, LinksShown, PTL
=============================================================================
