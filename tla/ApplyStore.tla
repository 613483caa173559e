----------------------------- MODULE ApplyStore -----------------------------
(***************************************************************************)
(* What a workspace Store promises about applying an Artifact              *)
(* (workspace/apply.go, Store): the exact intent is durable before the     *)
(* external compare-and-swap is invoked, it is invoked at most once, and   *)
(* the record becomes terminal once, with what the call returned or with   *)
(* "indeterminate".                                                        *)
(***************************************************************************)
CONSTANTS Artifacts, Intents, Outcomes

VARIABLES record,    \* Artifact -> its durable record
          returned   \* Artifact -> "no call", "calling", or what the call gave

NoRecord == [state |-> "none", intent |-> ""]
Indeterminates == {"indeterminate"}

ContractInit == /\ record = [a \in Artifacts |-> NoRecord]
                /\ returned = [a \in Artifacts |-> "no call"]

Admit(a, i) == /\ record[a] = NoRecord
               /\ record' = [record EXCEPT ![a] = [state |-> "pending", intent |-> i]]
               /\ UNCHANGED returned

Invoke(a) == /\ record[a].state = "pending" /\ returned[a] = "no call"
             /\ returned' = [returned EXCEPT ![a] = "calling"]
             /\ UNCHANGED record

Return(a, o) == /\ returned[a] = "calling"
                /\ returned' = [returned EXCEPT ![a] = o]
                /\ UNCHANGED record

Settle(a, o) == /\ record[a].state = "pending"
                /\ o \in Indeterminates \cup {returned[a]}
                /\ record' = [record EXCEPT ![a].state = o]
                /\ UNCHANGED returned

\* Recovery settles every record of the previous owner at once, and the
\* calls of that owner are gone with it.
Recover == /\ record' = [a \in Artifacts |->
                           IF record[a].state = "pending"
                             THEN [record[a] EXCEPT !.state = "indeterminate"] ELSE record[a]]
           /\ returned' = [a \in Artifacts |->
                             IF returned[a] = "calling" THEN "indeterminate" ELSE returned[a]]

ContractNext == \/ \E a \in Artifacts : \/ \E i \in Intents : Admit(a, i)
                                        \/ Invoke(a)
                                        \/ \E o \in Outcomes : Return(a, o) \/ Settle(a, o)
                \/ Recover

ApplyContract == ContractInit /\ [][ContractNext]_<<record, returned>>
=============================================================================
