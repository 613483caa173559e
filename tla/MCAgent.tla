------------------------------- MODULE MCAgent -------------------------------
(* Three instances in one state space.  "leases" and "delivery" are        *)
(* AgentLedger alone, with commands of callers and workers that may all be *)
(* out of date: a command is issued with every revision and every fence    *)
(* within bounds.  "link" is AgentWorkerLink: one worker claims a task, is *)
(* fenced out of it and claims it again, while it accepts and rejects it.  *)
EXTENDS AgentWorkerLink

CONSTANTS t1, t2, ws1, w1, w2, x1, x2, b1, MaxFence, MaxRevision

OneWorkspace == [t \in Tasks |-> ws1]

Cmd(id, kind, t, w) ==
    [id |-> id, kind |-> kind, task |-> t, worker |-> w, fence |-> 0, revision |-> 0,
     ident |-> id, artifact |-> None, base |-> <<>>, decision |-> "rejected"]

ByCaller(id, kind, t) ==
    {[Cmd(id, kind, t, w1) EXCEPT !.revision = n] : n \in 1..MaxRevision}

ByWorker(id, kind, t, w) ==
    {[Cmd(id, kind, t, w) EXCEPT !.fence = f, !.revision = n] :
        f \in 1..MaxFence, n \in 1..MaxRevision}

(* Two workers, one of which is fenced out, and a caller on one task.      *)
LeaseCommands ==
    {Cmd("create", "create_task", t1, w1),
     Cmd("claim1", "claim_lease", t1, w1), Cmd("claim2", "acquire_lease", t1, w2),
     Cmd("claim3", "claim_lease", t1, w1)}
    \cup {[Cmd("fence", "fence_lease", t1, w) EXCEPT !.fence = f] : w \in {w1, w2}, f \in 1..MaxFence}
    \cup ByWorker("accept", "accept_task", t1, w1)
    \cup ByWorker("take", "accept_task", t1, w2)
    \cup ByWorker("reject", "reject_task", t1, w1)
    \cup ByWorker("ask", "request_input", t1, w1)
    \cup ByCaller("reply", "reply_task", t1)
    \cup ByWorker("fail", "fail_task", t1, w2)
    \cup ByWorker("done", "complete_task", t1, w1)
    \cup ByCaller("cancel", "cancel_task", t1)

(* One worker delivers an Artifact for each of two tasks of a workspace.   *)
DeliveryOf(t, x, names) ==
    {Cmd(names[1], "create_task", t, w1), Cmd(names[2], "acquire_lease", t, w1),
     [Cmd(names[3], "accept_task", t, w1) EXCEPT !.fence = 1, !.revision = 1],
     [Cmd(names[6], "cancel_task", t, w1) EXCEPT !.revision = 3]}
    \cup {[Cmd(names[4], "freeze_artifact", t, w1) EXCEPT
             !.fence = 1, !.revision = 2, !.artifact = x, !.base = base] :
             base \in {<<b1>>, <<b1, x1>>, <<b1, x2>>}}
    \cup {[Cmd(names[5], "complete_task", t, w1) EXCEPT
             !.fence = 1, !.revision = n, !.artifact = y] : n \in {2, 3}, y \in {x, None}}
    \cup {[Cmd(id, "record_apply_receipt", t, w1) EXCEPT
             !.ident = name, !.artifact = x, !.base = base, !.decision = d] :
             id \in {names[7], names[8]}, name \in {names[7], names[8]}, base \in {<<b1>>, <<b1, x1>>, <<b1, x2>>},
             d \in {"success", "conflict"}}

DeliveryCommands ==
    DeliveryOf(t1, x1, <<"create1", "lease1", "accept1", "freeze1", "done1", "cancel1", "apply1", "again1">>)
    \cup DeliveryOf(t2, x2, <<"create2", "lease2", "accept2", "freeze2", "done2", "cancel2", "apply2", "again2">>)

LinkCommands ==
    {Cmd("open", "create_task", t1, w1), [Cmd("close", "fence_lease", t1, w1) EXCEPT !.fence = 1]}

HumanReplies ==
    {[id |-> "yes", kind |-> "accept_task", worker |-> w1],
     [id |-> "no", kind |-> "reject_task", worker |-> w1]}

AllCommands == LeaseCommands \cup DeliveryCommands \cup LinkCommands

IDsOf(commands) == {c.id : c \in commands}

LeaseIDs == IDsOf(LeaseCommands)

AllIDs == IDsOf(AllCommands \cup HumanReplies) \cup ClaimIDs
-----------------------------------------------------------------------------
VARIABLE scene

SceneInit == LinkInit /\ scene \in {"leases", "delivery", "link"}

LedgerAlone(commands) ==
    /\ \E c \in commands : Perform(c) \/ Replay(c)
    /\ UNCHANGED <<endpoint, journal, wire, faults>>

SceneNext ==
    /\ UNCHANGED scene
    /\ \/ scene = "leases" /\ LedgerAlone(LeaseCommands)
       \/ scene = "delivery" /\ LedgerAlone(DeliveryCommands)
       \/ scene = "link" /\ LinkNext /\ client'[w2] = "off"

(* Only "link" has behaviours that are fair to the worker.                 *)
SceneSpec == SceneInit /\ [][SceneNext]_<<allVars, scene>> /\ FairWorker(w1)
=============================================================================
