---------------------------- MODULE MCCompletion ----------------------------
(***************************************************************************)
(* Instances of Completion for TLC.  A scene, chosen initially, says which *)
(* callers call, what the worker may answer and which faults may happen.   *)
(***************************************************************************)
EXTENDS Completion

CONSTANTS k1, k2, k3, t1, t2, d1, d2, w1, tc, s1, Scenes

VARIABLE scene

MCEvents ==
    [key: {k1, k2, k3}, type: {"accepted"} \cup Replies \cup Closing]

Req(k, t, d, stream, results) ==
    [key |-> k, task |-> t, digest |-> d, stream |-> stream, results |-> results]

First == Req(k1, t1, d1, TRUE, {})
FirstAggregate == Req(k1, t1, d1, FALSE, {})
Results == Req(k2, t1, d2, FALSE, {tc})
Again == Req(k3, t1, d1, TRUE, {})
Other == Req(k3, t2, d2, FALSE, {})

MCCalls == {First, FirstAggregate, Results, Again, Other}
MCCallsOf == [k \in {k1, k2, k3} |-> {tc}]
MCKeyOrder == <<k1, k2, k3>>
MCSessionOf == [t \in {t1, t2} |-> s1]

AllScenes ==
    [ (* a turn that ends with tool calls, and the turn with their results *)
      turns |-> [calls |-> {First, Results}, faults |-> {"Crash"},
                 answers |-> {Event(k1, "accepted"), Event(k1, "tools"), Event(k2, "accepted")}],
      (* one request, its worker and a connection that fails *)
      links |-> [calls |-> {FirstAggregate}, faults |-> {"Crash", "Drop"},
                 answers |-> {Event(k1, "accepted"), Event(k1, "final")}],
      (* a stream that is stopped or damaged *)
      stops |-> [calls |-> {First}, faults |-> {"Crash", "Shutdown", "Damage"},
                 answers |-> {Event(k1, "accepted"), Event(k1, "clarification")}],
      (* an admission that fails and is tried again, next to another task *)
      grants |-> [calls |-> {First, Again, Other}, faults |-> {"Crash", "HangUp", "Heartbeat"},
                  answers |-> {}],
      (* the chat tier, and the purge of its payload *)
      chats |-> [calls |-> {Other}, faults |-> {"Crash", "Damage", "Purge"},
                 answers |-> {Event(k3, "accepted"), Event(k3, "tools")}] ]

MCInit == Init /\ scene \in Scenes

May(fault) == fault \in AllScenes[scene].faults

MCNext ==
    /\ \/ Steady
       \/ May("Purge") /\ PurgeExpired
       \/ May("Heartbeat") /\ \E k \in Keys : Heartbeat(k)
       \/ May("Crash") /\ Crash
       \/ May("Shutdown") /\ Shutdown
       \/ May("Drop") /\ Drop
       \/ May("HangUp") /\ \E c \in Calls : HangUp(c)
       \/ May("Damage") /\ \E k \in Keys : Damage(k)
    /\ UNCHANGED scene
    /\ \A c \in Calls \ AllScenes[scene].calls : call'[c] = "idle"
    /\ made' \subseteq AllScenes[scene].answers

MCSpec == MCInit /\ [][MCNext]_<<vars, scene>>
MCFairSpec == MCSpec /\ Fairness
=============================================================================
