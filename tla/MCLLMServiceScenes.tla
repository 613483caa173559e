------------------------- MODULE MCLLMServiceScenes -------------------------
(* Several instances in one state space.  In "session" one call at a time  *)
(* admits the session's requests, and in "chat" a request and a chat,      *)
(* without failures and with retention.  In "retries" two calls admit one  *)
(* request exactly, with expiry and a Store failure or a crash; in         *)
(* "restart" one call after the other does, with both.  In "admissions"    *)
(* two calls reuse a key, in two sessions and with a task the caller names.*)
EXTENDS MCLLMService

CONSTANT Scenes

VARIABLE scene

SceneInputs == ChatInputs \cup RetryInputs

InputsOf ==
    [session |-> SessionInputs, retries |-> RetryInputs, restart |-> RetryInputs, admissions |-> RoutingInputs,
     chat |-> {Ask(r1, "stream", {})} \cup (ChatInputs \ SessionInputs)]

EventsOf ==
    [session |-> ToolEvents, chat |-> FinalEvent, retries |-> FinalEvent, restart |-> FinalEvent,
     admissions |-> NoEvents]

SceneInit == Init /\ scene \in Scenes

OneAtATime == \A a, b \in Attempts : a # b => "idle" \in {adm'[a].pc, adm'[b].pc}

Unfailing == faults' + crashes' = 0 /\ op'[Expiry].pc = "idle"

NoRetention == \A r \in Requests : ~request'[r].pruned

SceneNext ==
    /\ Next
    /\ scene \notin {"retries", "admissions"} => OneAtATime
    /\ scene = "retries" => faults' + crashes' <= 1
    /\ IF scene \in {"session", "chat", "admissions"} THEN Unfailing ELSE NoRetention
    /\ \A a \in Attempts : adm'[a].pc # "idle" => adm'[a].input \in InputsOf[scene]
    /\ \A w \in Workers : op'[w].event # None => op'[w].event \in EventsOf[scene]
    /\ UNCHANGED scene

SceneSpec == SceneInit /\ [][SceneNext]_<<vars, scene>>
=============================================================================
