---------------------------- MODULE MCLLMService ----------------------------
(* Small instances of LLMService: two requests of one session, the second  *)
(* able to continue or to take over the first one's task.                  *)
EXTENDS LLMService, TLC

CONSTANTS t1, r1, r2, w1, w2, e1, e2, c1, c2

Ask(r, mode, results) ==
    [key |-> r, digest |-> 1, task |-> None, affinity |-> 1, chat |-> FALSE,
     mode |-> mode, results |-> results]

SessionInputs == {Ask(r1, "stream", {}), Ask(r2, "aggregate", {c1})}

(* The same, or a chat beside the session.                                 *)
ChatInputs == SessionInputs \cup {[Ask(r2, "aggregate", {}) EXCEPT !.chat = TRUE]}

(* Exact retries of one request.                                           *)
RetryInputs == {Ask(r1, "aggregate", {})}

(* A key used for two requests, and a task the caller names, in the        *)
(* session the task belongs to or in another.                              *)
RoutingInputs ==
    {Ask(r1, "stream", {}), [Ask(r1, "stream", {}) EXCEPT !.digest = 2, !.task = t1, !.affinity = 2],
     [Ask(r2, "aggregate", {}) EXCEPT !.task = t1]}

Say(e, w, kind, calls) == [id |-> e, worker |-> w, kind |-> kind, calls |-> calls]

NoEvents == {}

FinalEvent == {Say(e2, w1, "final", {})}

(* Tool calls whose results the next request carries, some it does not,    *)
(* and an id used for two events.                                          *)
ToolEvents ==
    {Say(e1, w1, "tool_calls", {c1}), Say(e1, w1, "tool_calls", {c1, c2}), Say(e2, w1, "final", {})}

Symmetry == Permutations(Tasks) \cup Permutations(Attempts)
=============================================================================
