------------------------------ MODULE LLMEvents ------------------------------
(***************************************************************************)
(* The vocabulary HumanLLM's durable records share: the states of a task,  *)
(* the kinds of worker event, and what planWorkerEvent and                 *)
(* aggregateTerminalStatus decide from them.  No state, only operators.    *)
(***************************************************************************)
EXTENDS Naturals

(* A task holding an unanswered request: its assignment is not yet ACKed   *)
(* ("leased") or is in front of the human ("awaiting_human").              *)
ActiveStates == {"leased", "awaiting_human"}

(* A task whose last response was a question or a batch of tool calls.     *)
IdleStates == {"awaiting_caller", "awaiting_results"}

TerminalStates == {"completed", "rejected", "expired", "failed"}

TaskStates == ActiveStates \cup IdleStates \cup TerminalStates

Kinds == {"accepted", "progress", "final", "clarification", "tool_calls",
          "rejected", "expired", "failed", "unavailable"}

Modes == {"stream", "aggregate"}

(* Every event but a sign of life closes the response.                     *)
EndsResponse(kind) == kind \notin {"accepted", "progress"}

(* planWorkerEvent accepts an event only while the human holds the         *)
(* assignment; an expiry may also beat the assignment's ACK.               *)
EventAllowed(kind, state) ==
    \/ state = "awaiting_human"
    \/ kind = "expired" /\ state = "leased"

(* The task state an accepted event leads to.  A chat task has no next     *)
(* turn of its own: a question or a tool call completes it.                *)
EventState(kind, state, chat) ==
    CASE kind \in {"accepted", "progress"} -> state
      [] kind = "final"                    -> "completed"
      [] kind = "clarification"            -> IF chat THEN "completed" ELSE "awaiting_caller"
      [] kind = "tool_calls"               -> IF chat THEN "completed" ELSE "awaiting_results"
      [] kind = "rejected"                 -> "rejected"
      [] kind = "expired"                  -> "expired"
      [] OTHER                             -> "failed"

(* The HTTP status an aggregate response is decided with.                  *)
AggregateTerminalStatus(kind) ==
    CASE kind = "rejected"    -> 409
      [] kind = "expired"     -> 504
      [] kind = "failed"      -> 500
      [] kind = "unavailable" -> 503
      [] OTHER                -> 200

Statuses == {0, 200, 409, 500, 503, 504}
=============================================================================
