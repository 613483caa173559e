----------------------------- MODULE MCLLMCaller -----------------------------
(* Callers of one session and one worker that answers them.                *)
EXTENDS LLMCaller, TLC

CONSTANTS r1, r2, w1, e1, e2

Ask(r, mode) ==
    [key |-> r, digest |-> 1, task |-> None, affinity |-> 1, chat |-> FALSE,
     mode |-> mode, results |-> {}]

(* One key for a streamed and an aggregate request.                        *)
EitherInput == {Ask(r1, "stream"), [Ask(r1, "aggregate") EXCEPT !.digest = 2]}

SessionInputs == {Ask(r1, "aggregate"), Ask(r2, "stream")}

NoEvents == {}

FinalEvent == {[id |-> e2, worker |-> w1, kind |-> "final", calls |-> {}]}

AnswerEvents == {[id |-> e1, worker |-> w1, kind |-> "progress", calls |-> {}]} \cup FinalEvent

Symmetry == Permutations(Attempts)
=============================================================================
