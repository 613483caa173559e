--------------------------- MODULE MCLLMWorkerLink ---------------------------
(* One worker with its journal, connected to an instance of LLMService.    *)
EXTENDS LLMWorkerLink, TLC

CONSTANTS r1, r2, w1, e1, e2

Ask(r, mode) ==
    [key |-> r, digest |-> 1, task |-> None, affinity |-> 1, chat |-> FALSE,
     mode |-> mode, results |-> {}]

OneInput == {Ask(r1, "stream")}

FinalEvent == {[id |-> e1, worker |-> w1, kind |-> "final", calls |-> {}]}

(* A sign of life before the answer.                                       *)
AnswerEvents ==
    {[id |-> e1, worker |-> w1, kind |-> "progress", calls |-> {}],
     [id |-> e2, worker |-> w1, kind |-> "final", calls |-> {}]}
=============================================================================
