------------------------------- MODULE LLMCaller -------------------------------
(***************************************************************************)
(* llm.Service together with llm/callerhttp: what becomes of a response    *)
(* on its way to the caller.  Every attempt is an HTTP handler.  It admits *)
(* its request (LLMService), writes the page admission returned, and waits *)
(* with WaitResponse for the next one until the response is complete.  A   *)
(* handler that leaves before that tells the service its caller is gone,   *)
(* whichever other handlers serve the same request.                        *)
(***************************************************************************)
EXTENDS LLMService

CONSTANT PageLimit  \* response events a page takes

ASSUME PageAssumption == PageLimit \in Nat \ {0}

VARIABLE handler  \* writeResponse and the WaitResponse it is in, by attempt

callerVars == <<vars, handler>>

(* out is what the caller has been sent: response events and a status.     *)
NoHandler ==
    [pc |-> "idle", r |-> None, cursor |-> 0, complete |-> FALSE, status |-> 0,
     out |-> <<>>, sent |-> 0, woken |-> FALSE]

CallerInit == Init /\ handler = [a \in Attempts |-> NoHandler]

HandlerAt(a, pc) == up /\ handler[a].pc = pc

(* A page of the response after a cursor.  An aggregate's events are no    *)
(* wire events; its body comes with its status.                            *)
PageEnd(rec, after) == IF Len(rec.log) - after > PageLimit THEN after + PageLimit ELSE Len(rec.log)

\* mutant: a page of a closed response is taken for its last
WithPageUncounted(h, rec) ==
    LET end == PageEnd(rec, h.cursor)
    IN  [h EXCEPT !.pc = "page", !.cursor = end, !.status = rec.decision, !.woken = FALSE,
                  !.out = IF rec.mode = "stream" THEN @ \o SubSeq(rec.log, h.cursor + 1, end) ELSE @,
                  !.complete = rec.state = "closed"]

WithPage(h, rec) ==
    LET end == PageEnd(rec, h.cursor)
    IN  [h EXCEPT !.pc = "page", !.cursor = end, !.status = rec.decision, !.woken = FALSE,
                  !.out = IF rec.mode = "stream" THEN @ \o SubSeq(rec.log, h.cursor + 1, end) ELSE @,
                  !.complete = rec.state = "closed" /\ (rec.mode = "aggregate" \/ end = Len(rec.log))]

(* Admission answers with an error, or with the first page.                *)
HandlerStart(a) ==
    LET h == [NoHandler EXCEPT !.r = adm[a].input.key]
    IN  /\ AdmitReturn(a)
        /\ handler' = IF adm[a].reply = "response"
                      THEN [handler EXCEPT ![a] = WithPage(h, adm[a].req)] ELSE handler

(* writeResponse on the page it has: an undecided response is waited for,  *)
(* one that is complete without a decision is an error, a decided one is   *)
(* written as far as it goes.                                              *)
HandlerWrite(a) ==
    LET h == handler[a]
    IN  /\ HandlerAt(a, "page")
        /\ handler' = [handler EXCEPT ![a] =
             CASE h.status = 0 /\ h.complete -> [h EXCEPT !.pc = "exit", !.sent = 500]
               [] h.complete                 -> [h EXCEPT !.pc = "answered", !.sent = h.status]
               [] OTHER                      -> [h EXCEPT !.pc = "wait", !.sent = h.status]]
        /\ UNCHANGED vars

(* WaitResponse subscribes to the request's signal, reads the response,    *)
(* and sleeps unless it has advanced or is complete.                       *)
WaitSubscribe(a) ==
    /\ HandlerAt(a, "wait")
    /\ handler' = [handler EXCEPT ![a].pc = "reading", ![a].woken = FALSE]
    /\ UNCHANGED vars

\* mutant: the signal is subscribed to after the response was read
WaitReadFirst(a) ==
    LET next == WithPage(handler[a], request[handler[a].r])
    IN  /\ \/ /\ HandlerAt(a, "reading")
              /\ handler' = [handler EXCEPT ![a] =
                   IF next.complete THEN next ELSE [@ EXCEPT !.pc = "read"]]
           \/ /\ HandlerAt(a, "read")
              /\ handler' = [handler EXCEPT ![a].pc = "asleep", ![a].woken = FALSE]
        /\ UNCHANGED vars

WaitRead(a) ==
    LET h == handler[a]
        now == request[h.r]
        next == WithPage(h, now)
    IN  /\ HandlerAt(a, "reading")
        /\ handler' = [handler EXCEPT ![a] =
             IF now.pruned THEN [h EXCEPT !.pc = "exit"]
             ELSE IF next.cursor > h.cursor \/ next.complete THEN next
             ELSE [h EXCEPT !.pc = "asleep"]]
        /\ UNCHANGED vars

WaitWake(a) ==
    /\ HandlerAt(a, "asleep")
    /\ handler[a].woken
    /\ handler' = [handler EXCEPT ![a].pc = "wait"]
    /\ UNCHANGED vars

(* A stream's wait is cut short for a heartbeat frame.  Waiting for an     *)
(* aggregate's decision has no heartbeat.                                  *)
Heartbeat(a) ==
    /\ HandlerAt(a, "asleep")
    /\ request[handler[a].r].mode = "stream"
    /\ handler' = [handler EXCEPT ![a].pc = "wait"]
    /\ UNCHANGED vars

(* The caller's socket breaks: a wait is cancelled, a write fails.         *)
CallerGone(a) ==
    /\ up
    /\ "detach" \in Happens
    /\ handler[a].pc \in {"page", "wait", "reading", "asleep"}
    /\ handler' = [handler EXCEPT ![a].pc = "exit"]
    /\ UNCHANGED vars

(* The deferred DetachCaller of a handler that did not complete: it looks  *)
(* for its request among the active ones.                                  *)
HandlerExit(a) ==
    /\ HandlerAt(a, "exit")
    /\ \/ ~handler[a].complete /\ DetachCheck(handler[a].r)
       \/ /\ handler[a].complete \/ request[handler[a].r].state # "open"
          /\ UNCHANGED vars
    /\ handler' = [handler EXCEPT ![a] = NoHandler]

HandlerDone(a) ==
    /\ HandlerAt(a, "answered")
    /\ handler' = [handler EXCEPT ![a] = NoHandler]
    /\ UNCHANGED vars

(* signalResponse closes the channel every waiter of a request selects on. *)
Signalled(r) ==
    [a \in Attempts |->
       IF handler[a].r = r /\ handler[a].pc \in {"reading", "asleep"}
       THEN [handler[a] EXCEPT !.woken = TRUE] ELSE handler[a]]

(* commitWorkerEvent wakes the waiters when the event is durable, and when *)
(* it may be.                                                              *)
CommitStep(c) ==
    /\ OpStep(c)
    /\ handler' = IF op[c].pc = "settle" \/ op'[c].pc = "unknown" THEN Signalled(op[c].r) ELSE handler

(* Everything else the service does wakes nobody.                          *)
SilentStep ==
    /\ \/ \E a \in Attempts :
            \/ \E input \in Inputs : handler[a].pc = "idle" /\ AdmitBegin(a, input)
            \/ adm[a].pc # "done" /\ AdmitStep(a)
       \/ \E c \in Workers \cup {Expiry} : OpReturn(c)
       \/ \E w \in Workers : OpenWorker(w) \/ CloseWorker(w)
       \/ \E w \in Workers, r \in Requests :
            \/ Dispatch(w, r)
            \/ AckAssignment(w, r)
            \/ \E event \in WorkerEvents : CommitEvent(w, r, event)
       \/ \E r \in Requests : ExpireRequest(r) \/ DetachMark(r) \/ PruneRequest(r) \/ RecoverQuarantine(r)
       \/ Recover
    /\ UNCHANGED handler

(* A crash takes every caller's socket along.                              *)
CallerCrash == Crash /\ handler' = [a \in Attempts |-> NoHandler]

HandlerStep(a) ==
    \/ HandlerStart(a) \/ HandlerWrite(a) \/ WaitSubscribe(a) \/ WaitRead(a) \/ WaitWake(a)
    \/ Heartbeat(a) \/ HandlerExit(a) \/ HandlerDone(a)

CallerNext ==
    \/ SilentStep
    \/ \E c \in Workers \cup {Expiry} : CommitStep(c)
    \/ \E a \in Attempts : HandlerStep(a) \/ CallerGone(a)
    \/ CallerCrash

CallerSpec == CallerInit /\ [][CallerNext]_callerVars
-----------------------------------------------------------------------------
(* What a caller has been sent is the durable response: a prefix of it     *)
(* under way, all of it with its committed status at the end, however      *)
(* often it was retried and wherever pages, commits and prunes fell.       *)
ExactResponse ==
    \A a \in Attempts :
        LET h == handler[a]
            now == request[h.r]
        IN  h.pc # "idle" /\ ~now.pruned =>
              /\ now.mode = "stream" => h.out = SubSeq(now.log, 1, h.cursor)
              /\ h.pc = "answered" =>
                   /\ now.state = "closed"
                   /\ h.sent = now.decision
                   /\ now.mode = "stream" => h.out = now.log

(* Goroutines run and sockets that stay open are served.                   *)
FairCallerSpec ==
    /\ CallerSpec
    /\ \A a \in Attempts :
         /\ WF_callerVars(adm[a].pc # "done" /\ AdmitStep(a) /\ UNCHANGED handler)
         /\ WF_callerVars(HandlerStep(a))
    /\ \A c \in Workers \cup {Expiry} :
         /\ WF_callerVars(CommitStep(c))
         /\ WF_callerVars(OpReturn(c) /\ UNCHANGED handler)
    /\ WF_callerVars(Recover /\ UNCHANGED handler)

(* A handler asleep on a response that is complete wakes up: no wakeup is  *)
(* lost (WaitResponse waits until the response completes, and no longer).  *)
CompletionWakes ==
    \A a \in Attempts, r \in Requests :
        (handler[a].pc = "asleep" /\ handler[a].r = r /\ request[r].state = "closed")
            ~> handler[a].pc # "asleep"

(* A request is superseded only when nobody waits for it any more: a       *)
(* takeover is authorized by the loss of its caller, never against a live  *)
(* caller or a transport retry.                                            *)
OnlyAbandonedSuperseded ==
    [][\A r \in Requests :
         /\ request[r].state = "open"
         /\ request'[r].state = "closed"
         /\ request'[r].log = request[r].log
         /\ ~request'[r].quarantined
         => \A a \in Attempts : handler[a].r # r \/ handler[a].pc = "exit"]_callerVars

(* After a restart, which drops every caller's socket, a new request of    *)
(* the session is not turned away because of the one left unanswered.      *)
FreshTurnAfterRestart ==
    \A a \in Attempts :
        crashes > 0 /\ adm[a].pc = "done" /\ adm[a].reply = "conflict" =>
            \E b \in Attempts : handler[b].pc # "idle"

(* A caller gets its answer: an admitted request comes back into memory or *)
(* is closed, and whoever sleeps on it is woken by its completion.         *)
CallersAreServed == CompletionWakes /\ OpenRequestsReachMemory
=============================================================================
