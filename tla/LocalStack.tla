----------------------------- MODULE LocalStack -----------------------------
(***************************************************************************)
(* The process `human local`: Open assembles the service, the model        *)
(* server, the in-process worker and the web server one after the other,   *)
(* any stage may fail, and Close takes everything down again while         *)
(* requests, sweeps, the worker's loop and browsers are still at work.     *)
(* The browsers learn of the worker's changes through two coalescing       *)
(* signals: worker.notifications and one channel for each event stream.    *)
(***************************************************************************)
EXTENDS Naturals, Sequences, FiniteSets

CONSTANT StackScenes  \* what fails, how much work arrives, who closes

Budgets == {"faults", "work", "changes", "streams", "closes", "cancels", "slow"}

ASSUME ScenesAreBudgets ==
    \A s \in StackScenes : DOMAIN s = Budgets \cup {"browsers"} /\ \A k \in Budgets : s[k] \in Nat

VARIABLES
    stack,    \* the Local value: what it holds, how far Open and Close are
    threads,  \* its goroutines and the requests being handled
    screen,   \* the worker's state as a version, and who still has to hear of it
    spend     \* the scene and what it still allows

stackVars == <<stack, threads, screen, spend>>

Stages ==
    <<"listener", "service", "caller", "http", "connection", "state", "mirror", "worker", "web", "webhttp">>

Sweeps == {"retention", "expiry"}
Users == {"call", "command", "loop"} \cup Sweeps

StackInit ==
    /\ spend \in StackScenes
    /\ stack = [stage |-> 1, held |-> {}, phase |-> "opening", step |-> 0, cancelled |-> FALSE,
                shut |-> FALSE, err |-> "none", asked |-> FALSE, late |-> FALSE]
    /\ threads = [t \in Users \cup {"serve", "webserve", "dispatch", "notices", "watch"} |-> "off"]
    /\ screen = [version |-> 0, owed |-> {}, silent |-> FALSE, pending |-> FALSE, pump |-> "off",
                 view |-> [b \in spend.browsers |-> [mode |-> "off", shown |-> 0, signal |-> FALSE]]]

SpendOne(what) == spend[what] > 0 /\ spend' = [spend EXCEPT ![what] = @ - 1]
Becomes(t, s) == threads' = [threads EXCEPT ![t] = s]
-----------------------------------------------------------------------------
(* Close: the steps in their order.  Step 0: Close was not called; the     *)
(* step after the last one: it has returned.                               *)

CloseOrder == <<"http", "serve", "caller", "web", "webhttp", "worker", "mirror", "state", "service">>

Place(c) == CHOOSE i \in DOMAIN CloseOrder : CloseOrder[i] = c
Stopping(c) == stack.step >= Place(c)
Over == Len(CloseOrder) + 1
Returned == stack.step = Over

Idle(t) == threads[t] \in {"off", "done"}
InService == {u \in Users : threads[u] = "op"}

\* What a step waits for: http.Server.Shutdown for its handlers, the caller
\* transport for the ones that passed beginHandler, the web server for its
\* pump, the worker for its loop, the mirror for its own, the service for its
\* operations and the worker connection.
Drained(c) ==
    CASE c = "http" -> threads["call"] = "off"
      [] c = "serve" -> threads["serve"] = "done"
      [] c = "caller" -> threads["call"] \notin {"run", "op"}
      [] c = "web" -> screen.pump = "done"
      [] c = "webhttp" -> threads["command"] = "off" /\ \A b \in spend.browsers : screen.view[b].mode = "off"
      [] c = "worker" -> threads["notices"] = "done" /\ threads["loop"] = "done"
      [] c = "mirror" -> threads["watch"] = "done"
      [] c = "state" -> TRUE
      [] c = "service" -> InService = {} /\ Idle("dispatch")

\* These waits end with the shutdown timeout; stopNotices has none.
Timed(c) ==
    c \in {"http", "caller", "web", "webhttp", "service"} \/ (c = "worker" /\ threads["notices"] = "done")

\* Open has failed once the Close it called has returned.
Advance(s, to) ==
    [s EXCEPT !.step = to, !.phase = IF to = Over /\ @ = "failing" THEN "failed" ELSE @]

\* mutant: without a model server its listener is forgotten
CloseModelServerOnly ==
    IF "http" \in stack.held
    THEN stack' = [stack EXCEPT !.step = 2]
    ELSE stack' = [stack EXCEPT !.step = 3]

\* After the model server has drained, or was given up on, serve's end is
\* awaited; without a model server its listener is closed.
CloseModelServer ==
    IF "http" \in stack.held
    THEN stack' = [stack EXCEPT !.step = 2]
    ELSE stack' = [stack EXCEPT !.step = 3, !.held = @ \ {"listener"}]

Releases(c) ==
    CASE c = "serve" -> {"http", "listener"}
      [] c = "service" -> {"service", "connection"}
      [] OTHER -> {c}

StillHeld(c) == (IF c = "serve" THEN "http" ELSE c) \in stack.held

CloseStep ==
    /\ ~Returned
    /\ stack.step > 0
    /\ LET c == CloseOrder[stack.step]
       IN  /\ StillHeld(c) => Drained(c)
           /\ IF c = "http"
              THEN CloseModelServer
              ELSE stack' = [Advance(stack, stack.step + 1) EXCEPT !.held = @ \ Releases(c)]
    /\ UNCHANGED <<threads, screen, spend>>

\* A shutdown runs into its deadline: Close goes on without what it waited
\* for.  The service alone still releases its store later (finishShutdown).
CloseGivesUp ==
    /\ ~Returned
    /\ stack.step > 0
    /\ LET c == CloseOrder[stack.step]
       IN  /\ StillHeld(c) /\ Timed(c) /\ ~Drained(c)
           /\ stack' = [Advance(stack, stack.step + 1) EXCEPT
                          !.late = TRUE, !.held = IF c \in {"http", "service"} THEN @ ELSE @ \ {c}]
    /\ SpendOne("slow")
    /\ UNCHANGED <<threads, screen>>

FinishShutdown ==
    /\ Returned /\ "service" \in stack.held /\ Drained("service")
    /\ stack' = [stack EXCEPT !.held = @ \ Releases("service")]
    /\ UNCHANGED <<threads, screen, spend>>

\* closeOnce: a second call waits for the first one and changes nothing.
Closing(s) == [s EXCEPT !.step = 1, !.cancelled = TRUE, !.asked = TRUE]

HostCloses ==
    /\ stack.phase = "ready" /\ stack.step = 0 /\ SpendOne("closes")
    /\ stack' = Closing(stack)
    /\ UNCHANGED <<threads, screen>>

\* The goroutine Open leaves behind closes the stack when its context ends.
ContextCloses ==
    /\ stack.phase = "ready" /\ stack.step = 0 /\ stack.cancelled
    /\ stack' = Closing(stack)
    /\ UNCHANGED <<threads, screen, spend>>

HostCancels ==
    /\ stack.phase \in {"opening", "ready"} /\ stack.stage > 1 /\ ~stack.cancelled /\ SpendOne("cancels")
    /\ stack' = [stack EXCEPT !.cancelled = TRUE, !.asked = TRUE]
    /\ UNCHANGED <<threads, screen>>
-----------------------------------------------------------------------------
(* Open.                                                                   *)

OpenStage(names) ==
    /\ stack.phase = "opening"
    /\ stack.stage \in DOMAIN Stages
    /\ Stages[stack.stage] \in names
    /\ stack' = [stack EXCEPT !.stage = @ + 1, !.held = @ \cup {Stages[stack.stage]}]

Launched(names) == [t \in DOMAIN threads |-> IF t \in names THEN "run" ELSE threads[t]]

\* The model server's side: with the server, serve and both sweeps start.
OpenModelSide ==
    /\ OpenStage({"listener", "service", "caller", "http"})
    /\ threads' = IF Stages[stack.stage] = "http"
                  THEN [Launched(Sweeps) EXCEPT !["serve"] = "on"] ELSE threads
    /\ UNCHANGED <<screen, spend>>

\* The human's side: the connection, its state and mirror, the worker with
\* its loop, the web server with its pump, and the server in front of it.
OpenHumanSide ==
    /\ OpenStage({"connection", "state", "mirror", "worker", "web", "webhttp"})
    /\ threads' = [t \in DOMAIN threads |->
                     CASE Stages[stack.stage] = "connection" /\ t = "dispatch" -> "on"
                       [] Stages[stack.stage] = "mirror" /\ t = "watch" -> "on"
                       [] Stages[stack.stage] = "worker" /\ t = "notices" -> "on"
                       [] Stages[stack.stage] = "worker" /\ t = "loop" -> "idle"
                       [] Stages[stack.stage] = "webhttp" /\ t = "webserve" -> "on"
                       [] OTHER -> threads[t]]
    /\ screen' = [screen EXCEPT !.pump = IF Stages[stack.stage] = "web" THEN "idle" ELSE @]
    /\ UNCHANGED spend

\* A stage fails by itself or because the context has ended: nothing was
\* opened yet, or Close undoes what was.  Starting serve and the sweeps cannot
\* fail.  A worker that does not open leaves the goroutine of its notices behind.
OpenFails ==
    /\ stack.phase = "opening" /\ stack.stage \in DOMAIN Stages
    /\ \/ Stages[stack.stage] # "http" /\ SpendOne("faults")
       \/ /\ stack.cancelled /\ UNCHANGED spend
          /\ Stages[stack.stage] \in {"service", "caller", "connection", "state", "mirror", "worker"}
    /\ stack' = IF stack.stage = 1 THEN [stack EXCEPT !.phase = "failed"]
                ELSE [Closing(stack) EXCEPT !.phase = "failing"]
    /\ threads' = IF Stages[stack.stage] = "worker" THEN [threads EXCEPT !["notices"] = "on"] ELSE threads
    /\ UNCHANGED screen

\* The last look before Open returns: a server that stopped meanwhile fails it.
OpenReturns ==
    /\ stack.phase = "opening" /\ stack.stage > Len(Stages)
    /\ stack' = IF threads["serve"] = "done" THEN [Closing(stack) EXCEPT !.phase = "failing"]
                ELSE [stack EXCEPT !.phase = "ready"]
    /\ UNCHANGED <<threads, screen, spend>>
-----------------------------------------------------------------------------
(* The servers and the sweeps.                                             *)

ServeReturns ==
    /\ \/ threads["serve"] = "on" /\ (stack.shut \/ stack.step > 0)
       \/ threads["serve"] = "failed"
    /\ Becomes("serve", "done")
    /\ UNCHANGED <<stack, screen, spend>>

\* Accept fails: the error is kept for Wait and the stack's context ends.
ServeFails ==
    /\ threads["serve"] = "on" /\ ~stack.shut /\ stack.step = 0 /\ SpendOne("faults")
    /\ Becomes("serve", "failed")
    /\ stack' = [stack EXCEPT !.err = "accept", !.cancelled = TRUE]
    /\ UNCHANGED screen

WebServeReturns ==
    /\ threads["webserve"] = "on" /\ Stopping("webhttp")
    /\ Becomes("webserve", "done")
    /\ UNCHANGED <<stack, screen, spend>>

WebServeFails ==
    /\ threads["webserve"] = "on" /\ ~Stopping("webhttp") /\ SpendOne("faults")
    /\ Becomes("webserve", "failing")
    /\ UNCHANGED <<stack, screen>>

\* failPublicBackground: the first error is kept, then the model server is
\* closed, which is what ends Wait.
failPublicBackground(t) ==
    \/ /\ threads[t] = "failing"
       /\ Becomes(t, "failed")
       /\ stack' = [stack EXCEPT !.err = IF @ = "none" THEN "background" ELSE @]
    \/ /\ threads[t] = "failed"
       /\ Becomes(t, "done")
       /\ stack' = [stack EXCEPT !.shut = TRUE]

BackgroundFails ==
    /\ \E t \in Sweeps \cup {"webserve"} : failPublicBackground(t)
    /\ UNCHANGED <<screen, spend>>

\* startPublicRetention and startPublicExpiry: one sweep at once and one at
\* each tick, until the context ends.  An error that is not the context's
\* brings the stack down.
Sweep(t) ==
    \/ threads[t] = "idle" /\ SpendOne("work") /\ Becomes(t, "run")
    \/ threads[t] = "idle" /\ stack.cancelled /\ Becomes(t, "done") /\ UNCHANGED spend
    \/ threads[t] = "run" /\ Becomes(t, "idle") /\ UNCHANGED spend
    \/ threads[t] = "run" /\ ~stack.cancelled /\ SpendOne("faults") /\ Becomes(t, "failing")

SweepStep == (\E t \in Sweeps : Sweep(t)) /\ UNCHANGED <<stack, screen>>
-----------------------------------------------------------------------------
(* Requests, and what they do inside the service and the worker's state.   *)

\* A caller's request reaches the model server and passes beginHandler unless
\* the transport is closing.
CallArrives ==
    /\ threads["call"] = "off" /\ threads["serve"] = "on" /\ ~stack.shut /\ stack.step = 0 /\ SpendOne("work")
    /\ Becomes("call", "arrived")
    /\ UNCHANGED <<stack, screen>>

BeginHandler ==
    /\ threads["call"] = "arrived"
    /\ Becomes("call", IF Stopping("caller") THEN "off" ELSE "run")
    /\ UNCHANGED <<stack, screen, spend>>

CommandArrives ==
    /\ threads["command"] = "off" /\ threads["webserve"] = "on" /\ ~Stopping("webhttp") /\ SpendOne("work")
    /\ Becomes("command", "run")
    /\ UNCHANGED <<stack, screen>>

HandlerEnds ==
    /\ \E u \in {"call", "command"} :
         threads[u] = "run" /\ u \notin screen.owed /\ Becomes(u, "off")
    /\ UNCHANGED <<stack, screen, spend>>

\* beginOperation: an operation of the service starts unless it is closing,
\* and is counted until it ends.
BeginOperation ==
    /\ \E u \in Users : threads[u] = "run" /\ Becomes(u, "op")
    /\ ~Stopping("service")
    /\ UNCHANGED <<stack, screen, spend>>

EndOperation ==
    /\ \E u \in Users : threads[u] \in {"op", "keep"} /\ Becomes(u, "run")
    /\ UNCHANGED <<stack, screen, spend>>

\* A command of the human, or the worker's loop, reads or writes the worker's
\* state store.
TouchState ==
    /\ \E u \in {"command", "loop"} : threads[u] = "run" /\ Becomes(u, "keep")
    /\ UNCHANGED <<stack, screen, spend>>

\* Worker.run: an assignment, a rejection, a notice or a review; or its end.
LoopStep ==
    /\ \/ threads["loop"] = "idle" /\ SpendOne("work") /\ Becomes("loop", "run")
       \/ threads["loop"] = "run" /\ "loop" \notin screen.owed /\ Becomes("loop", "idle") /\ UNCHANGED spend
       \/ /\ threads["loop"] = "idle" /\ (Stopping("worker") \/ threads["dispatch"] = "done")
          /\ Becomes("loop", "done") /\ UNCHANGED spend
    /\ UNCHANGED <<stack, screen>>

\* The connection's goroutine ends with the service, the one that forwards its
\* notices with the connection or the worker, and the mirror's with its watcher.
GoroutineEnds ==
    /\ \/ threads["dispatch"] = "on" /\ Stopping("service") /\ Becomes("dispatch", "done")
       \/ /\ threads["notices"] = "on"
          /\ (Stopping("worker") /\ "worker" \in stack.held) \/ threads["dispatch"] = "done"
          /\ Becomes("notices", "done")
       \/ threads["watch"] = "on" /\ Stopping("mirror") /\ Becomes("watch", "done")
    /\ UNCHANGED <<stack, screen, spend>>
-----------------------------------------------------------------------------
(* The browsers.                                                           *)

View(b, mode, signal) == [screen EXCEPT !.view[b].mode = mode, !.view[b].signal = signal]

\* A change of the worker's state under its lock; notify follows after it.
Change ==
    /\ \E u \in {"command", "loop"} :
         /\ threads[u] = "run" /\ u \notin screen.owed
         /\ screen' = [screen EXCEPT !.version = @ + 1, !.owed = @ \cup {u}]
    /\ SpendOne("changes")
    /\ UNCHANGED <<stack, threads>>

Notify ==
    /\ \E u \in screen.owed :
         screen' = [screen EXCEPT !.owed = @ \ {u}, !.pending = TRUE, !.silent = FALSE]
    /\ UNCHANGED <<stack, threads, spend>>

\* SaveDraft changes the draft and returns without notify when it cannot be
\* stored.
SaveDraftFails ==
    /\ threads["command"] = "run" /\ "command" \notin screen.owed /\ SpendOne("faults")
    /\ screen' = [screen EXCEPT !.version = @ + 1, !.silent = TRUE]
    /\ UNCHANGED <<stack, threads>>

\* mutant: a subscriber's channel has no buffer, and hears only while it waits
FanOutUnbuffered ==
    [screen EXCEPT !.pump = "idle",
       !.view = [b \in DOMAIN @ |-> [@[b] EXCEPT !.signal = @ \/ screen.view[b].mode = "waiting"]]]

\* pump: the worker's signal is passed on to every subscriber's channel, which
\* holds one.
FanOut ==
    [screen EXCEPT !.pump = "idle",
       !.view = [b \in DOMAIN @ |-> [@[b] EXCEPT !.signal = screen.view[b].mode # "off"]]]

Pump ==
    /\ \/ /\ screen.pump = "idle" /\ screen.pending
          /\ screen' = [screen EXCEPT !.pump = "fanning", !.pending = FALSE]
       \/ screen.pump = "fanning" /\ screen' = FanOut
       \/ screen.pump = "idle" /\ Stopping("web") /\ screen' = [screen EXCEPT !.pump = "done"]
    /\ UNCHANGED <<stack, threads, spend>>

\* subscribe: refused once the web server is closed.
SubscribeStream ==
    /\ threads["webserve"] = "on" /\ ~Stopping("web") /\ SpendOne("streams")
    /\ \E b \in spend.browsers : screen.view[b].mode = "off" /\ screen' = View(b, "reading", FALSE)
    /\ UNCHANGED <<stack, threads>>

\* writeStateEvent: Snapshot, then the bytes go out.
WriteStateEvent(b) ==
    \/ /\ screen.view[b].mode = "reading"
       /\ screen' = [screen EXCEPT !.view[b].mode = "sending", !.view[b].shown = screen.version]
    \/ screen.view[b].mode = "sending" /\ screen' = View(b, "waiting", screen.view[b].signal)

\* handleEvents: a signal makes the stream send the state again; it ends when
\* the request or the pump does, or when the browser is gone.
HandleEvents ==
    /\ \E b \in spend.browsers :
         \/ WriteStateEvent(b) /\ UNCHANGED spend
         \/ /\ screen.view[b].mode = "waiting" /\ screen.view[b].signal
            /\ screen' = View(b, "reading", FALSE) /\ UNCHANGED spend
         \/ /\ screen.view[b].mode = "waiting" /\ (stack.cancelled \/ Stopping("web"))
            /\ screen' = View(b, "off", FALSE) /\ UNCHANGED spend
         \/ /\ screen.view[b].mode = "sending" /\ SpendOne("faults")
            /\ screen' = View(b, "off", FALSE)
    /\ UNCHANGED <<stack, threads>>
-----------------------------------------------------------------------------
StackNext ==
    \/ CloseStep
    \/ CloseGivesUp
    \/ FinishShutdown
    \/ HostCloses
    \/ ContextCloses
    \/ HostCancels
    \/ OpenModelSide
    \/ OpenHumanSide
    \/ OpenFails
    \/ OpenReturns
    \/ ServeReturns
    \/ ServeFails
    \/ WebServeReturns
    \/ WebServeFails
    \/ BackgroundFails
    \/ SweepStep
    \/ CallArrives
    \/ BeginHandler
    \/ CommandArrives
    \/ HandlerEnds
    \/ BeginOperation
    \/ EndOperation
    \/ TouchState
    \/ LoopStep
    \/ GoroutineEnds
    \/ Change
    \/ Notify
    \/ SaveDraftFails
    \/ Pump
    \/ SubscribeStream
    \/ HandleEvents

StackSpec == StackInit /\ [][StackNext]_stackVars
-----------------------------------------------------------------------------
\* Whatever stage of openPublicStackInstance fails, and whoever calls Close:
\* once it has returned with every wait answered in time, nothing Open had set
\* is held any more, no request or event stream is being handled, and the
\* goroutines of the server, the worker, the mirror, the pump and the worker
\* connection have ended.
NothingLeaks ==
    (Returned \/ stack.phase = "failed") /\ ~stack.late =>
        /\ stack.held = {}
        /\ \A t \in {"serve", "call", "command", "loop", "watch", "dispatch"} : Idle(t)
        /\ screen.pump \in {"off", "done"}
        /\ \A b \in spend.browsers : screen.view[b].mode = "off"

\* The store of the service outlives every operation, even when Close gave up
\* waiting (finishShutdown waits for the count of beginOperation); the
\* worker's state store outlives every command and every turn of the worker's
\* loop that uses it, unless Close gave up waiting for one.
UsedWhileHeld ==
    /\ InService # {} => "service" \in stack.held
    /\ \A u \in {"command", "loop"} :
         threads[u] = "keep" => "state" \in stack.held \/ stack.late

\* Wait never returns without an error unless somebody asked for the end: a
\* model server that stopped because a sweep or the web server failed, or
\* because Accept did, has its error stored before serveDone is closed.
StopIsExplained ==
    threads["serve"] = "done" /\ ~stack.asked => stack.err # "none"

\* Close waits without a deadline only for a goroutine that was started: for
\* serve, for the goroutine of the notices and for the mirror's, at whatever
\* stage Open failed.
AwaitedWasStarted ==
    /\ stack.step = Place("serve") => threads["serve"] # "off"
    /\ Stopping("worker") /\ "worker" \in stack.held => threads["notices"] # "off"
    /\ Stopping("mirror") /\ "mirror" \in stack.held => threads["watch"] # "off"

\* A browser whose page is older than the worker's state will be told: a
\* change is about to be signalled, the signal waits for the pump or is being
\* passed on, it waits in the stream's channel, or the stream is about to read
\* the state.  Left out are the draft SaveDraft could not store and the streams
\* that are being closed.
NoMissedState ==
    \A b \in spend.browsers :
        LET v == screen.view[b]
        IN  v.mode \in {"sending", "waiting"} /\ v.shown < screen.version =>
                \/ v.signal \/ screen.pending \/ screen.pump = "fanning" \/ screen.owed # {}
                \/ screen.silent \/ Stopping("web")

\* Close takes everything down in the right order wherever Open stopped: nothing
\* is left, nothing is used after its release, nothing is awaited that never ran.
CloseIsClean == NothingLeaks /\ UsedWhileHeld /\ AwaitedWasStarted

\* Nobody is left in the dark: Wait tells why the stack stopped, and a browser
\* is told of every change.
NobodyInTheDark == StopIsExplained /\ NoMissedState
=============================================================================
