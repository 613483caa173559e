------------------------------- MODULE MCParts -------------------------------
(* Parts of the system that share no state, each in small instances: a     *)
(* behaviour is one of a single part, while the others rest in their       *)
(* initial states.                                                         *)
EXTENDS LLMLedger, WorkerDesk, CallerTools, ApplyJournal, LLMStores, AgentStores, A2AFront,
        LocalRestore, WorkerBridge, LocalStack

CONSTANTS
    Running,  \* the parts that are checked
    MaxLog    \* events a response of LLMLedger may collect

VARIABLE part

ShortLogs == \A r \in Requests : Len(request[r].log) <= MaxLog
-----------------------------------------------------------------------------
(* WorkerDesk: what goes wrong, and how many conversations and directories *)
(* there are.                                                              *)
DeskOf(faults, crashes, edits, turns, tasks, roots) ==
    [faults |-> faults, crashes |-> crashes, edits |-> edits, turns |-> turns, tasks |-> tasks,
     roots |-> 1..roots]

Conversations == {"a", "b"}

Desks ==
    {DeskOf(1, 1, 0, 2, {"a"}, 1), DeskOf(1, 0, 0, 3, {"a"}, 1), DeskOf(0, 1, 0, 3, {"a"}, 1),
     DeskOf(1, 0, 1, 1, {"a"}, 1), DeskOf(0, 1, 1, 2, {"a"}, 2), DeskOf(0, 0, 2, 2, {"a"}, 1),
     DeskOf(0, 0, 1, 1, {"a", "b"}, 1), DeskOf(0, 1, 0, 1, {"a", "b"}, 1)}

(* CallerTools: which tool calls meet, over which names of which files.    *)
ToolCall(id, key, name, from, to, expected, new) ==
    [id |-> id, key |-> key, op |-> name, from |-> from, to |-> to, expected |-> expected,
     new |-> new, fits |-> {1}]

ShimOf(requests, x, y, files, arrivals, faults, edits, crashes) ==
    [calls |-> requests, link |-> [x |-> x, y |-> y], files |-> files, arrivals |-> arrivals,
     faults |-> faults, edits |-> edits, crashes |-> crashes]

WriteX == ToolCall("w1", "k1", "write", "x", "x", 1, 2)
WriteY == ToolCall("w2", "k2", "write", "y", "y", 1, 3)
EditX == ToolCall("e", "k2", "edit", "x", "x", 1, 3)
DeleteX == ToolCall("d", "k1", "delete", "x", "x", 1, 0)
RenameXY == ToolCall("r1", "k1", "rename", "x", "y", 1, 0)
RenameYX == ToolCall("r2", "k2", "rename", "y", "x", 1, 0)
ExecX == ToolCall("x", "k1", "exec", "x", "x", 0, 0)
ReadX == ToolCall("rd", "k2", "read", "x", "x", 0, 0)

Shims ==
    {ShimOf({WriteX, WriteY}, 1, 1, <<1, 0>>, 3, 0, 1, 0),
     ShimOf({WriteX, EditX}, 1, 2, <<1, 0>>, 2, 1, 0, 1),
     ShimOf({RenameXY, RenameYX}, 1, 2, <<1, 0>>, 2, 0, 1, 0),
     ShimOf({RenameXY, RenameYX}, 1, 2, <<1, 1>>, 2, 1, 0, 0),
     ShimOf({DeleteX, WriteY}, 1, 1, <<1, 0>>, 2, 1, 1, 0),
     ShimOf({WriteX, DeleteX, WriteY}, 1, 1, <<1, 0>>, 3, 1, 0, 1),
     ShimOf({RenameXY, WriteY}, 1, 2, <<1, 1>>, 2, 0, 1, 1),
     ShimOf({ExecX, ReadX}, 1, 2, <<1, 0>>, 2, 1, 0, 1),
     ShimOf({RenameXY, EditX}, 1, 2, <<1, 0>>, 2, 0, 2, 0)}

(* ApplyJournal: calls, failures and restarts.                             *)
PurseOf(attempts, faults, stops) == [calls |-> attempts, faults |-> faults, stops |-> stops]

Purses == {PurseOf(2, 1, 1), PurseOf(3, 1, 0), PurseOf(2, 0, 2)}

(* LLMStores: which adapter, how many processes, updates and failures.     *)
StoreOf(kind, hands, updates, faults, deployments) ==
    [adapter |-> kind,
     means |-> [hands |-> hands, updates |-> updates, faults |-> faults, deployments |-> deployments]]

Stores ==
    {StoreOf("memory", {1}, 4, 0, {}), StoreOf("file", {1, 2}, 2, 1, {1, 2}),
     StoreOf("file", {1, 2}, 1, 3, {1, 2}), StoreOf("sqlite", {1, 2}, 1, 1, {1, 2}),
     StoreOf("memory", {1, 2}, 1, 1, {1})}

(* AgentStores: the tasks, the commands and how often the clock is set.    *)
AgendaOf(tasks, kinds, workers, steps, ticks, held) ==
    [tasks |-> tasks, kinds |-> kinds, workers |-> workers, steps |-> steps, ticks |-> ticks,
     held |-> held]

Delivering == {"create", "claim", "accept", "freeze", "complete", "receipt"}

Agendas ==
    {AgendaOf({<<1, 1>>}, Delivering \cup {"acquire", "fence", "reject", "ask", "reply", "cancel", "fail"},
              {"w"}, 7, 1, 1),
     AgendaOf({<<1, 1>>, <<1, 2>>}, Delivering, {"w"}, 9, 1, 2),
     AgendaOf({<<1, 1>>, <<1, 2>>, <<2, 1>>}, {"create", "claim", "acquire", "fence", "cancel"},
              {"v", "w"}, 4, 1, 3)}

(* A2AFront: three requests to one task, of one or of several callers.     *)
CallOf(op, n, msg, body, t, ctx, wait) ==
    [op |-> op, n |-> n, msg |-> msg, body |-> body, task |-> t, ctx |-> ctx, wait |-> wait]

FrontOf(requests, acts, faults) == [calls |-> requests, acts |-> acts, faults |-> faults]

FirstSend == CallOf("send", 1, 1, 1, 0, 0, FALSE)

Fronts ==
    {FrontOf({FirstSend, CallOf("send", 2, 1, 1, 0, 0, TRUE)}, 2, 1),
     FrontOf({FirstSend, CallOf("send", 2, 1, 1, 0, 0, TRUE), CallOf("stream", 3, 1, 2, 0, 0, FALSE)}, 1, 0),
     FrontOf({FirstSend, CallOf("send", 2, 2, 1, 1, 0, FALSE), CallOf("send", 3, 2, 1, 1, 101, TRUE)}, 1, 1),
     FrontOf({FirstSend, CallOf("stream", 2, 2, 1, 1, 0, FALSE), CallOf("send", 3, 2, 2, 1, 7, FALSE)}, 4, 0),
     FrontOf({FirstSend, CallOf("cancel", 2, 0, 0, 1, 0, FALSE), CallOf("cancel", 3, 0, 0, 1, 0, FALSE)}, 1, 1),
     FrontOf({CallOf("stream", 1, 1, 1, 0, 0, FALSE), CallOf("watch", 2, 0, 0, 1, 0, FALSE),
              CallOf("cancel", 3, 0, 0, 1, 0, FALSE)}, 4, 0),
     FrontOf({FirstSend, CallOf("receipt", 2, 0, 1, 1, 0, FALSE), CallOf("receipt", 3, 0, 2, 1, 0, FALSE)}, 3, 1)}

(* WorkerBridge: the events of one session, whose identities, how often    *)
(* the human speaks and what fails.                                        *)
Spoken(id, type, body) == [id |-> id, key |-> 1, type |-> type, body |-> body]

BridgeOf(spoken, subjects, attempts, faults, crashes, drops, rots, moves, reasons) ==
    [events |-> spoken, subjects |-> subjects, calls |-> attempts, faults |-> faults,
     crashes |-> crashes, drops |-> drops, rots |-> rots, moves |-> moves, reasons |-> reasons]

Bridges ==
    {BridgeOf({Spoken(2, "final", 1)}, {1}, 2, 1, 0, 0, 0, 0, 1),
     BridgeOf({Spoken(1, "progress", 1), Spoken(1, "progress", 2)}, {1}, 2, 0, 0, 0, 1, 0, 1),
     BridgeOf({Spoken(1, "progress", 1)}, {1, 2}, 1, 0, 0, 1, 0, 0, 1),
     BridgeOf({Spoken(1, "progress", 1)}, {1, 2}, 1, 0, 1, 0, 0, 1, 1),
     BridgeOf({Spoken(1, "progress", 1)}, {1}, 1, 0, 0, 1, 0, 0, 2),
     BridgeOf({Spoken(1, "progress", 1), Spoken(2, "final", 1)}, {1}, 2, 0, 0, 0, 0, 0, 1),
     BridgeOf({Spoken(1, "progress", 1)}, {1}, 2, 0, 1, 0, 0, 0, 1)}

(* LocalStack: what fails, what arrives, and who ends it.                  *)
StackOf(faults, work, changes, streams, closes, cancels, slow, browsers) ==
    [faults |-> faults, work |-> work, changes |-> changes, streams |-> streams, closes |-> closes,
     cancels |-> cancels, slow |-> slow, browsers |-> 1..browsers]

Stacks ==
    {StackOf(1, 1, 0, 0, 1, 0, 0, 0), StackOf(1, 0, 0, 0, 0, 1, 0, 0), StackOf(0, 1, 0, 0, 1, 0, 1, 0),
     StackOf(0, 1, 2, 1, 0, 0, 0, 1), StackOf(0, 0, 0, 1, 1, 0, 0, 1), StackOf(1, 0, 0, 1, 0, 0, 0, 1)}

(* LocalRestore: what the archive and the set hold, which commands are     *)
(* started how often, and what fails.                                      *)
TrialOf(order, present, old, works, force, starts, crashes, faults, powers) ==
    [order |-> order, present |-> present, old |-> old, jobs |-> works, force |-> force,
     starts |-> starts, crashes |-> crashes, faults |-> faults, powers |-> powers]

WithMirror == <<"service", "credentials", "mirror", "wal">>
Mirrorless == <<"service", "credentials", "wal">>
Archived == {"service", "credentials", "mirror"}
Restoring == {"restore", "resume"}

Trials ==
    {TrialOf(WithMirror, Archived, Archived \cup {"wal"}, Restoring, TRUE, 3, 2, 1, 0),
     TrialOf(WithMirror, Archived, Archived \cup {"wal"}, Restoring, TRUE, 2, 1, 1, 1),
     TrialOf(WithMirror, Archived, {"mirror"}, Restoring, TRUE, 2, 1, 2, 0),
     TrialOf(WithMirror, Archived, {}, Restoring, FALSE, 3, 1, 1, 1),
     TrialOf(Mirrorless, Archived \ {"mirror"}, {"service", "credentials", "wal"},
             Restoring \cup {"local"}, TRUE, 2, 1, 1, 0),
     TrialOf(Mirrorless, Archived \ {"mirror"}, {"service", "credentials"},
             Restoring \cup {"backup"}, TRUE, 2, 1, 1, 1)}
-----------------------------------------------------------------------------
AnyOf(S) == CHOOSE x \in S : TRUE

(* The instance a part rests in while another one runs.                    *)
Rests(p) ==
    CASE p = "desk" -> left = AnyOf(Desks) /\ wire.kind = "client"
      [] p = "shim" -> LET s == AnyOf(Shims)
                       IN  calls = s.calls /\ \A k \in DOMAIN room : room[k] = s[k]
      [] p = "apply" -> purse = AnyOf(Purses)
      [] p = "stores" -> adapter = "memory" /\ means.hands = {1}
      [] p = "agenda" -> agenda = AnyOf(Agendas)
      [] p = "front" -> allow = AnyOf(Fronts)
      [] p = "bridge" -> quota = AnyOf(Bridges)
      [] p = "local" -> spend = AnyOf(Stacks)
      [] p = "restore" -> trial = AnyOf(Trials)

Fresh(p) == part = p \/ Rests(p)

PartsInit ==
    /\ part \in Running
    /\ Init
    /\ DeskInit /\ Fresh("desk")
    /\ ShimInit /\ Fresh("shim")
    /\ ApplyInit /\ Fresh("apply")
    /\ StoreInit /\ Fresh("stores")
    /\ AgendaInit /\ Fresh("agenda")
    /\ FrontInit /\ Fresh("front")
    /\ BridgeInit /\ Fresh("bridge")
    /\ StackInit /\ Fresh("local")
    /\ RestoreInit /\ Fresh("restore")

PartsNext ==
    /\ UNCHANGED part
    /\ IF part = "ledger" THEN Next ELSE UNCHANGED vars
    /\ IF part = "desk" THEN DeskNext ELSE UNCHANGED deskVars
    /\ IF part = "shim" THEN ShimNext ELSE UNCHANGED shimVars
    /\ IF part = "apply" THEN ApplyNext ELSE UNCHANGED applyVars
    /\ IF part = "stores" THEN StoreNext ELSE UNCHANGED storeVars
    /\ IF part = "agenda" THEN AgendaNext ELSE UNCHANGED agendaVars
    /\ IF part = "front" THEN FrontNext ELSE UNCHANGED frontVars
    /\ IF part = "bridge" THEN BridgeNext ELSE UNCHANGED bridgeVars
    /\ IF part = "local" THEN StackNext ELSE UNCHANGED stackVars
    /\ IF part = "restore" THEN RestoreNext ELSE UNCHANGED restoreVars

partsVars ==
    <<part, vars, deskVars, shimVars, applyVars, storeVars, agendaVars, frontVars, bridgeVars,
      stackVars, restoreVars>>

PartsSpec == PartsInit /\ [][PartsNext]_partsVars
=============================================================================
