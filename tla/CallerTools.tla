---------------------------- MODULE CallerTools ----------------------------
(***************************************************************************)
(* The caller-side tool shim: HTTP handlers run a tool call at most once   *)
(* through a durable execution ledger (internal/callershim) and change the *)
(* workspace by compare-and-swap on the content of a file, under a table   *)
(* of path locks (internal/callerfs).                                      *)
(*                                                                         *)
(* A file is its content and who wrote it; content 0 is "no file".  The    *)
(* fingerprint of a content is the content.  A name resolves to a real     *)
(* path through `link`; path 0 stands for every target the resolver        *)
(* refuses (outside the root, repository metadata).  A request is          *)
(*   [id, key, op, from, to, expected, new, fits]                          *)
(* where id plays the digest of name and input, and fits holds the         *)
(* contents in which the old string of an edit occurs exactly once.        *)
(***************************************************************************)
EXTENDS Integers, FiniteSets

CONSTANTS ShimProcs,     \* HTTP handlers that may be running at one time
          ShimPaths,     \* real paths, positive integers, in lock order
          ShimContents,  \* contents the editor and commands may write
          ShimScenes     \* [calls, link, files, arrivals, faults, edits, crashes]

\* A digest is a word and tells tools apart; names resolve to a path or
\* are refused.
ASSUME ScenesAssumption ==
  /\ ShimPaths \subseteq Nat \ {0}
  /\ \A s \in ShimScenes :
       /\ \A q \in s.calls : q.id # "" /\ {q.from, q.to} \subseteq DOMAIN s.link
       /\ \A q, r \in s.calls : q.key = r.key /\ q.id = r.id => q.op = r.op
       /\ \A name \in DOMAIN s.link : s.link[name] \in ShimPaths \cup {0}

VARIABLES calls,      \* the requests callers send in this scene
          ledger,     \* key -> row of caller_tool_executions
          unsettled,  \* key -> digest of a finished, unrecorded execution
          shim,       \* handler -> where Execute is
          link,       \* name -> real path, or 0
          file,       \* real path -> content and writer
          ran,        \* history: key -> executeOnce calls
          did,        \* history: keys whose change is in the workspace
          stuck,      \* history: keys whose undo failed
          said,       \* history: the 200 replies
          room        \* remaining arrivals, faults, edits and crashes

shimVars == <<calls, ledger, unsettled, shim, link, file, ran, did, stuck, said, room>>

ShimKeys == {r.key : r \in calls}
NoRow == [status |-> "none", digest |-> "", response |-> [code |-> "", content |-> 0]]
Answer(code, content) == [code |-> code, content |-> content]
Indeterminate == Answer("indeterminate", 0)
Digest(r) == r.id
Resting == [at |-> "idle"]

ShimInit ==
  \E s \in ShimScenes :
    /\ calls = s.calls
    /\ link = s.link
    /\ file = [n \in ShimPaths |-> [c |-> s.files[n], by |-> "shim"]]
    /\ room = [arrivals |-> s.arrivals, faults |-> s.faults, edits |-> s.edits,
               crashes |-> s.crashes]
    /\ ledger = [k \in {r.key : r \in s.calls} |-> NoRow]
    /\ unsettled = [k \in {r.key : r \in s.calls} |-> ""]
    /\ shim = [p \in ShimProcs |-> Resting]
    /\ ran = [k \in {r.key : r \in s.calls} |-> 0]
    /\ did = {} /\ stuck = {} /\ said = {}

Spend(what) == room[what] > 0 /\ room' = [room EXCEPT ![what] = @ - 1]
Goto(p, t) == shim' = [shim EXCEPT ![p] = t]
Tool(p) == shim[p].req

\* A handler returns a recorded response to its caller.
Say(p, response) ==
  /\ said' = said \cup {[key |-> Tool(p).key, id |-> Digest(Tool(p)), response |-> response]}
  /\ Goto(p, Resting)

\* A handler returns an error status: 409, 503 or 500.
Refuse(p) == Goto(p, Resting) /\ UNCHANGED said

-----------------------------------------------------------------------------
(* The execution ledger and the executor around it.                        *)

\* retryUnsettledExecution: a key this process knows as finished but
\* unrecorded is settled, never run; another request for it is a conflict.
RetryUnsettled(p, r) ==
  /\ unsettled[r.key] # ""
  /\ IF unsettled[r.key] = Digest(r) THEN Goto(p, [at |-> "mark", req |-> r]) ELSE UNCHANGED shim

\* executeTool fixes the caller and the task of the key and calls Execute.
Receive(p, r) ==
  /\ shim[p].at = "idle"
  /\ Spend("arrivals")
  /\ \/ RetryUnsettled(p, r)
     \/ unsettled[r.key] = "" /\ Goto(p, [at |-> "begin", req |-> r])
  /\ UNCHANGED <<calls, ledger, unsettled, link, file, ran, did, stuck, said>>

\* mutant: a key whose row is still pending is executed again
BeginRunsPending(p) ==
  /\ shim[p].at = "begin"
  /\ LET k == Tool(p).key
         row == ledger[k]
     IN \/ /\ row.status \in {"completed", "indeterminate"} /\ row.digest = Digest(Tool(p))
           /\ Say(p, row.response) /\ UNCHANGED <<ledger, ran, room>>
        \/ /\ row.status \in {"none", "pending"}
           /\ ledger' = [ledger EXCEPT ![k] = [NoRow EXCEPT !.status = "pending", !.digest = Digest(Tool(p))]]
           /\ ran' = [ran EXCEPT ![k] = @ + 1]
           /\ Goto(p, [at |-> "run", req |-> Tool(p)]) /\ UNCHANGED <<said, room>>
  /\ UNCHANGED <<calls, unsettled, link, file, did, stuck>>

\* Ledger.Begin, and what Execute makes of its result.  A failing
\* transaction is lost, or commits and only its answer is lost.
Begin(p) ==
  /\ shim[p].at = "begin"
  /\ LET k == Tool(p).key
         row == ledger[k]
         pending == [NoRow EXCEPT !.status = "pending", !.digest = Digest(Tool(p))]
     IN \/ row.status # "none" /\ row.digest # Digest(Tool(p))
           /\ Refuse(p) /\ UNCHANGED <<ledger, ran, room>>
        \/ row.status = "pending" /\ row.digest = Digest(Tool(p))
           /\ Refuse(p) /\ UNCHANGED <<ledger, ran, room>>
        \/ row.status \in {"completed", "indeterminate"} /\ row.digest = Digest(Tool(p))
           /\ Say(p, row.response) /\ UNCHANGED <<ledger, ran, room>>
        \/ /\ row.status = "none"
           /\ ledger' = [ledger EXCEPT ![k] = pending]
           /\ ran' = [ran EXCEPT ![k] = @ + 1]
           /\ Goto(p, [at |-> "run", req |-> Tool(p)]) /\ UNCHANGED <<said, room>>
        \/ /\ Spend("faults") /\ Refuse(p) /\ UNCHANGED ran
           /\ \/ UNCHANGED ledger
              \/ row.status = "none" /\ ledger' = [ledger EXCEPT ![k] = pending]
  /\ UNCHANGED <<calls, unsettled, link, file, did, stuck>>

\* executeOnce returned: its answer goes to Complete, and every lock is free.
Finished(p, code, content) ==
  Goto(p, [at |-> "complete", req |-> Tool(p), answer |-> Answer(code, content)])

RememberUnsettled(p) == unsettled' = [unsettled EXCEPT ![Tool(p).key] = Digest(Tool(p))]

\* Ledger.Complete on a pending row.  Its failure leaves the executor a
\* record that can only settle the row, never run the tool again.
Complete(p) ==
  /\ shim[p].at = "complete"
  /\ LET k == Tool(p).key
         done == [ledger EXCEPT ![k].status = "completed", ![k].response = shim[p].answer]
     IN \/ /\ ledger[k].status = "pending"
           /\ ledger' = done
           /\ Say(p, shim[p].answer)
           /\ UNCHANGED <<unsettled, room>>
        \/ /\ Spend("faults")
           /\ ledger' \in {ledger, done}
           /\ RememberUnsettled(p)
           /\ Goto(p, [at |-> "mark", req |-> Tool(p)])
           /\ UNCHANGED said
  /\ UNCHANGED <<calls, link, file, ran, did, stuck>>

\* Ledger.MarkIndeterminate settles a pending row and returns a terminal
\* one as it is.
MarkIndeterminate(k) ==
  IF ledger[k].status = "pending"
    THEN [ledger EXCEPT ![k].status = "indeterminate", ![k].response = Indeterminate]
    ELSE ledger

\* resolveUnsettledExecution: the record of this process goes once the row
\* is known to be terminal.
Mark(p) ==
  /\ shim[p].at = "mark"
  /\ LET k == Tool(p).key
         marked == MarkIndeterminate(k)
     IN \/ /\ ledger' = marked
           /\ unsettled' = [unsettled EXCEPT ![k] = ""]
           /\ Say(p, marked[k].response)
           /\ UNCHANGED room
        \/ /\ Spend("faults")
           /\ ledger' \in {ledger, marked}
           /\ Refuse(p)
           /\ UNCHANGED unsettled
  /\ UNCHANGED <<calls, link, file, ran, did, stuck>>

\* recoverPending: rows of the previous owner become indeterminate.
RecoverPending ==
  [k \in ShimKeys |-> IF ledger[k].status = "pending"
                        THEN [ledger[k] EXCEPT !.status = "indeterminate", !.response = Indeterminate]
                        ELSE ledger[k]]

\* The process dies and the next owner of the ledger's lock opens it.
ShimCrash ==
  /\ Spend("crashes")
  /\ ledger' = RecoverPending
  /\ unsettled' = [k \in ShimKeys |-> ""]
  /\ shim' = [p \in ShimProcs |-> Resting]
  /\ UNCHANGED <<calls, link, file, ran, did, stuck, said>>

-----------------------------------------------------------------------------
(* The tools.                                                              *)

Outside == 0
ShimFailures == {"error", "mismatch", "exists", "edit", "outside"}

\* human_read_file and human_search take no lock; they see the file as it is,
\* unless it is larger than the durable result may be.
ReadFile(p) ==
  /\ shim[p].at = "run" /\ Tool(p).op = "read"
  /\ LET n == link[Tool(p).from]
     IN \/ n = Outside /\ Finished(p, "outside", 0)
        \/ n # Outside /\ file[n].c = 0 /\ Finished(p, "error", 0)
        \/ n # Outside /\ file[n].c # 0 /\ Finished(p, "ok", file[n].c)
        \/ n # Outside /\ file[n].c # 0 /\ Finished(p, "large", 0)
  /\ UNCHANGED <<calls, ledger, unsettled, link, file, ran, did, stuck, said, room>>

\* human_exec runs outside the locks and may leave anything behind, whether
\* it succeeds, fails, times out, or prints more than a result may hold.
RunCommand(p) ==
  /\ shim[p].at = "run" /\ Tool(p).op = "exec"
  /\ \/ \E n \in ShimPaths, c \in ShimContents, code \in {"ok", "failed", "large"} :
          /\ file' = [file EXCEPT ![n] = [c |-> c, by |-> "editor"]]
          /\ did' = did \cup {Tool(p).key}
          /\ Finished(p, code, 0)
     \/ Finished(p, "error", 0) /\ UNCHANGED <<file, did>>
  /\ UNCHANGED <<calls, ledger, unsettled, link, ran, stuck, said, room>>

\* The real paths a mutation locks: both ends of a rename.
Source(r) == link[r.from]
Target(r) == IF r.op = "rename" THEN link[r.to] ELSE link[r.from]
Want(t) == {t.src, t.dst}

\* lockResolvedPath, lockResolvedPair: resolve, before any lock is held.
ResolvePaths(p) ==
  /\ shim[p].at = "run" /\ Tool(p).op \notin {"read", "exec"}
  /\ IF Outside \in {Source(Tool(p)), Target(Tool(p))}
       THEN Finished(p, "outside", 0)
       ELSE Goto(p, [at |-> "lock", req |-> Tool(p), src |-> Source(Tool(p)),
                     dst |-> Target(Tool(p)), held |-> {}])
  /\ UNCHANGED <<calls, ledger, unsettled, link, file, ran, did, stuck, said, room>>

\* mutant: the locks of a rename are taken in the order of its arguments
NextLockAsGiven(t) == IF t.src \notin t.held THEN t.src ELSE t.dst

\* pathLockTable.lock takes the locks of one operation in path order.
NextLock(t) == CHOOSE n \in Want(t) \ t.held : \A m \in Want(t) \ t.held : n <= m

Holds(p, n) == shim[p].at \in {"lock", "check", "ready", "swap", "inspect"} /\ n \in shim[p].held

AcquireLock(p) ==
  /\ shim[p].at = "lock" /\ shim[p].held # Want(shim[p])
  /\ LET n == NextLock(shim[p])
     IN /\ \A q \in ShimProcs : ~ Holds(q, n)
        /\ shim' = [shim EXCEPT ![p].held = @ \cup {n}]
  /\ UNCHANGED <<calls, ledger, unsettled, link, file, ran, did, stuck, said, room>>

\* mutant: the identity resolved before waiting is trusted after it
VerifyLockedBlindly(p) ==
  /\ shim[p].at = "lock" /\ shim[p].held = Want(shim[p])
  /\ Goto(p, [shim[p] EXCEPT !.at = "check", !.src = Source(Tool(p)), !.dst = Target(Tool(p))])
  /\ Outside \notin {Source(Tool(p)), Target(Tool(p))}
  /\ UNCHANGED <<calls, ledger, unsettled, link, file, ran, did, stuck, said, room>>

\* With the locks held the names are resolved again; when they moved, the
\* locks are dropped and the operation starts over.
VerifyLocked(p) ==
  /\ shim[p].at = "lock" /\ shim[p].held = Want(shim[p])
  /\ LET now == {Source(Tool(p)), Target(Tool(p))}
     IN \/ Outside \in now /\ Finished(p, "outside", 0)
        \/ /\ Outside \notin now
           /\ Goto(p, IF shim[p].src = Source(Tool(p)) /\ shim[p].dst = Target(Tool(p))
                        THEN [shim[p] EXCEPT !.at = "check"]
                        ELSE [at |-> "run", req |-> Tool(p)])
  /\ UNCHANGED <<calls, ledger, unsettled, link, file, ran, did, stuck, said, room>>

\* verifyExpected: only a write may expect that there is no file.
Expected(t) ==
  /\ file[t.src].c = t.req.expected
  /\ t.req.op = "write" \/ t.req.expected # 0

\* EditFileCAS replaces the only occurrence of the old string.
EditFits(t) == t.req.op = "edit" => t.req.expected \in t.req.fits

\* verifyDestinationAbsent.
DestinationAbsent(t) == t.req.op = "rename" => file[t.dst].c = 0

\* The code an operation fails with when its preconditions do not hold now.
Objection(t) ==
  IF ~ Expected(t) THEN "mismatch"
  ELSE IF ~ EditFits(t) THEN "edit"
  ELSE IF ~ DestinationAbsent(t) THEN "exists" ELSE "none"

\* The first check, then the work that needs no precondition: creating the
\* parent, the temporary file, its content and its sync.
CheckExpected(p) ==
  /\ shim[p].at = "check"
  /\ \/ /\ Objection(shim[p]) # "none"
        /\ Finished(p, Objection(shim[p]), 0) /\ UNCHANGED room
     \/ /\ Objection(shim[p]) = "none"
        /\ Goto(p, [shim[p] EXCEPT !.at = "ready"]) /\ UNCHANGED room
     \/ Spend("faults") /\ Finished(p, "error", 0)
  /\ UNCHANGED <<calls, ledger, unsettled, link, file, ran, did, stuck, said>>

\* verifyLockedPath and the second check, immediately before the rename.
Recheck(p) ==
  /\ shim[p].at = "ready"
  /\ LET t == shim[p]
     IN IF Outside \in {Source(t.req), Target(t.req)} THEN Finished(p, "outside", 0)
        ELSE IF t.src # Source(t.req) \/ t.dst # Target(t.req) THEN Finished(p, "mismatch", 0)
        ELSE IF ~ Expected(t) THEN Finished(p, "mismatch", 0)
        ELSE IF ~ DestinationAbsent(t) THEN Finished(p, "exists", 0)
        ELSE Goto(p, [t EXCEPT !.at = "swap"])
  /\ UNCHANGED <<calls, ledger, unsettled, link, file, ran, did, stuck, said, room>>

\* writeFileCASLocked and EditFileCAS: os.Rename of the temporary file.
WriteFile(p) ==
  /\ shim[p].at = "swap" /\ Tool(p).op \in {"write", "edit"}
  /\ \/ /\ file' = [file EXCEPT ![shim[p].src] = [c |-> Tool(p).new, by |-> "shim"]]
        /\ did' = did \cup {Tool(p).key}
        /\ Finished(p, "ok", 0) /\ UNCHANGED room
     \/ Spend("faults") /\ Finished(p, "error", 0) /\ UNCHANGED <<file, did>>
  /\ UNCHANGED <<calls, ledger, unsettled, link, ran, stuck, said>>

\* DeleteFileCAS moves the file aside; RenameFileCAS moves it to its target.
Deleted(t) == [file EXCEPT ![t.src] = [c |-> 0, by |-> "shim"]]
Renamed(t) == [Deleted(t) EXCEPT ![t.dst] = file[t.src]]

\* Either fails when the file has meanwhile been removed from outside.
MoveFile(p) ==
  /\ shim[p].at = "swap" /\ Tool(p).op \in {"delete", "rename"}
  /\ LET t == shim[p]
         moved == [src |-> t.src, dst |-> t.dst, held |-> t.held, req |-> t.req,
                   at |-> "inspect", aside |-> file[t.src]]
     IN \/ /\ file[t.src].c # 0
           /\ file' = IF t.req.op = "delete" THEN Deleted(t) ELSE Renamed(t)
           /\ did' = did \cup {t.req.key}
           /\ Goto(p, moved) /\ UNCHANGED room
        \/ file[t.src].c = 0 /\ Finished(p, "error", 0) /\ UNCHANGED <<file, did, room>>
        \/ Spend("faults") /\ Finished(p, "error", 0) /\ UNCHANGED <<file, did>>
  /\ UNCHANGED <<calls, ledger, unsettled, link, ran, stuck, said>>

\* What was moved is read again.  The expected content makes the change
\* final; any other is moved back, and an error of that move is ignored.
Inspect(p) ==
  /\ shim[p].at = "inspect"
  /\ LET t == shim[p]
         now == IF t.req.op = "delete" THEN t.aside ELSE file[t.dst]
         back == [file EXCEPT ![t.src] = now]
     IN \/ /\ now.c = t.req.expected
           /\ Finished(p, "ok", 0) /\ UNCHANGED <<file, did, stuck, room>>
        \/ /\ now.c # t.req.expected /\ now.c # 0
           /\ file' = IF t.req.op = "delete" THEN back
                        ELSE [back EXCEPT ![t.dst] = [c |-> 0, by |-> "shim"]]
           /\ did' = did \ {t.req.key}
           /\ Finished(p, "mismatch", 0) /\ UNCHANGED <<stuck, room>>
        \/ /\ now.c # t.req.expected
           /\ now.c = 0 \/ room.faults > 0
           /\ room' = IF now.c = 0 THEN room ELSE [room EXCEPT !.faults = @ - 1]
           /\ stuck' = stuck \cup {t.req.key}
           /\ Finished(p, IF now.c = 0 THEN "error" ELSE "mismatch", 0)
           /\ UNCHANGED <<file, did>>
  /\ UNCHANGED <<calls, ledger, unsettled, link, ran, said>>

-----------------------------------------------------------------------------
(* The rest of the machine, which takes none of the locks.                 *)

EditorWrites(n, c) ==
  /\ Spend("edits") /\ file[n].c # c
  /\ file' = [file EXCEPT ![n] = [c |-> c, by |-> "editor"]]
  /\ UNCHANGED <<calls, ledger, unsettled, shim, link, ran, did, stuck, said>>

EditorRelinks(name, n) ==
  /\ Spend("edits") /\ link[name] # n
  /\ link' = [link EXCEPT ![name] = n]
  /\ UNCHANGED <<calls, ledger, unsettled, shim, file, ran, did, stuck, said>>

ShimNext ==
  \/ \E p \in ShimProcs :
       \/ \E r \in calls : Receive(p, r)
       \/ Begin(p) \/ Complete(p) \/ Mark(p)
       \/ ReadFile(p) \/ RunCommand(p)
       \/ ResolvePaths(p) \/ AcquireLock(p) \/ VerifyLocked(p)
       \/ CheckExpected(p) \/ Recheck(p) \/ WriteFile(p) \/ MoveFile(p) \/ Inspect(p)
  \/ ShimCrash
  \/ \E n \in ShimPaths, c \in ShimContents \cup {0} : EditorWrites(n, c)
  \/ \E name \in DOMAIN link, n \in ShimPaths \cup {Outside} : EditorRelinks(name, n)

ShimSpec == ShimInit /\ [][ShimNext]_shimVars

-----------------------------------------------------------------------------
(* Properties.                                                             *)

\* A tool call runs at most once, whatever is retried, lost or restarted: the
\* ledger row, the unsettled record of this process and the recovery of the
\* next one never let executeOnce start again for the same key.
ToolRunsOnce == \A k \in ShimKeys : ran[k] <= 1

\* Every successful answer for a key is the terminal row of the ledger, for
\* the request that row was opened with: replays, late answers and answers
\* after a lost commit agree, and a different request never sees them.
RepliesAgree ==
  \A s \in said : /\ ledger[s.key].status \in {"completed", "indeterminate"}
                  /\ ledger[s.key].digest = s.id
                  /\ ledger[s.key].response = s.response

\* An answer tells the truth about the workspace: "ok" from a mutating tool
\* means its change was made, a refused precondition means that it was not,
\* or that moving the file back failed.  Only "indeterminate" may be either.
RepliesAreTrue ==
  \A s \in said : LET r == CHOOSE r \in calls : r.key = s.key /\ r.id = s.id
                  IN r.op # "read" =>
                       /\ s.response.code = "ok" => s.key \in did
                       /\ s.response.code \in ShimFailures => s.key \in stuck \/ s.key \notin did

\* A pending row has a handler that is going to settle it, or a record in
\* this process that a retry settles, or no tool ran for it at all.
PendingIsOwned ==
  \A k \in ShimKeys :
    ledger[k].status = "pending" =>
      \/ ran[k] = 0
      \/ unsettled[k] # ""
      \/ \E p \in ShimProcs : shim[p].at \notin {"idle", "begin"} /\ Tool(p).key = k

\* Handlers never wait for each other in a circle, whichever paths they lock:
\* two renames in opposite directions included.
LocksAreOrdered ==
  \A p, q \in ShimProcs :
    ~ /\ p # q /\ shim[p].at = "lock" /\ shim[q].at = "lock"
      /\ \E n \in Want(shim[p]) \ shim[p].held : Holds(q, n)
      /\ \E n \in Want(shim[q]) \ shim[q].held : Holds(p, n)

\* No handler overwrites or moves what another one wrote unless it expected
\* exactly that content: only an edit from outside the shim can be lost.
NoLostUpdate ==
  [][\A p \in ShimProcs :
       shim[p].at \in {"swap", "inspect"} /\ file' # file /\ shim'[p] # shim[p] =>
         \A n \in Want(shim[p]) :
           file[n].by = "shim" /\ file'[n] # file[n] =>
             file[n].c \in {0, shim[p].req.expected}]_shimVars

\* A tool call runs at most once and all its answers are one, true, answer
\* (Execute, Ledger.Begin, resolveUnsettledExecution).
RepliesAreSound == ToolRunsOnce /\ RepliesAgree /\ RepliesAreTrue

\* No tool call is stuck: somebody will settle its row, and the handlers do not
\* wait for each other's paths in a circle.
NoStuckTool == PendingIsOwned /\ LocksAreOrdered
=============================================================================
