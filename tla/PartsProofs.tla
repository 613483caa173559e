----------------------------- MODULE PartsProofs ----------------------------
(***************************************************************************)
(* Proofs about what runs on the machines at either end: CallerTools, for  *)
(* any number of handlers, paths and requests and any budget of retries,   *)
(* failures, crashes and edits from outside; and LocalStack, for every set *)
(* of scenes, however many requests, browsers, failures and changes there  *)
(* are.                                                                    *)
(***************************************************************************)
EXTENDS LocalStack, CallerTools, TLAPS

-----------------------------------------------------------------------------
(* CallerTools: one execution, true answers, locks and expected contents   *)

(* Inside executeOnce or with its answer in hand; inside a mutation of the *)
(* workspace; the status of a settled row.                                 *)
Executing == {"run", "lock", "check", "ready", "swap", "inspect", "complete"}
Locking == {"lock", "check", "ready", "swap", "inspect"}
SettledStates == {"completed", "indeterminate"}

(* Where a handler may be: a mutation takes its locks in path order, and   *)
(* has all of them once it has looked at the names again.                  *)
HandOK(t) ==
    /\ t.at \in {"idle", "begin", "mark"} \cup Executing
    /\ t.at # "idle" => t.req \in calls
    /\ t.at \in Locking =>
         /\ t.src \in ShimPaths /\ t.dst \in ShimPaths /\ (t.req.op # "rename" => t.dst = t.src)
         /\ t.held \subseteq Want(t) /\ \A n \in t.held, m \in Want(t) \ t.held : n < m
         /\ t.at # "lock" => t.held = Want(t)
         /\ IF t.at = "inspect" THEN t.req.op \in {"delete", "rename"}
            ELSE DOMAIN t = {"at", "req", "src", "dst", "held"}

(* Requests have digests, names resolve, and every table has its keys.     *)
ShimTypes ==
    /\ \A r \in calls : r.id # "" /\ {r.from, r.to} \subseteq DOMAIN link
    /\ \A q, r \in calls : q.key = r.key /\ q.id = r.id => q.op = r.op
    /\ \A name \in DOMAIN link : link[name] \in ShimPaths \cup {Outside}
    /\ DOMAIN file = ShimPaths /\ DOMAIN shim = ShimProcs
    /\ DOMAIN ledger = ShimKeys /\ DOMAIN unsettled = ShimKeys /\ DOMAIN ran = ShimKeys
    /\ \A k \in ShimKeys : DOMAIN ledger[k] = {"status", "digest", "response"}
    /\ \A p \in ShimProcs : HandOK(shim[p])

(* An answer to a request is true of the workspace.                        *)
Truthful(r, response) ==
    r.op # "read" =>
        /\ response.code = "ok" => r.key \in did
        /\ response.code \in ShimFailures => r.key \in stuck \/ r.key \notin did

(* A row of the ledger: it is there before its tool runs, it is the one    *)
(* that the record of an unsettled execution is about, and its answer is   *)
(* true.                                                                   *)
RowOK(k) ==
    /\ ledger[k].status \in {"none", "pending"} \cup SettledStates
    /\ ran[k] \in {0, 1} /\ (ran[k] = 0 => k \notin did)
    /\ ledger[k].status = "none" => ran[k] = 0 /\ unsettled[k] = ""
    /\ unsettled[k] # "" => ledger[k].digest = unsettled[k]
    /\ ledger[k].status = "pending" =>
         \/ ran[k] = 0 \/ unsettled[k] # ""
         \/ \E p \in ShimProcs : shim[p].at \in Executing /\ Tool(p).key = k
    /\ ledger[k].status \in SettledStates =>
         \A r \in calls : r.key = k /\ r.id = ledger[k].digest => Truthful(r, ledger[k].response)

(* What a handler knows: its tool has run once and its row waits for it;   *)
(* or the row of an unsettled execution is its own, or settled.            *)
Knows(t) ==
    /\ t.at \in Executing =>
         /\ ledger[t.req.key].status = "pending" /\ ledger[t.req.key].digest = t.req.id
         /\ ran[t.req.key] = 1 /\ unsettled[t.req.key] = ""
    /\ t.at = "mark" =>
         /\ ledger[t.req.key].digest = t.req.id
         /\ unsettled[t.req.key] # "" \/ ledger[t.req.key].status \in SettledStates
    /\ t.at \in Executing \ {"inspect", "complete"} => t.req.key \notin did
    /\ t.at = "inspect" => t.req.key \in did
    /\ t.at = "complete" => Truthful(t.req, t.answer)

(* One handler at most runs the tool of a key.                             *)
OneRun ==
    \A p, q \in ShimProcs :
        shim[p].at \in Executing /\ shim[q].at \in Executing /\ Tool(p).key = Tool(q).key => p = q

(* The ledger, the handlers and the answers given agree.                   *)
Executions ==
    /\ \A k \in ShimKeys : RowOK(k)
    /\ \A p \in ShimProcs : Knows(shim[p])
    /\ OneRun
    /\ \A s \in said : \E r \in calls : r.key = s.key /\ r.id = s.id
    /\ RepliesAgree

(* A path has one lock.                                                    *)
OneHolder == \A p, q \in ShimProcs : \A n \in ShimPaths : Holds(p, n) /\ Holds(q, n) => p = q

(* Under its locks, a handler that has checked finds what it expects       *)
(* unless somebody outside the shim wrote there.                           *)
FileOK(t) ==
    /\ t.at = "swap" => /\ file[t.src].by = "shim" => file[t.src].c = t.req.expected
                        /\ t.req.op = "rename" =>
                             t.src # t.dst /\ (file[t.dst].by = "shim" => file[t.dst].c = 0)
    /\ t.at = "inspect" => /\ file[t.src].by = "shim" => file[t.src].c = 0
                           /\ t.req.op = "rename" =>
                                t.src # t.dst /\ (file[t.dst].by = "shim" => file[t.dst].c = t.req.expected)

Files == \A p \in ShimProcs : FileOK(shim[p])

ShimInv == ShimTypes /\ Executions /\ OneHolder /\ Files

-----------------------------------------------------------------------------
(* A handler moves.                                                        *)
LEMMA ShimMoves ==
    ASSUME ShimTypes, NEW p \in ShimProcs, NEW y, Goto(p, y)
    PROVE  DOMAIN shim' = ShimProcs /\ shim'[p] = y /\ \A q \in ShimProcs : q # p => shim'[q] = shim[q]
BY Zenon DEF ShimTypes, Goto

(* The types, when a handler moves.                                        *)
LEMMA TypesMove ==
    ASSUME ShimTypes, NEW p \in ShimProcs, NEW y, Goto(p, y), HandOK(y), calls' = calls, link' = link,
           DOMAIN file' = ShimPaths, DOMAIN ledger' = ShimKeys, DOMAIN unsettled' = ShimKeys, DOMAIN ran' = ShimKeys,
           \A k \in ShimKeys : DOMAIN ledger'[k] = {"status", "digest", "response"}
    PROVE  ShimTypes'
<1>1. DOMAIN shim' = ShimProcs /\ shim'[p] = y /\ \A q \in ShimProcs : q # p => shim'[q] = shim[q]
  BY ShimMoves, Zenon
<1>2. ASSUME NEW q \in ShimProcs PROVE HandOK(shim[q])'
  <2>1. HandOK(shim'[q])
    BY <1>1, Zenon DEF ShimTypes
  <2> QED
    BY <2>1, Zenon DEF HandOK
<1>3. ShimKeys' = ShimKeys
  BY Zenon DEF ShimKeys
<1> QED
  BY <1>1, <1>2, <1>3, Zenon DEF ShimTypes

(* The locks, when a handler moves: it keeps its own, or takes free ones.  *)
LEMMA LocksMove ==
    ASSUME ShimTypes, OneHolder, NEW p \in ShimProcs, NEW y, Goto(p, y),
           y.at \in Locking => \A n \in y.held : Holds(p, n) \/ \A q \in ShimProcs : ~Holds(q, n)
    PROVE  OneHolder'
<1>1. shim'[p] = y /\ \A q \in ShimProcs : q # p => shim'[q] = shim[q]
  BY ShimMoves, Zenon
<1>2. ASSUME NEW q \in ShimProcs, q # p, NEW n \in ShimPaths, Holds(p, n)', Holds(q, n)' PROVE FALSE
  <2>1. Holds(q, n)
    BY <1>1, <1>2, Zenon DEF Holds
  <2>2. Holds(p, n)
    BY <1>1, <1>2, <2>1, Zenon DEF Holds, Locking
  <2> QED
    BY <1>2, <2>1, <2>2, Zenon DEF OneHolder
<1>3. ASSUME NEW q \in ShimProcs, NEW s \in ShimProcs, q # p, s # p, NEW n \in ShimPaths, Holds(q, n)', Holds(s, n)'
      PROVE  q = s
  <2>1. Holds(q, n) /\ Holds(s, n)
    BY <1>1, <1>3, Zenon DEF Holds
  <2> QED
    BY <2>1, Zenon DEF OneHolder
<1> QED
  BY <1>2, <1>3, Zenon DEF OneHolder

(* What a handler finds stays, when another one writes under its locks.    *)
LEMMA FileStays ==
    ASSUME ShimTypes, OneHolder, NEW p \in ShimProcs, NEW q \in ShimProcs, q # p, FileOK(shim[q]),
           \A n \in ShimPaths : file'[n] = file[n] \/ file'[n].by = "editor" \/ Holds(p, n)
    PROVE  /\ shim[q].at = "swap" =>
                /\ file'[shim[q].src].by = "shim" => file'[shim[q].src].c = shim[q].req.expected
                /\ shim[q].req.op = "rename" =>
                     /\ shim[q].src # shim[q].dst
                     /\ file'[shim[q].dst].by = "shim" => file'[shim[q].dst].c = 0
           /\ shim[q].at = "inspect" =>
                /\ file'[shim[q].src].by = "shim" => file'[shim[q].src].c = 0
                /\ shim[q].req.op = "rename" =>
                     /\ shim[q].src # shim[q].dst
                     /\ file'[shim[q].dst].by = "shim" => file'[shim[q].dst].c = shim[q].req.expected
<1>1. CASE shim[q].at \notin {"swap", "inspect"}
  BY <1>1, Zenon
<1>2. CASE shim[q].at \in {"swap", "inspect"}
  <2>1. /\ shim[q].src \in ShimPaths /\ shim[q].dst \in ShimPaths
        /\ shim[q].held = {shim[q].src, shim[q].dst}
    BY <1>2, Zenon DEF ShimTypes, HandOK, Locking, Want
  <2>2. ASSUME NEW n \in {shim[q].src, shim[q].dst} PROVE file'[n] = file[n] \/ file'[n].by # "shim"
    <3>1. n \in ShimPaths /\ Holds(q, n)
      BY <1>2, <2>1, Zenon DEF Holds
    <3>2. ~Holds(p, n)
      BY <3>1, Zenon DEF OneHolder
    <3>3. "editor" # "shim"
      OBVIOUS
    <3> QED
      BY <3>1, <3>2, <3>3, Zenon
  <2>3. PICK s, d : s = shim[q].src /\ d = shim[q].dst
    BY Zenon
  <2>4. (file'[s] = file[s] \/ file'[s].by # "shim") /\ (file'[d] = file[d] \/ file'[d].by # "shim")
    BY <2>2, <2>3, Zenon
  <2> QED
    BY <2>3, <2>4, Zenon DEF FileOK
<1> QED
  BY <1>1, <1>2, Zenon

(* The files, when a handler moves.                                        *)
LEMMA FilesMove ==
    ASSUME ShimTypes, OneHolder, Files, NEW p \in ShimProcs, NEW y, Goto(p, y), FileOK(y)',
           \A n \in ShimPaths : file'[n] = file[n] \/ file'[n].by = "editor" \/ Holds(p, n)
    PROVE  Files'
<1>1. shim'[p] = y /\ \A q \in ShimProcs : q # p => shim'[q] = shim[q]
  BY ShimMoves, Zenon
<1>2. ASSUME NEW q \in ShimProcs, q # p PROVE FileOK(shim[q])'
  <2>1. FileOK(shim[q])
    BY Zenon DEF Files
  <2>2. shim'[q] = shim[q]
    BY <1>1, <1>2, Zenon
  <2> QED
    BY <1>2, <2>1, <2>2, FileStays, Zenon DEF FileOK
<1>3. FileOK(shim[p])'
  BY <1>1, Zenon DEF FileOK
<1> QED
  BY <1>2, <1>3, Zenon DEF Files

(* What is known of the other keys, when one handler works on its own.     *)
Others(k) ==
    \A j : j # k => (j \in did' <=> j \in did) /\ (j \in stuck' <=> j \in stuck)

(* What was answered for another key stays true.                           *)
LEMMA TruthStays ==
    ASSUME NEW r, NEW k, r.key # k, Others(k), NEW response, Truthful(r, response)
    PROVE  Truthful(r, response)'
BY Zenon DEF Truthful, Others

(* What a handler is doing of its tool's change.                           *)
DidOK(t) ==
    /\ t.at \in Executing \ {"inspect", "complete"} => t.req.key \notin did
    /\ t.at = "inspect" => t.req.key \in did
    /\ t.at = "complete" => Truthful(t.req, t.answer)

(* The tool goes on: rows, records and answers stay as they are.           *)
LEMMA ExecutionsMove ==
    ASSUME ShimTypes, Executions, NEW p \in ShimProcs, NEW y, Goto(p, y), shim[p].at \in Executing,
           y.at \in Executing, y.req = Tool(p), UNCHANGED <<calls, ledger, unsettled, ran, said>>,
           Others(Tool(p).key), DidOK(y)'
    PROVE  Executions'
<1> DEFINE k == Tool(p).key
<1>1. shim'[p] = y /\ \A q \in ShimProcs : q # p => shim'[q] = shim[q]
  BY ShimMoves, Zenon
<1>2. Tool(p) \in calls /\ k \in ShimKeys /\ ShimKeys' = ShimKeys
  BY Zenon DEF ShimTypes, HandOK, Executing, Tool, ShimKeys
<1>3. \A q \in ShimProcs : Tool(q)' = Tool(q) /\ (shim'[q].at \in Executing <=> shim[q].at \in Executing)
  BY <1>1, Zenon DEF Tool
<1>4. OneRun'
  BY <1>3, Zenon DEF Executions, OneRun
<1>5. ledger[k].status = "pending" /\ ran[k] = 1
  BY Zenon DEF Executions, Knows, Tool
<1>6. ASSUME NEW j \in ShimKeys PROVE RowOK(j)'
  <2>1. RowOK(j)
    BY Zenon DEF Executions
  <2>2. ledger[j].status = "pending" =>
          \/ ran[j] = 0 \/ unsettled[j] # ""
          \/ \E q \in ShimProcs : shim'[q].at \in Executing /\ Tool(q)'.key = j
    BY <1>3, <2>1, Zenon DEF RowOK
  <2>3. ran[j] = 0 => j \notin did'
    <3>1. CASE j = k
      <4>1. 1 # 0
        OBVIOUS
      <4> QED
        BY <1>5, <3>1, <4>1, Zenon
    <3>2. CASE j # k
      BY <2>1, <3>2, Zenon DEF RowOK, Others
    <3> QED
      BY <3>1, <3>2, Zenon
  <2>4. ledger[j].status \in SettledStates =>
          \A r \in calls : r.key = j /\ r.id = ledger[j].digest => Truthful(r, ledger[j].response)'
    <3> SUFFICES ASSUME ledger[j].status \in SettledStates, NEW r \in calls, r.key = j, r.id = ledger[j].digest
                 PROVE  Truthful(r, ledger[j].response)'
      BY Zenon
    <3>1. j # k
      BY <1>5, Zenon DEF SettledStates
    <3>2. PICK z : z = ledger[j].response
      BY Zenon
    <3>3. Truthful(r, z)
      BY <2>1, <3>2, Zenon DEF RowOK
    <3>4. Truthful(r, z)'
      BY <3>1, <3>3, TruthStays, Zenon
    <3> QED
      BY <3>2, <3>4, Zenon DEF Truthful
  <2> QED
    BY <2>1, <2>2, <2>3, <2>4, Zenon DEF RowOK
<1>7. ASSUME NEW q \in ShimProcs PROVE Knows(shim[q])'
  <2>1. Knows(shim[q])
    BY Zenon DEF Executions
  <2>2. CASE q = p
    <3>1. Knows(y)'
      <4>1. Knows(shim[p])
        BY Zenon DEF Executions
      <4>2. y.req.key = k /\ y.at # "mark"
        BY Zenon DEF Executing
      <4> QED
        BY <4>1, <4>2, Zenon DEF Knows, DidOK, Tool
    <3> QED
      BY <1>1, <2>2, <3>1, Zenon DEF Knows
  <2>3. CASE q # p
    <3>1. PICK t : t = shim[q] /\ t = shim'[q]
      BY <1>1, <2>3, Zenon
    <3>2. CASE t.at \in Executing
      <4>1. t.req.key # k
        BY <2>3, <3>1, <3>2, Zenon DEF Executions, OneRun, Tool
      <4>2. t.at = "complete" => Truthful(t.req, t.answer)'
        BY <2>1, <3>1, <4>1, TruthStays, Zenon DEF Knows
      <4>3. Knows(t)'
        BY <2>1, <3>1, <3>2, <4>1, <4>2, Zenon DEF Knows, Others
      <4> QED
        BY <3>1, <4>3, Zenon DEF Knows
    <3>3. CASE t.at \notin Executing
      <4>1. t.at # "complete" /\ t.at # "inspect"
        BY <3>3, Zenon DEF Executing
      <4>2. Knows(t)'
        BY <2>1, <3>1, <3>3, <4>1, Zenon DEF Knows
      <4> QED
        BY <3>1, <4>2, Zenon DEF Knows
    <3> QED
      BY <3>2, <3>3, Zenon
  <2> QED
    BY <2>2, <2>3, Zenon
<1>8. RepliesAgree' /\ \A s \in said' : \E r \in calls' : r.key = s.key /\ r.id = s.id
  BY Zenon DEF Executions, RepliesAgree
<1> QED
  BY <1>2, <1>4, <1>6, <1>7, <1>8, Zenon DEF Executions

(* A step of a tool that is running.                                       *)
LEMMA Proceed ==
    ASSUME ShimInv, NEW p \in ShimProcs, NEW y, Goto(p, y), shim[p].at \in Executing, y.at \in Executing,
           y.req = Tool(p), HandOK(y), UNCHANGED <<calls, ledger, unsettled, link, ran, said>>,
           Others(Tool(p).key), DidOK(y)', FileOK(y)', DOMAIN file' = ShimPaths,
           y.at \in Locking => \A n \in y.held : Holds(p, n) \/ \A q \in ShimProcs : ~Holds(q, n),
           \A n \in ShimPaths : file'[n] = file[n] \/ file'[n].by = "editor" \/ Holds(p, n)
    PROVE  ShimInv'
<1>1. ShimTypes /\ Executions /\ OneHolder /\ Files
  BY Zenon DEF ShimInv
<1>2. ShimTypes'
  <2>1. /\ DOMAIN ledger' = ShimKeys /\ DOMAIN unsettled' = ShimKeys /\ DOMAIN ran' = ShimKeys
        /\ \A k \in ShimKeys : DOMAIN ledger'[k] = {"status", "digest", "response"}
    BY <1>1, Zenon DEF ShimTypes
  <2> QED
    BY <1>1, <2>1, TypesMove, Zenon
<1>3. Executions'
  BY <1>1, ExecutionsMove, Zenon
<1>4. OneHolder'
  BY <1>1, LocksMove, Zenon
<1>5. Files'
  BY <1>1, FilesMove, Zenon
<1> QED
  BY <1>2, <1>3, <1>4, <1>5, Zenon DEF ShimInv

(* A tool that is done.                                                    *)
LEMMA ToolFinishes ==
    ASSUME ShimInv, NEW p \in ShimProcs, NEW code, NEW content, Finished(p, code, content), shim[p].at \in Executing,
           UNCHANGED <<calls, ledger, unsettled, link, ran, said>>, Others(Tool(p).key), DOMAIN file' = ShimPaths,
           Tool(p).op # "read" => /\ code = "ok" => Tool(p).key \in did'
                                  /\ code \in ShimFailures => Tool(p).key \in stuck' \/ Tool(p).key \notin did',
           \A n \in ShimPaths : file'[n] = file[n] \/ file'[n].by = "editor" \/ Holds(p, n)
    PROVE  ShimInv'
<1>1. PICK y : y = [at |-> "complete", req |-> Tool(p), answer |-> Answer(code, content)]
  BY Zenon
<1>2. y.at = "complete" /\ y.req = Tool(p) /\ y.answer.code = code
  BY <1>1, Zenon DEF Answer
<1>3. Goto(p, y)
  BY <1>1, Zenon DEF Finished
<1>4. y.at \in Executing /\ y.at \notin Locking
  BY <1>2, Zenon DEF Executing, Locking
<1>5. HandOK(y)
  <2>1. Tool(p) \in calls
    BY Zenon DEF ShimInv, ShimTypes, HandOK, Executing, Tool
  <2> QED
    BY <1>2, <1>4, <2>1, Zenon DEF HandOK
<1>6. PICK r : r = Tool(p)
  BY Zenon
<1>7. DidOK(y)'
  BY <1>2, <1>6, Zenon DEF DidOK, Truthful, Executing
<1>8. FileOK(y)'
  BY <1>2, Zenon DEF FileOK
<1> QED
  BY <1>2, <1>3, <1>4, <1>5, <1>7, <1>8, Proceed, Zenon
-----------------------------------------------------------------------------
(* The tools                                                               *)

(* A handler at work knows its row, and its change is not made yet.        *)
LEMMA AtWork ==
    ASSUME ShimInv, NEW p \in ShimProcs, shim[p].at \in Executing
    PROVE  /\ Tool(p) \in calls /\ Tool(p).key \in ShimKeys /\ DOMAIN file = ShimPaths
           /\ shim[p].at \notin {"inspect", "complete"} => Tool(p).key \notin did
           /\ shim[p].at = "inspect" => Tool(p).key \in did
<1>1. ShimTypes /\ Executions
  BY Zenon DEF ShimInv
<1>2. HandOK(shim[p]) /\ DOMAIN file = ShimPaths
  BY <1>1, Zenon DEF ShimTypes
<1>3. Tool(p) \in calls
  BY <1>2, Zenon DEF HandOK, Executing, Tool
<1>4. Knows(shim[p])
  BY <1>1, Zenon DEF Executions
<1> QED
  BY <1>2, <1>3, <1>4, Zenon DEF Knows, Tool, ShimKeys

(* A handler whose tool leaves files and histories alone.                  *)
LEMMA ToolStays ==
    ASSUME UNCHANGED <<calls, ledger, unsettled, link, file, ran, did, stuck, said>>, NEW k, NEW p
    PROVE  /\ UNCHANGED <<calls, ledger, unsettled, link, ran, said>> /\ Others(k)
           /\ DOMAIN file' = DOMAIN file
           /\ \A n \in ShimPaths : file'[n] = file[n] \/ file'[n].by = "editor" \/ Holds(p, n)
BY Zenon DEF Others

(* human_read_file.                                                        *)
LEMMA ReadFileKept ==
    ASSUME ShimInv, NEW p \in ShimProcs, ReadFile(p)
    PROVE  ShimInv'
<1>1. shim[p].at \in Executing /\ Tool(p).op = "read"
  BY Zenon DEF ReadFile, Executing
<1>2. UNCHANGED <<calls, ledger, unsettled, link, file, ran, did, stuck, said>>
  BY Zenon DEF ReadFile
<1>3. PICK code, content : Finished(p, code, content)
  BY Zenon DEF ReadFile
<1> QED
  BY <1>1, <1>2, <1>3, AtWork, ToolStays, ToolFinishes, Zenon

(* human_exec.                                                             *)
LEMMA RunCommandKept ==
    ASSUME ShimInv, NEW p \in ShimProcs, RunCommand(p)
    PROVE  ShimInv'
<1>1. shim[p].at = "run" /\ shim[p].at \in Executing
  BY Zenon DEF RunCommand, Executing
<1>2. UNCHANGED <<calls, ledger, unsettled, link, ran, stuck, said>>
  BY Zenon DEF RunCommand
<1>3. Tool(p).key \notin did /\ DOMAIN file = ShimPaths
  BY <1>1, AtWork, Zenon
<1>4. ASSUME NEW n \in ShimPaths, NEW c, NEW code \in {"ok", "failed", "large"},
             file' = [file EXCEPT ![n] = [c |-> c, by |-> "editor"]], did' = did \cup {Tool(p).key},
             Finished(p, code, 0)
      PROVE  ShimInv'
  <2>1. DOMAIN file' = ShimPaths /\ \A m \in ShimPaths : file'[m] = file[m] \/ file'[m].by = "editor"
    BY <1>3, <1>4, Zenon
  <2>2. code \notin ShimFailures
    BY <1>4, Zenon DEF ShimFailures
  <2>3. Others(Tool(p).key) /\ Tool(p).key \in did'
    BY <1>2, <1>4, Zenon DEF Others
  <2> QED
    BY <1>1, <1>2, <1>4, <2>1, <2>2, <2>3, ToolFinishes, Zenon
<1>5. ASSUME Finished(p, "error", 0), UNCHANGED <<file, did>> PROVE ShimInv'
  <2>1. "error" # "ok"
    OBVIOUS
  <2> QED
    BY <1>1, <1>2, <1>3, <1>5, <2>1, ToolStays, ToolFinishes, Zenon
<1> QED
  BY <1>4, <1>5, Zenon DEF RunCommand

Early == Executing \ {"inspect", "complete"}

(* A tool that has not changed anything yet goes on to where it has not.   *)
LEMMA Advances ==
    ASSUME ShimInv, NEW p \in ShimProcs, NEW y, Goto(p, y), shim[p].at \in Early, y.at \in Early, y.req = Tool(p),
           HandOK(y), FileOK(y), UNCHANGED <<calls, ledger, unsettled, link, file, ran, did, stuck, said>>,
           y.at \in Locking => \A n \in y.held : Holds(p, n) \/ \A q \in ShimProcs : ~Holds(q, n)
    PROVE  ShimInv'
<1>1. /\ shim[p].at \in Executing /\ shim[p].at \notin {"inspect", "complete"}
      /\ y.at \in Executing /\ y.at \notin {"inspect", "complete"}
  BY Zenon DEF Early
<1>2. Tool(p).key \notin did /\ DOMAIN file = ShimPaths
  BY <1>1, AtWork, Zenon
<1>3. DidOK(y)'
  BY <1>1, <1>2, Zenon DEF DidOK
<1>4. FileOK(y)'
  BY Zenon DEF FileOK
<1> QED
  BY <1>1, <1>2, <1>3, <1>4, ToolStays, Proceed, Zenon

(* A tool that has not changed anything is refused.                        *)
LEMMA ToolFails ==
    ASSUME ShimInv, NEW p \in ShimProcs, NEW code, Finished(p, code, 0), shim[p].at \in Early, code # "ok",
           UNCHANGED <<calls, ledger, unsettled, link, file, ran, did, stuck, said>>
    PROVE  ShimInv'
<1>1. shim[p].at \in Executing /\ shim[p].at \notin {"inspect", "complete"}
  BY Zenon DEF Early
<1>2. Tool(p).key \notin did /\ DOMAIN file = ShimPaths
  BY <1>1, AtWork, Zenon
<1> QED
  BY <1>1, <1>2, ToolStays, ToolFinishes, Zenon

(* The codes of refusals.                                                  *)
LEMMA Codes == \A code \in ShimFailures : code # "ok"
BY Zenon DEF ShimFailures

(* lockResolvedPath, lockResolvedPair.                                     *)
LEMMA ResolvePathsKept ==
    ASSUME ShimInv, NEW p \in ShimProcs, ResolvePaths(p)
    PROVE  ShimInv'
<1>1. shim[p].at \in Early /\ shim[p].at \in Executing
  BY Zenon DEF ResolvePaths, Early, Executing
<1>2. UNCHANGED <<calls, ledger, unsettled, link, file, ran, did, stuck, said>>
  BY Zenon DEF ResolvePaths
<1>3. CASE Finished(p, "outside", 0)
  BY <1>1, <1>2, <1>3, Codes, ToolFails, Zenon DEF ShimFailures
<1>4. ASSUME Outside \notin {Source(Tool(p)), Target(Tool(p))},
             Goto(p, [at |-> "lock", req |-> Tool(p), src |-> Source(Tool(p)), dst |-> Target(Tool(p)), held |-> {}])
      PROVE  ShimInv'
  <2>1. PICK y : y = [at |-> "lock", req |-> Tool(p), src |-> Source(Tool(p)), dst |-> Target(Tool(p)), held |-> {}]
    BY Zenon
  <2>2. /\ y.at = "lock" /\ y.req = Tool(p) /\ y.src = Source(Tool(p)) /\ y.dst = Target(Tool(p)) /\ y.held = {}
        /\ DOMAIN y = {"at", "req", "src", "dst", "held"}
    BY <2>1
  <2>3. Tool(p) \in calls
    BY <1>1, AtWork, Zenon
  <2>4. y.src \in ShimPaths /\ y.dst \in ShimPaths /\ (Tool(p).op # "rename" => y.dst = y.src)
    <3>1. link[Tool(p).from] \in ShimPaths \cup {Outside} /\ link[Tool(p).to] \in ShimPaths \cup {Outside}
      BY <2>3, Zenon DEF ShimInv, ShimTypes
    <3> QED
      BY <1>4, <2>2, <3>1, Zenon DEF Source, Target
  <2>5. y.at \in Early /\ y.at \in Executing
    BY <2>2, Zenon DEF Early, Executing
  <2>6. HandOK(y)
    BY <2>2, <2>3, <2>4, <2>5, Zenon DEF HandOK
  <2>7. FileOK(y)
    BY <2>2, Zenon DEF FileOK
  <2>8. Goto(p, y)
    BY <1>4, <2>1, Zenon
  <2> QED
    BY <1>1, <1>2, <2>2, <2>5, <2>6, <2>7, <2>8, Advances, Zenon
<1> QED
  BY <1>3, <1>4, Zenon DEF ResolvePaths

(* The next lock is the first of those that are missing.                   *)
LEMMA NextLockIs ==
    ASSUME NEW t, t.src \in Nat, t.dst \in Nat, Want(t) \ t.held # {}
    PROVE  NextLock(t) \in Want(t) \ t.held /\ \A m \in Want(t) \ t.held : NextLock(t) <= m
<1>1. \E n \in Want(t) \ t.held : \A m \in Want(t) \ t.held : n <= m
  BY DEF Want
<1> QED
  BY <1>1, Zenon DEF NextLock

(* pathLockTable.lock.                                                     *)
LEMMA AcquireLockKept ==
    ASSUME ShimInv, NEW p \in ShimProcs, AcquireLock(p)
    PROVE  ShimInv'
<1>1. shim[p].at = "lock" /\ shim[p].at \in Early /\ shim[p].at \in Executing /\ shim[p].at \in Locking
  BY Zenon DEF AcquireLock, Early, Executing, Locking
<1>2. UNCHANGED <<calls, ledger, unsettled, link, file, ran, did, stuck, said>>
  BY Zenon DEF AcquireLock
<1>3. PICK t : t = shim[p]
  BY Zenon
<1>4. DOMAIN shim = ShimProcs /\ HandOK(t)
  BY <1>3, Zenon DEF ShimInv, ShimTypes
<1>5. /\ t.src \in ShimPaths /\ t.dst \in ShimPaths /\ (t.req.op # "rename" => t.dst = t.src)
      /\ t.held \subseteq Want(t) /\ (\A n \in t.held, m \in Want(t) \ t.held : n < m)
      /\ DOMAIN t = {"at", "req", "src", "dst", "held"} /\ t.req \in calls /\ t.at = "lock"
  BY <1>1, <1>3, <1>4, Zenon DEF HandOK
<1>6. PICK n : n = NextLock(t)
  BY Zenon
<1>7. PICK y : y = [t EXCEPT !.held = @ \cup {n}]
  BY Zenon
<1>8. Goto(p, y) /\ \A q \in ShimProcs : ~Holds(q, n)
  BY <1>3, <1>4, <1>6, <1>7, Zenon DEF AcquireLock, Goto
<1>9. /\ y.at = "lock" /\ y.req = t.req /\ y.src = t.src /\ y.dst = t.dst /\ y.held = t.held \cup {n}
      /\ DOMAIN y = {"at", "req", "src", "dst", "held"}
  BY <1>5, <1>7
<1>10. n \in Want(t) \ t.held /\ \A m \in Want(t) \ t.held : n <= m
  <2>1. t.src \in Nat /\ t.dst \in Nat
    BY <1>5, ScenesAssumption, Zenon
  <2>2. Want(t) \ t.held # {}
    BY <1>3, <1>5, Zenon DEF AcquireLock
  <2> QED
    BY <1>6, <2>1, <2>2, NextLockIs, Zenon
<1>11. Want(y) = Want(t)
  BY <1>9, Zenon DEF Want
<1>12. ASSUME NEW a \in y.held, NEW b \in Want(y) \ y.held PROVE a < b
  <2>1. b \in Want(t) \ t.held /\ b # n
    BY <1>9, <1>11, <1>12, Zenon
  <2>2. CASE a \in t.held
    BY <1>5, <2>1, <2>2, Zenon
  <2>3. CASE a = n
    <3>1. n \in Nat /\ b \in Nat /\ n <= b
      BY <1>5, <1>10, <2>1, ScenesAssumption, Zenon DEF Want
    <3> QED
      BY <2>1, <2>3, <3>1
  <2> QED
    BY <1>9, <2>2, <2>3, Zenon
<1>13. HandOK(y)
  <2>1. y.held \subseteq Want(y)
    BY <1>5, <1>9, <1>10, <1>11, Zenon
  <2> QED
    BY <1>5, <1>9, <1>12, <2>1, Zenon DEF HandOK, Executing
<1>14. FileOK(y)
  BY <1>9, Zenon DEF FileOK
<1>15. \A m \in y.held : Holds(p, m) \/ \A q \in ShimProcs : ~Holds(q, m)
  BY <1>1, <1>3, <1>8, <1>9, Zenon DEF Holds
<1>16. y.at \in Early /\ y.req = Tool(p)
  BY <1>1, <1>3, <1>9, Zenon DEF Tool
<1> QED
  BY <1>1, <1>2, <1>8, <1>13, <1>14, <1>15, <1>16, Advances, Zenon

(* What a mutation is, that has its paths.                                 *)
LEMMA Located ==
    ASSUME ShimInv, NEW p \in ShimProcs, NEW t, t = shim[p], t.at \in Locking
    PROVE  /\ t.src \in ShimPaths /\ t.dst \in ShimPaths /\ (t.req.op # "rename" => t.dst = t.src)
           /\ t.held \subseteq Want(t) /\ (\A n \in t.held, m \in Want(t) \ t.held : n < m)
           /\ t.at # "inspect" => DOMAIN t = {"at", "req", "src", "dst", "held"}
           /\ t.at # "lock" => t.held = Want(t)
           /\ t.req \in calls /\ t.req = Tool(p) /\ t.at \in Executing /\ DOMAIN file = ShimPaths
           /\ \A n \in t.held : Holds(p, n)
<1>1. HandOK(t) /\ DOMAIN file = ShimPaths
  BY Zenon DEF ShimInv, ShimTypes
<1>2. t.at \in Executing /\ t.at # "idle"
  BY Zenon DEF Executing, Locking
<1>3. \A n \in t.held : Holds(p, n)
  BY Zenon DEF Holds, Locking
<1> QED
  BY <1>1, <1>2, <1>3, Zenon DEF HandOK, Tool

(* A mutation goes on with its locks.                                      *)
LEMMA GoesOn ==
    ASSUME ShimInv, NEW p \in ShimProcs, shim[p].at \in {"lock", "check", "ready"}, NEW at \in {"check", "ready", "swap"},
           shim[p].held = Want(shim[p]), Goto(p, [shim[p] EXCEPT !.at = at]),
           UNCHANGED <<calls, ledger, unsettled, link, file, ran, did, stuck, said>>,
           at = "swap" => /\ file[shim[p].src].by = "shim" => file[shim[p].src].c = Tool(p).expected
                          /\ Tool(p).op = "rename" =>
                               /\ shim[p].src # shim[p].dst
                               /\ file[shim[p].dst].by = "shim" => file[shim[p].dst].c = 0
    PROVE  ShimInv'
<1>1. PICK t : t = shim[p]
  BY Zenon
<1>2. PICK y : y = [t EXCEPT !.at = at]
  BY Zenon
<1>3. t.at \in Early /\ t.at \in Locking /\ t.at # "inspect"
  BY <1>1, Zenon DEF Early, Executing, Locking
<1>4. /\ t.src \in ShimPaths /\ t.dst \in ShimPaths /\ (t.req.op # "rename" => t.dst = t.src)
      /\ DOMAIN t = {"at", "req", "src", "dst", "held"} /\ t.req \in calls /\ t.req = Tool(p)
      /\ \A n \in t.held : Holds(p, n)
  BY <1>1, <1>3, Located, Zenon
<1>5. /\ y.at = at /\ y.req = t.req /\ y.src = t.src /\ y.dst = t.dst /\ y.held = t.held
      /\ DOMAIN y = {"at", "req", "src", "dst", "held"}
  BY <1>2, <1>4
<1>6. y.at \in Early /\ y.at \in Executing /\ y.at # "idle" /\ y.at # "inspect"
  BY <1>5, Zenon DEF Early, Executing
<1>7. y.held = Want(y)
  BY <1>1, <1>5, Zenon DEF Want
<1>8. HandOK(y)
  BY <1>4, <1>5, <1>6, <1>7, Zenon DEF HandOK
<1>9. FileOK(y)
  BY <1>1, <1>4, <1>5, <1>6, Zenon DEF FileOK
<1>10. Goto(p, y)
  BY <1>1, <1>2, Zenon
<1> QED
  BY <1>1, <1>3, <1>4, <1>5, <1>6, <1>8, <1>9, <1>10, Advances, Zenon

(* The names are resolved again under the locks.                           *)
LEMMA VerifyLockedKept ==
    ASSUME ShimInv, NEW p \in ShimProcs, VerifyLocked(p)
    PROVE  ShimInv'
<1>1. /\ shim[p].at = "lock" /\ shim[p].at \in Early /\ shim[p].at \in Executing
      /\ shim[p].held = Want(shim[p])
  BY Zenon DEF VerifyLocked, Early, Executing
<1>2. UNCHANGED <<calls, ledger, unsettled, link, file, ran, did, stuck, said>>
  BY Zenon DEF VerifyLocked
<1>3. CASE Finished(p, "outside", 0)
  BY <1>1, <1>2, <1>3, Codes, ToolFails, Zenon DEF ShimFailures
<1>4. CASE Goto(p, [shim[p] EXCEPT !.at = "check"])
  <2>1. "check" # "swap"
    OBVIOUS
  <2> QED
    BY <1>1, <1>2, <1>4, <2>1, GoesOn, Zenon
<1>5. CASE Goto(p, [at |-> "run", req |-> Tool(p)])
  <2>1. PICK y : y = [at |-> "run", req |-> Tool(p)]
    BY Zenon
  <2>2. y.at = "run" /\ y.req = Tool(p)
    BY <2>1, Zenon
  <2>3. Goto(p, y)
    BY <1>5, <2>1, Zenon
  <2>4. y.at \in Early /\ y.at \in Executing /\ y.at \notin Locking
    BY <2>2, Zenon DEF Early, Executing, Locking
  <2>5. Tool(p) \in calls
    BY <1>1, AtWork, Zenon
  <2>6. HandOK(y) /\ FileOK(y)
    BY <2>2, <2>4, <2>5, Zenon DEF HandOK, FileOK
  <2> QED
    BY <1>1, <1>2, <2>2, <2>3, <2>4, <2>6, Advances, Zenon
<1> QED
  BY <1>3, <1>4, <1>5, Zenon DEF VerifyLocked

(* The first check of the preconditions.                                   *)
LEMMA CheckExpectedKept ==
    ASSUME ShimInv, NEW p \in ShimProcs, CheckExpected(p)
    PROVE  ShimInv'
<1>1. shim[p].at = "check" /\ shim[p].at \in Early /\ shim[p].at \in Locking /\ shim[p].at # "lock"
  BY Zenon DEF CheckExpected, Early, Executing, Locking
<1>2. UNCHANGED <<calls, ledger, unsettled, link, file, ran, did, stuck, said>>
  BY Zenon DEF CheckExpected
<1>3. shim[p].held = Want(shim[p])
  BY <1>1, Located, Zenon
<1>4. CASE Finished(p, Objection(shim[p]), 0)
  <2>1. Objection(shim[p]) # "ok"
    BY DEF Objection
  <2> QED
    BY <1>1, <1>2, <1>4, <2>1, ToolFails, Zenon
<1>5. CASE Goto(p, [shim[p] EXCEPT !.at = "ready"])
  <2>1. "ready" # "swap"
    OBVIOUS
  <2> QED
    BY <1>1, <1>2, <1>3, <1>5, <2>1, GoesOn, Zenon
<1>6. CASE Finished(p, "error", 0)
  BY <1>1, <1>2, <1>6, Codes, ToolFails, Zenon DEF ShimFailures
<1> QED
  BY <1>4, <1>5, <1>6, Zenon DEF CheckExpected

(* The second check, before the change.                                    *)
LEMMA RecheckKept ==
    ASSUME ShimInv, NEW p \in ShimProcs, Recheck(p)
    PROVE  ShimInv'
<1>1. shim[p].at = "ready" /\ shim[p].at \in Early /\ shim[p].at \in Locking /\ shim[p].at # "lock"
  BY Zenon DEF Recheck, Early, Executing, Locking
<1>2. UNCHANGED <<calls, ledger, unsettled, link, file, ran, did, stuck, said>>
  BY Zenon DEF Recheck
<1>3. shim[p].held = Want(shim[p])
  BY <1>1, Located, Zenon
<1>4. CASE \E code \in ShimFailures : Finished(p, code, 0)
  BY <1>1, <1>2, <1>4, Codes, ToolFails, Zenon
<1>5. CASE /\ Expected(shim[p]) /\ DestinationAbsent(shim[p])
           /\ Goto(p, [shim[p] EXCEPT !.at = "swap"])
  <2>1. file[shim[p].src].c = Tool(p).expected
    BY <1>5, Zenon DEF Expected, Tool
  <2>2. Tool(p).op = "rename" => file[shim[p].dst].c = 0 /\ Tool(p).expected # 0
    <3>1. "rename" # "write"
      OBVIOUS
    <3> QED
      BY <1>5, <3>1, Zenon DEF Expected, DestinationAbsent, Tool
  <2> QED
    BY <1>1, <1>2, <1>3, <1>5, <2>1, <2>2, GoesOn, Zenon
<1> QED
  BY <1>4, <1>5, Zenon DEF Recheck, ShimFailures

(* WriteFileCAS and EditFileCAS.                                           *)
LEMMA WriteFileKept ==
    ASSUME ShimInv, NEW p \in ShimProcs, WriteFile(p)
    PROVE  ShimInv'
<1>1. shim[p].at = "swap" /\ shim[p].at \in Early /\ shim[p].at \in Locking /\ shim[p].at # "lock"
  BY Zenon DEF WriteFile, Early, Executing, Locking
<1>2. UNCHANGED <<calls, ledger, unsettled, link, ran, stuck, said>>
  BY Zenon DEF WriteFile
<1>3. /\ shim[p].src \in ShimPaths /\ Holds(p, shim[p].src) /\ shim[p].at \in Executing
      /\ DOMAIN file = ShimPaths
  BY <1>1, Located, Zenon DEF Want
<1>4. ASSUME file' = [file EXCEPT ![shim[p].src] = [c |-> Tool(p).new, by |-> "shim"]],
             did' = did \cup {Tool(p).key}, Finished(p, "ok", 0)
      PROVE  ShimInv'
  <2>1. DOMAIN file' = ShimPaths /\ \A n \in ShimPaths : file'[n] = file[n] \/ Holds(p, n)
    BY <1>3, <1>4, Zenon
  <2>2. Others(Tool(p).key) /\ Tool(p).key \in did' /\ "ok" \notin ShimFailures
    BY <1>2, <1>4, Codes, Zenon DEF Others
  <2> QED
    BY <1>2, <1>3, <1>4, <2>1, <2>2, ToolFinishes, Zenon
<1>5. ASSUME Finished(p, "error", 0), UNCHANGED <<file, did>> PROVE ShimInv'
  BY <1>1, <1>2, <1>5, Codes, ToolFails, Zenon DEF ShimFailures
<1> QED
  BY <1>4, <1>5, Zenon DEF WriteFile

(* DeleteFileCAS and RenameFileCAS: the first move.                        *)
LEMMA MoveFileKept ==
    ASSUME ShimInv, NEW p \in ShimProcs, MoveFile(p)
    PROVE  ShimInv'
<1>1. shim[p].at = "swap" /\ shim[p].at \in Early /\ shim[p].at \in Locking /\ shim[p].at # "lock"
  BY Zenon DEF MoveFile, Early, Executing, Locking
<1>2. UNCHANGED <<calls, ledger, unsettled, link, ran, stuck, said>>
  BY Zenon DEF MoveFile
<1>3. PICK t : t = shim[p]
  BY Zenon
<1>4. /\ t.src \in ShimPaths /\ t.dst \in ShimPaths /\ (t.req.op # "rename" => t.dst = t.src)
      /\ t.held = Want(t) /\ t.req = Tool(p) /\ t.at \in Executing /\ DOMAIN file = ShimPaths /\ t.req \in calls
      /\ \A n \in t.held : Holds(p, n)
  BY <1>1, <1>3, Located, Zenon
<1>5. FileOK(t) /\ t.at = "swap" /\ t.req.op \in {"delete", "rename"}
  BY <1>1, <1>3, Zenon DEF ShimInv, Files, MoveFile, Tool
<1>6. ASSUME Finished(p, "error", 0), UNCHANGED <<file, did>> PROVE ShimInv'
  BY <1>1, <1>2, <1>6, Codes, ToolFails, Zenon DEF ShimFailures
<1>7. ASSUME file' = IF t.req.op = "delete" THEN Deleted(t) ELSE Renamed(t), did' = did \cup {t.req.key},
             Goto(p, [src |-> t.src, dst |-> t.dst, held |-> t.held, req |-> t.req, at |-> "inspect", aside |-> file[t.src]])
      PROVE  ShimInv'
  <2>1. PICK y : y = [src |-> t.src, dst |-> t.dst, held |-> t.held, req |-> t.req, at |-> "inspect", aside |-> file[t.src]]
    BY Zenon
  <2>2. y.at = "inspect" /\ y.req = t.req /\ y.src = t.src /\ y.dst = t.dst /\ y.held = t.held
    BY <2>1, Zenon
  <2>3. Goto(p, y)
    BY <1>7, <2>1, Zenon
  <2>4. y.at \in Executing /\ y.at \in Locking
    BY <2>2, Zenon DEF Executing, Locking
  <2>5. Want(y) = Want(t) /\ y.held = Want(y)
    BY <1>4, <2>2, Zenon DEF Want
  <2>6. HandOK(y)
    BY <1>4, <1>5, <2>2, <2>4, <2>5, Zenon DEF HandOK
  <2>7. Others(Tool(p).key) /\ t.req.key \in did'
    BY <1>2, <1>4, <1>7, Zenon DEF Others
  <2>8. DidOK(y)'
    BY <2>2, <2>7, Zenon DEF DidOK
  <2>9. CASE t.req.op = "delete"
    <3>1. file' = [file EXCEPT ![t.src] = [c |-> 0, by |-> "shim"]]
      BY <1>7, <2>9, Zenon DEF Deleted
    <3>2. DOMAIN file' = ShimPaths /\ file'[t.src].c = 0 /\ \A n \in ShimPaths : n # t.src => file'[n] = file[n]
      BY <1>4, <3>1, Zenon
    <3>3. "delete" # "rename"
      OBVIOUS
    <3>4. FileOK(y)'
      BY <2>2, <2>9, <3>2, <3>3, Zenon DEF FileOK
    <3>5. \A n \in ShimPaths : file'[n] = file[n] \/ Holds(p, n)
      BY <1>4, <3>2, Zenon DEF Want
    <3> QED
      BY <1>2, <1>3, <1>4, <2>2, <2>3, <2>4, <2>6, <2>7, <2>8, <3>2, <3>4, <3>5, Proceed, Zenon
  <2>10. CASE t.req.op = "rename"
    <3>1. file' = [[file EXCEPT ![t.src] = [c |-> 0, by |-> "shim"]] EXCEPT ![t.dst] = file[t.src]]
      <4>1. "rename" # "delete"
        OBVIOUS
      <4> QED
        BY <1>7, <2>10, <4>1, Zenon DEF Deleted, Renamed
    <3>2. t.src # t.dst /\ (file[t.src].by = "shim" => file[t.src].c = t.req.expected)
      BY <1>5, <2>10, Zenon DEF FileOK
    <3>3. /\ DOMAIN file' = ShimPaths /\ file'[t.src].c = 0 /\ file'[t.dst] = file[t.src]
          /\ \A n \in ShimPaths : n # t.src /\ n # t.dst => file'[n] = file[n]
      BY <1>4, <3>1, <3>2, Zenon
    <3>4. FileOK(y)'
      BY <2>2, <3>2, <3>3, Zenon DEF FileOK
    <3>5. \A n \in ShimPaths : file'[n] = file[n] \/ Holds(p, n)
      BY <1>4, <3>3, Zenon DEF Want
    <3> QED
      BY <1>2, <1>3, <1>4, <2>2, <2>3, <2>4, <2>6, <2>7, <2>8, <3>3, <3>4, <3>5, Proceed, Zenon
  <2> QED
    BY <1>5, <2>9, <2>10, Zenon
<1> QED
  BY <1>3, <1>6, <1>7, Zenon DEF MoveFile

(* What was moved is read again, and moved back if it is not what it was.  *)
LEMMA InspectKept ==
    ASSUME ShimInv, NEW p \in ShimProcs, Inspect(p)
    PROVE  ShimInv'
<1>1. shim[p].at = "inspect" /\ shim[p].at \in Locking /\ shim[p].at # "lock"
  BY Zenon DEF Inspect, Locking
<1>2. UNCHANGED <<calls, ledger, unsettled, link, ran, said>>
  BY Zenon DEF Inspect
<1>3. PICK t : t = shim[p]
  BY Zenon
<1>4. /\ t.src \in ShimPaths /\ t.dst \in ShimPaths /\ t.held = Want(t) /\ t.req = Tool(p) /\ t.at \in Executing
      /\ DOMAIN file = ShimPaths /\ \A n \in t.held : Holds(p, n)
  BY <1>1, <1>3, Located, Zenon
<1>5. Tool(p).key \in did
  BY <1>1, <1>3, <1>4, AtWork, Zenon
<1>6. ASSUME Finished(p, "ok", 0), UNCHANGED <<file, did, stuck>> PROVE ShimInv'
  <2>1. "ok" \notin ShimFailures
    BY Codes, Zenon
  <2> QED
    BY <1>2, <1>3, <1>4, <1>5, <1>6, <2>1, ToolStays, ToolFinishes, Zenon
<1>7. ASSUME NEW now, NEW last,
             file' = [file EXCEPT ![t.src] = now] \/ file' = [[file EXCEPT ![t.src] = now] EXCEPT ![t.dst] = last],
             did' = did \ {t.req.key}, Finished(p, "mismatch", 0), UNCHANGED stuck
      PROVE  ShimInv'
  <2>1. DOMAIN file' = ShimPaths /\ \A n \in ShimPaths : n # t.src /\ n # t.dst => file'[n] = file[n]
    BY <1>4, <1>7, Zenon
  <2>2. \A n \in ShimPaths : file'[n] = file[n] \/ Holds(p, n)
    BY <1>4, <2>1, Zenon DEF Want
  <2>3. Others(Tool(p).key) /\ Tool(p).key \notin did'
    BY <1>4, <1>7, Zenon DEF Others
  <2>4. "mismatch" # "ok"
    OBVIOUS
  <2> QED
    BY <1>2, <1>3, <1>4, <1>7, <2>1, <2>2, <2>3, <2>4, ToolFinishes, Zenon
<1>8. ASSUME NEW code, code # "ok", Finished(p, code, 0), stuck' = stuck \cup {t.req.key}, UNCHANGED <<file, did>>
      PROVE  ShimInv'
  <2>1. Others(Tool(p).key) /\ Tool(p).key \in stuck'
    BY <1>4, <1>8, Zenon DEF Others
  <2> QED
    BY <1>2, <1>3, <1>4, <1>8, <2>1, ToolFinishes, Zenon
<1>9. "error" # "ok" /\ "mismatch" # "ok"
  OBVIOUS
<1>10. PICK now : now = IF t.req.op = "delete" THEN t.aside ELSE file[t.dst]
  BY Zenon
<1>11. PICK code : code = IF now.c = 0 THEN "error" ELSE "mismatch"
  BY Zenon
<1>12. \/ Finished(p, "ok", 0) /\ UNCHANGED <<file, did, stuck>>
       \/ /\ file' = IF t.req.op = "delete" THEN [file EXCEPT ![t.src] = now]
                     ELSE [[file EXCEPT ![t.src] = now] EXCEPT ![t.dst] = [c |-> 0, by |-> "shim"]]
          /\ did' = did \ {t.req.key} /\ Finished(p, "mismatch", 0) /\ UNCHANGED stuck
       \/ Finished(p, code, 0) /\ stuck' = stuck \cup {t.req.key} /\ UNCHANGED <<file, did>>
  BY <1>3, <1>10, <1>11, Zenon DEF Inspect
<1>13. code # "ok"
  BY <1>9, <1>11, Zenon
<1> QED
  BY <1>6, <1>7, <1>8, <1>12, <1>13, Zenon
-----------------------------------------------------------------------------
(* The execution ledger                                                    *)

(* A handler that holds no lock and leaves the files alone.                *)
LEMMA Unlocked ==
    ASSUME ShimInv, NEW p \in ShimProcs, NEW y, Goto(p, y), y.at \in {"idle", "begin", "mark", "run"}, y.at # "idle" => y.req \in calls,
           UNCHANGED <<calls, link, file>>,
           DOMAIN ledger' = ShimKeys, DOMAIN unsettled' = ShimKeys, DOMAIN ran' = ShimKeys,
           \A k \in ShimKeys : DOMAIN ledger'[k] = {"status", "digest", "response"}
    PROVE  ShimTypes' /\ OneHolder' /\ Files'
<1>1. ShimTypes /\ OneHolder /\ Files /\ DOMAIN file = ShimPaths
  BY Zenon DEF ShimInv, ShimTypes
<1>2. y.at \notin Locking /\ y.at # "swap" /\ y.at # "inspect"
  BY Zenon DEF Locking
<1>3. HandOK(y)
  BY <1>2, Zenon DEF HandOK, Executing
<1>4. FileOK(y)'
  BY <1>2, Zenon DEF FileOK
<1>5. ShimTypes'
  BY <1>1, <1>3, TypesMove, Zenon
<1>6. OneHolder'
  BY <1>1, <1>2, LocksMove, Zenon
<1>7. Files'
  BY <1>1, <1>4, FilesMove, Zenon
<1> QED
  BY <1>5, <1>6, <1>7, Zenon

(* A handler answers from its row, or is refused, or starts to look.       *)
LEMMA Looks ==
    ASSUME ShimInv, NEW p \in ShimProcs, NEW y, Goto(p, y), shim[p].at \notin Executing,
           y.at \in {"idle", "begin", "mark"}, y.at # "idle" => y.req \in calls,
           y.at = "mark" => /\ ledger[y.req.key].digest = y.req.id
                            /\ unsettled[y.req.key] # "" \/ ledger[y.req.key].status \in SettledStates,
           UNCHANGED <<calls, ledger, unsettled, link, file, ran, did, stuck>>,
           \A s \in said' : s \in said \/ /\ \E r \in calls : r.key = s.key /\ r.id = s.id
                                          /\ ledger[s.key].status \in SettledStates /\ ledger[s.key].digest = s.id
                                          /\ ledger[s.key].response = s.response
    PROVE  ShimInv'
<1>1. ShimTypes /\ Executions
  BY Zenon DEF ShimInv
<1>2. ShimTypes' /\ OneHolder' /\ Files'
  <2>1. /\ DOMAIN ledger' = ShimKeys /\ DOMAIN unsettled' = ShimKeys /\ DOMAIN ran' = ShimKeys
        /\ \A k \in ShimKeys : DOMAIN ledger'[k] = {"status", "digest", "response"}
    BY <1>1, Zenon DEF ShimTypes
  <2> QED
    BY <2>1, Unlocked, Zenon
<1>3. shim'[p] = y /\ \A q \in ShimProcs : q # p => shim'[q] = shim[q]
  BY <1>1, ShimMoves, Zenon
<1>4. y.at \notin Executing
  BY Zenon DEF Executing
<1>5. \A q \in ShimProcs : /\ shim'[q].at \in Executing <=> shim[q].at \in Executing
                           /\ shim[q].at \in Executing => Tool(q)' = Tool(q)
  BY <1>3, <1>4, Zenon DEF Tool
<1>6. OneRun'
  BY <1>1, <1>5, Zenon DEF Executions, OneRun
<1>7. ASSUME NEW k \in ShimKeys PROVE RowOK(k)'
  <2>1. RowOK(k)
    BY <1>1, Zenon DEF Executions
  <2>2. ledger[k].status = "pending" =>
          \/ ran[k] = 0 \/ unsettled[k] # ""
          \/ \E q \in ShimProcs : shim'[q].at \in Executing /\ Tool(q)'.key = k
    BY <1>5, <2>1, Zenon DEF RowOK
  <2> QED
    BY <2>1, <2>2, Zenon DEF RowOK, Truthful
<1>8. ASSUME NEW q \in ShimProcs PROVE Knows(shim[q])'
  <2>1. CASE q = p
    <3>1. Knows(y)'
      BY <1>4, Zenon DEF Knows, Executing
    <3> QED
      BY <1>3, <2>1, <3>1, Zenon DEF Knows
  <2>2. CASE q # p
    <3>1. Knows(shim[q]) /\ shim'[q] = shim[q]
      BY <1>1, <1>3, <2>2, Zenon DEF Executions
    <3> QED
      BY <3>1, Zenon DEF Knows, Truthful
  <2> QED
    BY <2>1, <2>2, Zenon
<1>9. RepliesAgree' /\ \A s \in said' : \E r \in calls' : r.key = s.key /\ r.id = s.id
  BY <1>1, Zenon DEF Executions, RepliesAgree, SettledStates
<1>10. ShimKeys' = ShimKeys
  BY Zenon DEF ShimKeys
<1> QED
  BY <1>2, <1>6, <1>7, <1>8, <1>9, <1>10, Zenon DEF ShimInv, Executions

(* A function that changes at one argument at most.                        *)
KeyMoves(f, g, k, e) == DOMAIN g = DOMAIN f /\ g[k] = e /\ \A j \in DOMAIN f : j # k => g[j] = f[j]

(* What a row may be, with the record of an unsettled execution and the    *)
(* number of runs.                                                         *)
RowIs(k, row, u, m) ==
    /\ DOMAIN row = {"status", "digest", "response"} /\ row.status \in {"none", "pending"} \cup SettledStates
    /\ m \in {0, 1} /\ (m = 0 => k \notin did)
    /\ row.status = "none" => m = 0 /\ u = ""
    /\ u # "" => row.digest = u
    /\ row.status \in SettledStates => \A r \in calls : r.key = k /\ r.id = row.digest => Truthful(r, row.response)

(* No other handler runs the tool of a row, and those that settle it find  *)
(* it as they know it.                                                     *)
Alone(p, k, row, u) ==
    /\ \A q \in ShimProcs : q # p /\ shim[q].at \in Executing => Tool(q).key # k
    /\ \A q \in ShimProcs : q # p /\ shim[q].at = "mark" /\ Tool(q).key = k =>
         row.digest = Tool(q).id /\ (u # "" \/ row.status \in SettledStates)

(* Where the handler goes that has written a row.                          *)
Lands(y, k, row, u, m) ==
    /\ row.status = "pending" => m = 0 \/ u # "" \/ y.at = "run"
    /\ y.at \in {"idle", "mark", "run"}
    /\ y.at # "idle" => y.req \in calls /\ y.req.key = k /\ row.digest = y.req.id
    /\ y.at = "mark" => u # "" \/ row.status \in SettledStates
    /\ y.at = "run" => row.status = "pending" /\ m = 1 /\ u = "" /\ k \notin did

(* The answers from a row are the row's.                                   *)
Tells(k, row) ==
    \A s \in said' :
        \/ s \in said /\ s.key # k
        \/ /\ s.key = k /\ row.status \in SettledStates /\ row.digest = s.id /\ row.response = s.response
           /\ \E r \in calls : r.key = s.key /\ r.id = s.id

(* A handler writes the row of its key, which no tool is running for.      *)
LEMMA Writes ==
    ASSUME ShimInv, NEW p \in ShimProcs, NEW y, Goto(p, y), NEW k \in ShimKeys, NEW row, NEW u, NEW m,
           KeyMoves(ledger, ledger', k, row), KeyMoves(unsettled, unsettled', k, u), KeyMoves(ran, ran', k, m),
           UNCHANGED <<calls, link, file, did, stuck>>, RowIs(k, row, u, m),
           shim[p].at \in Executing => Tool(p).key = k,
           Alone(p, k, row, u), Lands(y, k, row, u, m), Tells(k, row)
    PROVE  ShimInv'
<1>1. /\ ShimTypes /\ Executions
      /\ y.at \in {"idle", "mark", "run"} /\ (y.at # "idle" => y.req \in calls /\ y.req.key = k)
  BY Zenon DEF ShimInv, Lands
<1>2. /\ DOMAIN ledger' = ShimKeys /\ DOMAIN unsettled' = ShimKeys /\ DOMAIN ran' = ShimKeys
      /\ ledger'[k] = row /\ unsettled'[k] = u /\ ran'[k] = m
      /\ \A j \in ShimKeys : j # k => ledger'[j] = ledger[j] /\ unsettled'[j] = unsettled[j] /\ ran'[j] = ran[j]
  BY <1>1, Zenon DEF ShimTypes, KeyMoves
<1>3. ShimTypes' /\ OneHolder' /\ Files'
  <2>1. \A j \in ShimKeys : DOMAIN ledger'[j] = {"status", "digest", "response"}
    BY <1>1, <1>2, Zenon DEF ShimTypes, RowIs
  <2> QED
    BY <1>1, <1>2, <2>1, Unlocked, Zenon
<1>4. shim'[p] = y /\ \A q \in ShimProcs : q # p => shim'[q] = shim[q]
  BY <1>1, ShimMoves, Zenon
<1>5. y.at \in Executing <=> y.at = "run"
  BY <1>1, Zenon DEF Executing
<1>6. OneRun'
  <2>1. \A q \in ShimProcs : q # p => Tool(q)' = Tool(q) /\ shim'[q].at = shim[q].at
    BY <1>4, Zenon DEF Tool
  <2>2. shim'[p].at \in Executing => Tool(p)'.key = k
    BY <1>1, <1>4, <1>5, Zenon DEF Tool
  <2>3. ASSUME NEW q \in ShimProcs, NEW s \in ShimProcs, q # s, shim'[q].at \in Executing,
               shim'[s].at \in Executing, Tool(q)'.key = Tool(s)'.key
        PROVE  FALSE
    <3>1. CASE q # p /\ s # p
      BY <1>1, <2>1, <2>3, <3>1, Zenon DEF Executions, OneRun
    <3>2. CASE q = p
      BY <2>1, <2>2, <2>3, <3>2, Zenon DEF Alone
    <3>3. CASE s = p
      BY <2>1, <2>2, <2>3, <3>3, Zenon DEF Alone
    <3> QED
      BY <3>1, <3>2, <3>3, Zenon
  <2> QED
    BY <2>3, Zenon DEF OneRun
<1>7. \A q \in ShimProcs : shim[q].at # "idle" => Tool(q).key \in ShimKeys
  BY <1>1, Zenon DEF ShimTypes, HandOK, Tool, ShimKeys
<1>8. ASSUME NEW j \in ShimKeys PROVE RowOK(j)'
  <2>1. CASE j = k
    <3>1. row.status = "pending" => m = 0 \/ u # "" \/ \E q \in ShimProcs : shim'[q].at \in Executing /\ Tool(q)'.key = k
      BY <1>4, <1>5, Zenon DEF Tool, Lands
    <3> QED
      BY <1>2, <2>1, <3>1, Zenon DEF RowOK, RowIs, Truthful
  <2>2. CASE j # k
    <3>1. RowOK(j)
      BY <1>1, Zenon DEF Executions
    <3>2. ledger[j].status = "pending" =>
            \/ ran[j] = 0 \/ unsettled[j] # ""
            \/ \E q \in ShimProcs : shim'[q].at \in Executing /\ Tool(q)'.key = j
      BY <1>4, <2>2, <3>1, Zenon DEF RowOK, Tool
    <3> QED
      BY <1>2, <2>2, <3>1, <3>2, Zenon DEF RowOK, Truthful
  <2> QED
    BY <2>1, <2>2, Zenon
<1>9. ASSUME NEW q \in ShimProcs PROVE Knows(shim[q])'
  <2>1. CASE q = p
    <3>1. Knows(y)'
      BY <1>1, <1>2, <1>5, Zenon DEF Knows, Lands
    <3> QED
      BY <1>4, <2>1, <3>1, Zenon DEF Knows
  <2>2. CASE q # p
    <3>1. PICK t : t = shim[q] /\ t = shim'[q]
      BY <1>4, <2>2, Zenon
    <3>2. Knows(t)
      BY <1>1, <3>1, Zenon DEF Executions
    <3>3. Knows(t)'
      <4>1. CASE t.at \in Executing
        <5>1. t.req.key # k /\ t.req.key \in ShimKeys /\ t.at # "mark"
          BY <1>7, <2>2, <3>1, <4>1, Zenon DEF Tool, Executing, Alone
        <5> QED
          BY <1>2, <3>2, <4>1, <5>1, Zenon DEF Knows, Truthful
      <4>2. CASE t.at = "mark"
        <5>1. t.at \notin Executing /\ t.at # "inspect" /\ t.at # "complete" /\ t.at # "idle"
          BY <4>2, Zenon DEF Executing
        <5>2. t.req.key \in ShimKeys
          BY <1>7, <3>1, <5>1, Zenon DEF Tool
        <5>3. CASE t.req.key = k
          <6>1. row.digest = t.req.id /\ (u # "" \/ row.status \in SettledStates)
            BY <2>2, <3>1, <4>2, <5>3, Zenon DEF Tool, Alone
          <6> QED
            BY <1>2, <5>1, <5>3, <6>1, Zenon DEF Knows
        <5>4. CASE t.req.key # k
          BY <1>2, <3>2, <4>2, <5>1, <5>2, <5>4, Zenon DEF Knows
        <5> QED
          BY <5>3, <5>4, Zenon
      <4>3. CASE t.at \notin Executing /\ t.at # "mark"
        BY <4>3, Zenon DEF Knows, Executing
      <4> QED
        BY <4>1, <4>2, <4>3, Zenon
    <3> QED
      BY <3>1, <3>3, Zenon DEF Knows
  <2> QED
    BY <2>1, <2>2, Zenon
<1>10. RepliesAgree' /\ \A s \in said' : \E r \in calls' : r.key = s.key /\ r.id = s.id
  <2>1. ASSUME NEW s \in said'
        PROVE  /\ ledger'[s.key].status \in SettledStates /\ ledger'[s.key].digest = s.id /\ ledger'[s.key].response = s.response
               /\ \E r \in calls : r.key = s.key /\ r.id = s.id
    <3>1. CASE s \in said /\ s.key # k
      <4>1. /\ \E r \in calls : r.key = s.key /\ r.id = s.id
            /\ ledger[s.key].status \in SettledStates /\ ledger[s.key].digest = s.id /\ ledger[s.key].response = s.response
        BY <1>1, <3>1, Zenon DEF Executions, RepliesAgree, SettledStates
      <4>2. s.key \in ShimKeys
        BY <4>1, Zenon DEF ShimKeys
      <4> QED
        BY <1>2, <3>1, <4>1, <4>2, Zenon
    <3>2. CASE ~(s \in said /\ s.key # k)
      BY <1>2, <3>2, Zenon DEF Tells
    <3> QED
      BY <3>1, <3>2, Zenon
  <2> QED
    BY <2>1, Zenon DEF RepliesAgree, SettledStates
<1>11. ShimKeys' = ShimKeys
  BY Zenon DEF ShimKeys
<1> QED
  BY <1>3, <1>6, <1>8, <1>9, <1>10, <1>11, Zenon DEF ShimInv, Executions

(* What the invariant says of the row of a handler's request.              *)
LEMMA ToolRow ==
    ASSUME ShimInv, NEW p \in ShimProcs, shim[p].at # "idle", NEW k, k = Tool(p).key
    PROVE  /\ Tool(p) \in calls /\ k \in ShimKeys /\ Tool(p).id # ""
           /\ RowIs(k, ledger[k], unsettled[k], ran[k])
           /\ DOMAIN ledger = ShimKeys /\ DOMAIN unsettled = ShimKeys /\ DOMAIN ran = ShimKeys
<1>1. ShimTypes /\ Executions
  BY Zenon DEF ShimInv
<1>2. Tool(p) \in calls /\ k \in ShimKeys /\ Tool(p).id # ""
  BY <1>1, Zenon DEF ShimTypes, HandOK, Tool, ShimKeys
<1>3. RowOK(k) /\ DOMAIN ledger[k] = {"status", "digest", "response"}
  BY <1>1, <1>2, Zenon DEF Executions, ShimTypes
<1>4. RowIs(k, ledger[k], unsettled[k], ran[k])
  BY <1>3, Zenon DEF RowOK, RowIs
<1> QED
  BY <1>1, <1>2, <1>4, Zenon DEF ShimTypes

(* What the invariant says of the handlers that work on a row.             *)
LEMMA RowUsers ==
    ASSUME ShimInv, NEW q \in ShimProcs, NEW k, k = Tool(q).key
    PROVE  /\ shim[q].at \in Executing =>
                ledger[k].status = "pending" /\ unsettled[k] = "" /\ ledger[k].digest = Tool(q).id /\ ran[k] = 1
           /\ shim[q].at = "mark" =>
                ledger[k].digest = Tool(q).id /\ (unsettled[k] # "" \/ ledger[k].status \in SettledStates)
<1>1. Knows(shim[q])
  BY Zenon DEF ShimInv, Executions
<1> QED
  BY <1>1, Zenon DEF Knows, Tool

(* What the invariant says of the answers from a row.                      *)
LEMMA RowAnswers ==
    ASSUME ShimInv, NEW s \in said, NEW k, k = s.key
    PROVE  /\ ledger[k].status \in SettledStates /\ ledger[k].digest = s.id /\ ledger[k].response = s.response
           /\ \E r \in calls : r.key = s.key /\ r.id = s.id
BY Zenon DEF ShimInv, Executions, RepliesAgree, SettledStates

(* Executions and locks do not depend on names, files and what is left to  *)
(* go wrong.                                                               *)
LEMMA Untouched ==
    ASSUME ShimInv, UNCHANGED <<calls, ledger, unsettled, shim, ran, did, stuck, said>>
    PROVE  Executions' /\ OneHolder'
<1>1. ShimKeys' = ShimKeys /\ \A p \in ShimProcs : Tool(p)' = Tool(p)
  BY Zenon DEF ShimKeys, Tool
<1>2. \A r, response : Truthful(r, response)' <=> Truthful(r, response)
  BY Zenon DEF Truthful
<1>3. ASSUME NEW k \in ShimKeys PROVE RowOK(k)'
  <2>1. RowOK(k)
    BY Zenon DEF ShimInv, Executions
  <2>2. PICK response : response = ledger[k].response
    BY Zenon
  <2>3. \A r : Truthful(r, ledger[k].response) => Truthful(r, ledger[k].response)'
    BY <1>2, <2>2, Zenon DEF Truthful
  <2> QED
    BY <1>1, <2>1, <2>3, Zenon DEF RowOK
<1>4. \A p \in ShimProcs : Knows(shim[p])'
  BY Zenon DEF ShimInv, Executions, Knows, Truthful
<1>5. OneRun' /\ RepliesAgree' /\ \A s \in said' : \E r \in calls' : r.key = s.key /\ r.id = s.id
  BY <1>1, Zenon DEF ShimInv, Executions, OneRun, RepliesAgree
<1>6. OneHolder'
  BY Zenon DEF ShimInv, OneHolder, Holds
<1> QED
  BY <1>1, <1>3, <1>4, <1>5, <1>6, Zenon DEF Executions

(* The invariant does not mention what is left to go wrong.                *)
LEMMA SameInv ==
    ASSUME ShimInv, UNCHANGED <<calls, ledger, unsettled, shim, link, file, ran, did, stuck, said>>
    PROVE  ShimInv'
<1>1. ShimKeys' = ShimKeys
  BY Zenon DEF ShimKeys
<1>2. \A p \in ShimProcs : HandOK(shim[p])'
  BY Zenon DEF ShimInv, ShimTypes, HandOK
<1>3. ShimTypes'
  BY <1>1, <1>2, Zenon DEF ShimInv, ShimTypes
<1>4. Files'
  BY Zenon DEF ShimInv, Files, FileOK
<1> QED
  BY <1>3, <1>4, Untouched, Zenon DEF ShimInv

(* A handler is refused.                                                   *)
LEMMA Refused ==
    ASSUME ShimInv, NEW p \in ShimProcs, Refuse(p), shim[p].at \notin Executing,
           UNCHANGED <<calls, ledger, unsettled, link, file, ran, did, stuck>>
    PROVE  ShimInv'
<1>1. PICK y : y = Resting
  BY Zenon
<1>2. Goto(p, y) /\ said' = said /\ y.at = "idle"
  BY <1>1, Zenon DEF Refuse, Resting
<1> QED
  BY <1>2, Looks, Zenon

(* executeTool begins.                                                     *)
LEMMA ReceiveKept ==
    ASSUME ShimInv, NEW p \in ShimProcs, NEW r \in calls, Receive(p, r)
    PROVE  ShimInv'
<1>1. shim[p].at = "idle" /\ shim[p].at \notin Executing
  BY Zenon DEF Receive, Executing
<1>2. UNCHANGED <<calls, ledger, unsettled, link, file, ran, did, stuck, said>>
  BY Zenon DEF Receive
<1>3. ASSUME NEW at \in {"begin", "mark"}, Goto(p, [at |-> at, req |-> r]),
             at = "mark" => unsettled[r.key] = Digest(r) /\ unsettled[r.key] # ""
      PROVE  ShimInv'
  <2>1. PICK y : y = [at |-> at, req |-> r]
    BY Zenon
  <2>2. y.at = at /\ y.req = r /\ Goto(p, y)
    BY <1>3, <2>1, Zenon
  <2>3. r.key \in ShimKeys /\ RowOK(r.key)
    BY Zenon DEF ShimKeys, ShimInv, Executions
  <2>4. y.at = "mark" => ledger[y.req.key].digest = y.req.id /\ unsettled[y.req.key] # ""
    BY <1>3, <2>2, <2>3, Zenon DEF RowOK, Digest
  <2> QED
    BY <1>1, <1>2, <1>3, <2>2, <2>4, Looks, Zenon
<1>4. CASE shim' = shim
  BY <1>2, <1>4, SameInv, Zenon
<1>5. "begin" # "mark"
  OBVIOUS
<1> QED
  BY <1>3, <1>4, <1>5, Zenon DEF Receive, RetryUnsettled

(* Ledger.Begin.                                                           *)
LEMMA BeginKept ==
    ASSUME ShimInv, NEW p \in ShimProcs, Begin(p)
    PROVE  ShimInv'
<1>1. shim[p].at = "begin" /\ shim[p].at \notin Executing /\ shim[p].at # "idle"
  BY Zenon DEF Begin, Executing
<1>2. UNCHANGED <<calls, unsettled, link, file, did, stuck>>
  BY Zenon DEF Begin
<1>3. PICK k : k = Tool(p).key
  BY Zenon
<1>4. /\ Tool(p) \in calls /\ k \in ShimKeys /\ RowIs(k, ledger[k], unsettled[k], ran[k])
      /\ DOMAIN ledger = ShimKeys /\ DOMAIN unsettled = ShimKeys /\ DOMAIN ran = ShimKeys
  BY <1>1, <1>3, ToolRow, Zenon
<1>5. PICK row : row = [NoRow EXCEPT !.status = "pending", !.digest = Digest(Tool(p))]
  BY Zenon
<1>6. row.status = "pending" /\ row.digest = Tool(p).id /\ DOMAIN row = {"status", "digest", "response"}
  BY <1>5 DEF NoRow, Digest
<1>7. CASE Refuse(p) /\ UNCHANGED <<ledger, ran>>
  BY <1>1, <1>2, <1>7, Refused, Zenon
<1>8. ASSUME ledger[k].status \in SettledStates, ledger[k].digest = Digest(Tool(p)), Say(p, ledger[k].response),
             UNCHANGED <<ledger, ran>>
      PROVE  ShimInv'
  <2>1. PICK y : y = Resting
    BY Zenon
  <2>2. Goto(p, y) /\ y.at = "idle"
    BY <1>8, <2>1, Zenon DEF Say, Resting
  <2>3. PICK new : new = [key |-> Tool(p).key, id |-> Digest(Tool(p)), response |-> ledger[k].response]
    BY Zenon
  <2>4. /\ said' = said \cup {new} /\ new.key = k /\ new.id = Tool(p).id /\ new.id = ledger[k].digest
        /\ new.response = ledger[k].response
    BY <1>3, <1>8, <2>3, Zenon DEF Say, Digest
  <2>5. \A s \in said' : s \in said \/ s = new
    BY <2>4, Zenon
  <2> QED
    BY <1>1, <1>2, <1>3, <1>4, <1>8, <2>2, <2>4, <2>5, Looks, Zenon
<1>9. ASSUME ledger[k].status = "none"
      PROVE  /\ \A q \in ShimProcs : shim[q].at \in Executing => Tool(q).key # k
             /\ \A q \in ShimProcs : shim[q].at = "mark" => Tool(q).key # k
             /\ \A s \in said : s.key # k
             /\ ran[k] = 0 /\ unsettled[k] = "" /\ k \notin did
  <2>1. "none" # "pending" /\ "none" \notin SettledStates
    BY Zenon DEF SettledStates
  <2>2. ran[k] = 0 /\ unsettled[k] = "" /\ k \notin did
    BY <1>4, <1>9, Zenon DEF RowIs
  <2>3. ASSUME NEW s \in said, s.key = k PROVE FALSE
    BY <1>9, <2>1, <2>3, RowAnswers, Zenon
  <2>4. ASSUME NEW q \in ShimProcs, shim[q].at \in Executing, Tool(q).key = k PROVE FALSE
    BY <1>9, <2>1, <2>4, RowUsers, Zenon
  <2>5. ASSUME NEW q \in ShimProcs, shim[q].at = "mark", Tool(q).key = k PROVE FALSE
    BY <1>9, <2>1, <2>2, <2>5, RowUsers, Zenon
  <2> QED
    BY <2>2, <2>3, <2>4, <2>5, Zenon
<1>10. ASSUME ledger[k].status = "none", NEW m \in {0, 1}, NEW y, Goto(p, y), KeyMoves(ran, ran', k, m),
              ledger' = [ledger EXCEPT ![k] = row], said' = said,
              \/ m = 0 /\ y.at = "idle"
              \/ m = 1 /\ y.at = "run" /\ y.req = Tool(p)
       PROVE  ShimInv'
  <2>1. /\ \A q \in ShimProcs : shim[q].at \in Executing => Tool(q).key # k
        /\ \A q \in ShimProcs : shim[q].at = "mark" => Tool(q).key # k
        /\ \A s \in said' : s \in said /\ s.key # k
        /\ unsettled[k] = "" /\ k \notin did
    BY <1>9, <1>10, Zenon
  <2>2. RowIs(k, row, "", m)
    BY <1>6, <1>10, <2>1, Zenon DEF RowIs, SettledStates
  <2>3. KeyMoves(ledger, ledger', k, row) /\ KeyMoves(unsettled, unsettled', k, "")
    BY <1>2, <1>4, <1>10, <2>1, Zenon DEF KeyMoves
  <2>4. Lands(y, k, row, "", m)
    BY <1>3, <1>4, <1>6, <1>10, <2>1, Zenon DEF Lands
  <2>5. Alone(p, k, row, "") /\ Tells(k, row)
    BY <2>1, Zenon DEF Alone, Tells
  <2> QED
    BY <1>1, <1>2, <1>4, <1>10, <2>2, <2>3, <2>4, <2>5, Writes, Zenon
<1>11. ASSUME ledger[k].status = "none", ledger' = [ledger EXCEPT ![k] = row], ran' = [ran EXCEPT ![k] = @ + 1],
              Goto(p, [at |-> "run", req |-> Tool(p)]), said' = said
       PROVE  ShimInv'
  <2>1. PICK y : y = [at |-> "run", req |-> Tool(p)]
    BY Zenon
  <2>2. y.at = "run" /\ y.req = Tool(p) /\ Goto(p, y)
    BY <1>11, <2>1, Zenon
  <2>3. ran[k] = 0
    BY <1>9, <1>11, Zenon
  <2>4. ran' = [ran EXCEPT ![k] = 1]
    BY <1>11, <2>3
  <2>5. KeyMoves(ran, ran', k, 1)
    BY <1>4, <2>4, Zenon DEF KeyMoves
  <2> QED
    BY <1>10, <1>11, <2>2, <2>5, Zenon
<1>12. ASSUME ledger[k].status = "none", ledger' = [ledger EXCEPT ![k] = row], ran' = ran, Refuse(p)
       PROVE  ShimInv'
  <2>1. PICK y : y = Resting
    BY Zenon
  <2>2. Goto(p, y) /\ said' = said /\ y.at = "idle"
    BY <1>12, <2>1, Zenon DEF Refuse, Resting
  <2>3. KeyMoves(ran, ran', k, 0)
    BY <1>9, <1>12, Zenon DEF KeyMoves
  <2> QED
    BY <1>10, <1>12, <2>2, <2>3, Zenon
<1> QED
  BY <1>3, <1>5, <1>7, <1>8, <1>11, <1>12, Zenon DEF Begin, SettledStates

(* A row that is settled.                                                  *)
LEMMA RowSettled ==
    ASSUME NEW k \in DOMAIN ledger, DOMAIN ledger[k] = {"status", "digest", "response"}, NEW status, NEW response,
           NEW new, new = [ledger EXCEPT ![k].status = status, ![k].response = response]
    PROVE  /\ KeyMoves(ledger, new, k, new[k]) /\ DOMAIN new[k] = {"status", "digest", "response"}
           /\ new[k].status = status /\ new[k].response = response /\ new[k].digest = ledger[k].digest
BY Zenon DEF KeyMoves

(* An answer goes out with its row.                                        *)
LEMMA SaysRow ==
    ASSUME ShimInv, NEW p \in ShimProcs, shim[p].at # "idle", NEW k, k = Tool(p).key, NEW row, row.status \in SettledStates,
           row.digest = Tool(p).id, Say(p, row.response),
           \A s \in said : s.key = k => s.id = row.digest /\ s.response = row.response
    PROVE  Tells(k, row)
<1>1. PICK new : new = [key |-> Tool(p).key, id |-> Digest(Tool(p)), response |-> row.response]
  BY Zenon
<1>2. said' = said \cup {new} /\ new.key = k /\ new.id = Tool(p).id /\ new.response = row.response
  BY <1>1, Zenon DEF Say, Digest
<1>3. Tool(p) \in calls
  BY ToolRow, Zenon
<1>4. ASSUME NEW s \in said, s.key = k PROVE \E r \in calls : r.key = s.key /\ r.id = s.id
  BY <1>4, RowAnswers, Zenon
<1>5. \A s \in said' : s \in said \/ s = new
  BY <1>2, Zenon
<1> QED
  BY <1>2, <1>3, <1>4, <1>5, Zenon DEF Tells

(* Ledger.Complete.                                                        *)
LEMMA CompleteKept ==
    ASSUME ShimInv, NEW p \in ShimProcs, Complete(p)
    PROVE  ShimInv'
<1>1. shim[p].at = "complete" /\ shim[p].at \in Executing /\ shim[p].at # "idle"
  BY Zenon DEF Complete, Executing
<1>2. UNCHANGED <<calls, link, file, ran, did, stuck>>
  BY Zenon DEF Complete
<1>3. PICK k : k = Tool(p).key
  BY Zenon
<1>4. /\ Tool(p) \in calls /\ k \in ShimKeys /\ Tool(p).id # "" /\ RowIs(k, ledger[k], unsettled[k], ran[k])
      /\ DOMAIN ledger = ShimKeys /\ DOMAIN unsettled = ShimKeys /\ DOMAIN ran = ShimKeys
  BY <1>1, <1>3, ToolRow, Zenon
<1>5. ledger[k].status = "pending" /\ unsettled[k] = "" /\ ledger[k].digest = Tool(p).id /\ ran[k] = 1
  BY <1>1, <1>3, RowUsers, Zenon
<1>6. Truthful(Tool(p), shim[p].answer)
  BY <1>1, Zenon DEF ShimInv, Executions, Knows, Tool
<1>7. PICK done : done = [ledger EXCEPT ![k].status = "completed", ![k].response = shim[p].answer]
  BY Zenon
<1>8. /\ KeyMoves(ledger, done, k, done[k]) /\ DOMAIN done[k] = {"status", "digest", "response"}
      /\ done[k].status = "completed" /\ done[k].response = shim[p].answer /\ done[k].digest = ledger[k].digest
  <2>1. PICK answer : answer = shim[p].answer
    BY Zenon
  <2>2. k \in DOMAIN ledger /\ DOMAIN ledger[k] = {"status", "digest", "response"}
    BY <1>4, Zenon DEF RowIs
  <2>3. done = [ledger EXCEPT ![k].status = "completed", ![k].response = answer]
    BY <1>7, <2>1, Zenon
  <2> QED
    BY <2>1, <2>2, <2>3, Zenon DEF KeyMoves
<1>9. "completed" \in SettledStates /\ "pending" \notin SettledStates /\ "completed" # "none" /\ "completed" # "pending"
  BY Zenon DEF SettledStates
<1>10. RowIs(k, done[k], "", 1)
  <2>1. ASSUME NEW r \in calls, r.key = k, r.id = done[k].digest PROVE Truthful(r, done[k].response)
    <3>1. r.op = Tool(p).op
      <4>1. r.id = Tool(p).id /\ r.key = Tool(p).key
        BY <1>3, <1>5, <1>8, <2>1, Zenon
      <4> QED
        BY <1>4, <4>1, Zenon DEF ShimInv, ShimTypes
    <3> QED
      BY <1>3, <1>6, <1>8, <2>1, <3>1, Zenon DEF Truthful
  <2>2. 1 # 0 /\ 1 \in {0, 1}
    OBVIOUS
  <2> QED
    BY <1>8, <1>9, <2>1, <2>2, Zenon DEF RowIs
<1>11. /\ \A q \in ShimProcs : q # p /\ shim[q].at \in Executing => Tool(q).key # k
       /\ \A q \in ShimProcs : shim[q].at = "mark" => Tool(q).key # k
       /\ \A s \in said : s.key # k
  <2>1. ASSUME NEW q \in ShimProcs, q # p, shim[q].at \in Executing, Tool(q).key = k PROVE FALSE
    BY <1>1, <1>3, <2>1, Zenon DEF ShimInv, Executions, OneRun
  <2>2. ASSUME NEW q \in ShimProcs, shim[q].at = "mark", Tool(q).key = k PROVE FALSE
    BY <1>5, <1>9, <2>2, RowUsers, Zenon
  <2>3. ASSUME NEW s \in said, s.key = k PROVE FALSE
    BY <1>5, <1>9, <2>3, RowAnswers, Zenon
  <2> QED
    BY <2>1, <2>2, <2>3, Zenon
<1>12. \A row, u : Alone(p, k, row, u)
  BY <1>11, Zenon DEF Alone
<1>13. KeyMoves(ran, ran', k, 1)
  BY <1>2, <1>4, <1>5, Zenon DEF KeyMoves
<1>14. ASSUME ledger' = done, Say(p, shim[p].answer), unsettled' = unsettled PROVE ShimInv'
  <2>1. PICK y : y = Resting
    BY Zenon
  <2>2. Goto(p, y) /\ y.at = "idle"
    BY <1>14, <2>1, Zenon DEF Say, Resting
  <2>3. PICK row : row = done[k]
    BY Zenon
  <2>4. Tells(k, row)
    <3>1. row.status \in SettledStates /\ row.digest = Tool(p).id /\ Say(p, row.response)
      BY <1>5, <1>8, <1>9, <1>14, <2>3, Zenon
    <3> QED
      BY <1>1, <1>3, <1>11, <3>1, SaysRow, Zenon
  <2>5. Lands(y, k, row, "", 1)
    BY <1>8, <1>9, <2>2, <2>3, Zenon DEF Lands
  <2>6. KeyMoves(ledger, ledger', k, row) /\ KeyMoves(unsettled, unsettled', k, "")
    BY <1>4, <1>5, <1>8, <1>14, <2>3, Zenon DEF KeyMoves
  <2>7. RowIs(k, row, "", 1) /\ Alone(p, k, row, "")
    BY <1>10, <1>12, <2>3, Zenon
  <2> QED
    BY <1>1, <1>2, <1>3, <1>4, <1>13, <2>2, <2>4, <2>5, <2>6, <2>7, Writes, Zenon
<1>15. ASSUME ledger' \in {ledger, done}, RememberUnsettled(p), Goto(p, [at |-> "mark", req |-> Tool(p)]), said' = said
       PROVE  ShimInv'
  <2>1. PICK y : y = [at |-> "mark", req |-> Tool(p)]
    BY Zenon
  <2>2. Goto(p, y) /\ y.at = "mark" /\ y.req = Tool(p)
    BY <1>15, <2>1, Zenon
  <2>3. PICK row : row = ledger'[k]
    BY Zenon
  <2>4. /\ KeyMoves(ledger, ledger', k, row) /\ row.digest = Tool(p).id /\ row.status \in {"pending", "completed"}
        /\ RowIs(k, row, "", 1)
    <3>1. CASE ledger' = ledger
      BY <1>4, <1>5, <2>3, <3>1, Zenon DEF KeyMoves
    <3>2. CASE ledger' = done
      BY <1>5, <1>8, <1>10, <2>3, <3>2, Zenon
    <3> QED
      BY <1>15, <3>1, <3>2, Zenon
  <2>5. PICK u : u = Tool(p).id
    BY Zenon
  <2>6. KeyMoves(unsettled, unsettled', k, u) /\ u # ""
    BY <1>3, <1>4, <1>15, <2>5, Zenon DEF RememberUnsettled, Digest, KeyMoves
  <2>7. RowIs(k, row, u, 1)
    <3>1. row.status # "none"
      BY <2>4, Zenon
    <3> QED
      BY <2>4, <2>5, <3>1, Zenon DEF RowIs
  <2>8. Lands(y, k, row, u, 1)
    BY <1>3, <1>4, <2>2, <2>4, <2>6, Zenon DEF Lands
  <2>9. Tells(k, row) /\ Alone(p, k, row, u)
    BY <1>11, <1>12, <1>15, Zenon DEF Tells
  <2> QED
    BY <1>1, <1>2, <1>3, <1>4, <1>13, <2>2, <2>4, <2>6, <2>7, <2>8, <2>9, Writes, Zenon
<1> QED
  BY <1>3, <1>7, <1>14, <1>15, Zenon DEF Complete

(* Ledger.MarkIndeterminate, by resolveUnsettledExecution.                 *)
LEMMA MarkKept ==
    ASSUME ShimInv, NEW p \in ShimProcs, Mark(p)
    PROVE  ShimInv'
<1>1. shim[p].at = "mark" /\ shim[p].at \notin Executing /\ shim[p].at # "idle"
  BY Zenon DEF Mark, Executing
<1>2. UNCHANGED <<calls, link, file, ran, did, stuck>>
  BY Zenon DEF Mark
<1>3. PICK k : k = Tool(p).key
  BY Zenon
<1>4. /\ Tool(p) \in calls /\ k \in ShimKeys /\ RowIs(k, ledger[k], unsettled[k], ran[k])
      /\ DOMAIN ledger = ShimKeys /\ DOMAIN unsettled = ShimKeys /\ DOMAIN ran = ShimKeys
  BY <1>1, <1>3, ToolRow, Zenon
<1>5. ledger[k].digest = Tool(p).id /\ (unsettled[k] # "" \/ ledger[k].status \in SettledStates)
  BY <1>1, <1>3, RowUsers, Zenon
<1>6. "indeterminate" \in SettledStates /\ "pending" \notin SettledStates /\ "none" \notin SettledStates
  BY Zenon DEF SettledStates
<1>7. ledger[k].status = "pending" \/ ledger[k].status \in SettledStates
  BY <1>4, <1>5, Zenon DEF RowIs
<1>8. PICK marked : marked = MarkIndeterminate(k)
  BY Zenon
<1>9. /\ KeyMoves(ledger, marked, k, marked[k]) /\ marked[k].status \in SettledStates /\ marked[k].digest = ledger[k].digest
      /\ ledger[k].status \in SettledStates => marked[k] = ledger[k]
      /\ RowIs(k, marked[k], "", ran[k]) /\ RowIs(k, marked[k], unsettled[k], ran[k])
  <2>1. CASE ledger[k].status = "pending"
    <3>1. marked = [ledger EXCEPT ![k].status = "indeterminate", ![k].response = Indeterminate]
      BY <1>8, <2>1, Zenon DEF MarkIndeterminate
    <3>2. /\ KeyMoves(ledger, marked, k, marked[k]) /\ DOMAIN marked[k] = {"status", "digest", "response"}
          /\ marked[k].status = "indeterminate" /\ marked[k].response = Indeterminate
          /\ marked[k].digest = ledger[k].digest
      BY <1>4, <3>1, RowSettled, Zenon DEF RowIs
    <3>3. \A r \in calls : Truthful(r, Indeterminate)
      BY Zenon DEF Truthful, Indeterminate, Answer, ShimFailures
    <3>4. RowIs(k, marked[k], "", ran[k]) /\ RowIs(k, marked[k], unsettled[k], ran[k])
      BY <1>4, <1>6, <3>2, <3>3, Zenon DEF RowIs
    <3> QED
      BY <1>6, <2>1, <3>2, <3>4, Zenon
  <2>2. CASE ledger[k].status \in SettledStates
    <3>1. marked = ledger
      BY <1>6, <1>8, <2>2, Zenon DEF MarkIndeterminate
    <3> QED
      BY <1>4, <2>2, <3>1, Zenon DEF KeyMoves, RowIs
  <2> QED
    BY <1>7, <2>1, <2>2, Zenon
<1>10. ASSUME NEW q \in ShimProcs, shim[q].at \in Executing, Tool(q).key = k PROVE FALSE
  BY <1>5, <1>6, <1>10, RowUsers, Zenon
<1>11. ASSUME NEW q \in ShimProcs, shim[q].at = "mark", Tool(q).key = k PROVE ledger[k].digest = Tool(q).id
  BY <1>11, RowUsers, Zenon
<1>12. ASSUME NEW s \in said, s.key = k
       PROVE  /\ ledger[k].status \in SettledStates /\ ledger[k].digest = s.id /\ ledger[k].response = s.response
              /\ \E r \in calls : r.key = s.key /\ r.id = s.id
  BY <1>12, RowAnswers, Zenon
<1>13. KeyMoves(ran, ran', k, ran[k])
  BY <1>2, <1>4, Zenon DEF KeyMoves
<1>14. ASSUME ledger' = marked, unsettled' = [unsettled EXCEPT ![k] = ""], Say(p, marked[k].response) PROVE ShimInv'
  <2>1. PICK y : y = Resting
    BY Zenon
  <2>2. Goto(p, y) /\ y.at = "idle"
    BY <1>14, <2>1, Zenon DEF Say, Resting
  <2>3. PICK row : row = marked[k]
    BY Zenon
  <2>4. Tells(k, row)
    <3>1. row.status \in SettledStates /\ row.digest = Tool(p).id /\ Say(p, row.response)
      BY <1>5, <1>9, <1>14, <2>3, Zenon
    <3>2. \A s \in said : s.key = k => s.id = row.digest /\ s.response = row.response
      BY <1>9, <1>12, <2>3, Zenon
    <3> QED
      BY <1>1, <1>3, <3>1, <3>2, SaysRow, Zenon
  <2>5. Lands(y, k, row, "", ran[k])
    BY <1>6, <1>9, <2>2, <2>3, Zenon DEF Lands
  <2>6. KeyMoves(ledger, ledger', k, row) /\ KeyMoves(unsettled, unsettled', k, "")
    BY <1>4, <1>9, <1>14, <2>3, Zenon DEF KeyMoves
  <2>7. RowIs(k, row, "", ran[k]) /\ Alone(p, k, row, "")
    BY <1>9, <1>10, <1>11, <2>3, Zenon DEF Alone
  <2> QED
    BY <1>1, <1>2, <1>4, <1>13, <2>2, <2>4, <2>5, <2>6, <2>7, Writes, Zenon
<1>15. ASSUME ledger' \in {ledger, marked}, Refuse(p), unsettled' = unsettled PROVE ShimInv'
  <2>1. CASE ledger' = ledger
    BY <1>1, <1>2, <1>15, <2>1, Refused, Zenon
  <2>2. CASE ledger' = marked
    <3>1. PICK y : y = Resting
      BY Zenon
    <3>2. Goto(p, y) /\ y.at = "idle" /\ said' = said
      BY <1>15, <3>1, Zenon DEF Refuse, Resting
    <3>3. PICK row : row = marked[k]
      BY Zenon
    <3>4. Tells(k, row)
      BY <1>9, <1>12, <3>2, <3>3, Zenon DEF Tells
    <3>5. Lands(y, k, row, unsettled[k], ran[k])
      BY <1>6, <1>9, <3>2, <3>3, Zenon DEF Lands
    <3>6. KeyMoves(ledger, ledger', k, row) /\ KeyMoves(unsettled, unsettled', k, unsettled[k])
      BY <1>4, <1>9, <1>15, <2>2, <3>3, Zenon DEF KeyMoves
    <3>7. RowIs(k, row, unsettled[k], ran[k]) /\ Alone(p, k, row, unsettled[k])
      BY <1>9, <1>10, <1>11, <3>3, Zenon DEF Alone
    <3> QED
      BY <1>1, <1>2, <1>4, <1>13, <3>2, <3>4, <3>5, <3>6, <3>7, Writes, Zenon
  <2> QED
    BY <1>15, <2>1, <2>2, Zenon
<1> QED
  BY <1>3, <1>8, <1>14, <1>15, Zenon DEF Mark

(* A crash: no handler is left, and the next owner settles what was        *)
(* pending (recoverPending).                                               *)
LEMMA ShimCrashKept ==
    ASSUME ShimInv, ShimCrash
    PROVE  ShimInv'
<1>1. UNCHANGED <<calls, link, file, ran, did, stuck, said>> /\ ShimKeys' = ShimKeys
  BY Zenon DEF ShimCrash, ShimKeys
<1>2. DOMAIN shim' = ShimProcs /\ \A p \in ShimProcs : shim'[p].at = "idle"
  BY Zenon DEF ShimCrash, Resting
<1>3. /\ DOMAIN ledger' = ShimKeys /\ DOMAIN unsettled' = ShimKeys /\ DOMAIN ran' = ShimKeys
      /\ \A k \in ShimKeys : unsettled'[k] = ""
  BY Zenon DEF ShimCrash, RecoverPending, ShimInv, ShimTypes
<1>4. "idle" \notin Executing /\ "idle" \notin Locking /\ "idle" # "mark"
      /\ "idle" # "swap" /\ "idle" # "inspect" /\ "idle" # "complete"
  BY Zenon DEF Executing, Locking
<1>5. "pending" \notin SettledStates /\ "none" \notin SettledStates /\ "indeterminate" \in SettledStates /\ "indeterminate" # "none"
      /\ "indeterminate" # "pending"
  BY Zenon DEF SettledStates
<1>6. ASSUME NEW k \in ShimKeys, ledger[k].status # "pending" PROVE ledger'[k] = ledger[k]
  BY <1>6, Zenon DEF ShimCrash, RecoverPending
<1>7. ASSUME NEW k \in ShimKeys, ledger[k].status = "pending"
      PROVE  /\ DOMAIN ledger'[k] = {"status", "digest", "response"} /\ ledger'[k].status = "indeterminate"
             /\ ledger'[k].response = Indeterminate
  <2>1. ledger'[k] = [ledger[k] EXCEPT !.status = "indeterminate", !.response = Indeterminate]
    BY <1>7, Zenon DEF ShimCrash, RecoverPending
  <2>2. DOMAIN ledger[k] = {"status", "digest", "response"}
    BY Zenon DEF ShimInv, ShimTypes
  <2> QED
    BY <2>1, <2>2, Zenon
<1>8. ShimTypes'
  <2>1. ASSUME NEW p \in ShimProcs PROVE HandOK(shim[p])'
    BY <1>2, <1>4, Zenon DEF HandOK
  <2>2. ASSUME NEW k \in ShimKeys PROVE DOMAIN ledger'[k] = {"status", "digest", "response"}
    BY <1>6, <1>7, Zenon DEF ShimInv, ShimTypes
  <2> QED
    BY <1>1, <1>2, <1>3, <2>1, <2>2, Zenon DEF ShimInv, ShimTypes
<1>9. ASSUME NEW k \in ShimKeys PROVE RowOK(k)'
  <2>1. RowOK(k)
    BY Zenon DEF ShimInv, Executions
  <2>2. CASE ledger[k].status = "pending"
    <3>1. \A r \in calls : Truthful(r, Indeterminate)'
      BY <1>1, Zenon DEF Truthful, Indeterminate, Answer, ShimFailures
    <3>2. ledger'[k].response = Indeterminate /\ ledger'[k].status = "indeterminate"
      BY <1>7, <2>2, Zenon
    <3>3. ASSUME NEW r \in calls PROVE Truthful(r, ledger[k].response)'
      BY <3>1, <3>2, Zenon DEF Truthful
    <3> QED
      BY <1>1, <1>3, <1>5, <2>1, <3>2, <3>3, Zenon DEF RowOK
  <2>3. CASE ledger[k].status # "pending"
    <3>1. ledger'[k] = ledger[k] /\ unsettled'[k] = ""
      BY <1>3, <1>6, <2>3, Zenon
    <3>2. ASSUME NEW r \in calls, ledger'[k].status \in SettledStates, r.key = k, r.id = ledger'[k].digest
          PROVE  Truthful(r, ledger[k].response)'
      <4>1. Truthful(r, ledger[k].response)
        BY <2>1, <3>1, <3>2, Zenon DEF RowOK
      <4> QED
        BY <1>1, <3>1, <4>1, Zenon DEF Truthful
    <3>3. ledger'[k].status \in {"none", "pending"} \cup SettledStates /\ ledger'[k].status # "pending"
      BY <2>1, <2>3, <3>1, Zenon DEF RowOK
    <3>4. (ran[k] \in {0, 1} /\ (ran[k] = 0 => k \notin did) /\ (ledger[k].status = "none" => ran[k] = 0))'
      BY <1>1, <2>1, <3>1, Zenon DEF RowOK
    <3> QED
      BY <1>1, <3>1, <3>2, <3>3, <3>4, Zenon DEF RowOK
  <2> QED
    BY <2>2, <2>3, Zenon
<1>10. ASSUME NEW p \in ShimProcs PROVE Knows(shim[p])' /\ FileOK(shim[p])'
  BY <1>2, <1>4, Zenon DEF Knows, FileOK
<1>11. RepliesAgree'
  <2>1. ASSUME NEW s \in said
        PROVE  ledger[s.key].status \in {"completed", "indeterminate"} /\ s.key \in ShimKeys
    BY Zenon DEF ShimInv, Executions, RepliesAgree, ShimKeys
  <2>2. ASSUME NEW s \in said PROVE ledger'[s.key] = ledger[s.key]
    BY <1>6, <2>1, Zenon
  <2> QED
    BY <1>1, <2>2, Zenon DEF ShimInv, Executions, RepliesAgree
<1>12. OneRun' /\ OneHolder'
  BY <1>2, <1>4, Zenon DEF OneRun, OneHolder, Holds
<1> QED
  BY <1>1, <1>8, <1>9, <1>10, <1>11, <1>12, Zenon DEF ShimInv, Executions, Files

(* Somebody outside the shim writes a file.                                *)
LEMMA EditorWritesKept ==
    ASSUME ShimInv, NEW n \in ShimPaths, NEW c, EditorWrites(n, c)
    PROVE  ShimInv'
<1>1. UNCHANGED <<calls, ledger, unsettled, shim, link, ran, did, stuck, said>> /\ ShimKeys' = ShimKeys
  BY Zenon DEF EditorWrites, ShimKeys
<1>2. DOMAIN file' = ShimPaths /\ \A m \in ShimPaths : file'[m] = file[m] \/ file'[m].by # "shim"
  <2>1. file' = [file EXCEPT ![n] = [c |-> c, by |-> "editor"]] /\ DOMAIN file = ShimPaths
    BY Zenon DEF EditorWrites, ShimInv, ShimTypes
  <2> QED
    BY <2>1, Zenon
<1>3. ShimTypes'
  BY <1>1, <1>2, Zenon DEF ShimInv, ShimTypes, HandOK, Want
<1>4. Executions' /\ OneHolder'
  BY <1>1, Untouched, Zenon
<1>5. Files'
  <2>1. ASSUME NEW p \in ShimProcs PROVE FileOK(shim[p])'
    <3>1. FileOK(shim[p]) /\ HandOK(shim[p])
      BY Zenon DEF ShimInv, Files, ShimTypes
    <3>2. CASE shim[p].at \notin {"swap", "inspect"}
      BY <1>1, <3>2, Zenon DEF FileOK
    <3>3. CASE shim[p].at \in {"swap", "inspect"}
      <4>1. shim[p].src \in ShimPaths /\ shim[p].dst \in ShimPaths
        BY <3>1, <3>3, Zenon DEF HandOK, Locking
      <4>2. PICK s, d : s = shim[p].src /\ d = shim[p].dst
        BY Zenon
      <4>3. (file'[s] = file[s] \/ file'[s].by # "shim") /\ (file'[d] = file[d] \/ file'[d].by # "shim")
        BY <1>2, <4>1, <4>2, Zenon
      <4> QED
        BY <1>1, <3>1, <4>2, <4>3, Zenon DEF FileOK
    <3> QED
      BY <3>2, <3>3, Zenon
  <2> QED
    BY <2>1, Zenon DEF Files
<1> QED
  BY <1>3, <1>4, <1>5, Zenon DEF ShimInv

(* Somebody outside the shim moves a link.                                 *)
LEMMA EditorRelinksKept ==
    ASSUME ShimInv, NEW name \in DOMAIN link, NEW n \in ShimPaths \cup {Outside}, EditorRelinks(name, n)
    PROVE  ShimInv'
<1>1. UNCHANGED <<calls, ledger, unsettled, shim, file, ran, did, stuck, said>> /\ ShimKeys' = ShimKeys
  BY Zenon DEF EditorRelinks, ShimKeys
<1>2. DOMAIN link' = DOMAIN link /\ \A w \in DOMAIN link' : link'[w] \in ShimPaths \cup {Outside}
  BY Zenon DEF EditorRelinks, ShimInv, ShimTypes
<1>3. ShimTypes'
  BY <1>1, <1>2, Zenon DEF ShimInv, ShimTypes, HandOK, Want
<1>4. Executions' /\ OneHolder'
  BY <1>1, Untouched, Zenon
<1>5. Files'
  BY <1>1, Zenon DEF ShimInv, Files, FileOK
<1> QED
  BY <1>3, <1>4, <1>5, Zenon DEF ShimInv

(* ShimInv holds at the start: no row, no handler, every file the shim's.  *)
LEMMA ShimStarts == ShimInit => ShimInv
<1> SUFFICES ASSUME ShimInit PROVE ShimInv
  OBVIOUS
<1>1. PICK s \in ShimScenes :
        /\ calls = s.calls /\ link = s.link
        /\ file = [n \in ShimPaths |-> [c |-> s.files[n], by |-> "shim"]]
        /\ ledger = [k \in {r.key : r \in s.calls} |-> NoRow]
        /\ unsettled = [k \in {r.key : r \in s.calls} |-> ""]
        /\ shim = [p \in ShimProcs |-> Resting]
        /\ ran = [k \in {r.key : r \in s.calls} |-> 0]
        /\ did = {} /\ stuck = {} /\ said = {}
  BY Zenon DEF ShimInit
<1>2. \A p \in ShimProcs : shim[p].at = "idle"
  BY <1>1, Zenon DEF Resting
<1>3. "idle" \notin Executing /\ "idle" \notin Locking /\ "idle" # "mark"
      /\ "idle" # "swap" /\ "idle" # "inspect" /\ "idle" # "complete"
  BY Zenon DEF Executing, Locking
<1>4. /\ DOMAIN ledger = ShimKeys /\ DOMAIN unsettled = ShimKeys /\ DOMAIN ran = ShimKeys
      /\ \A k \in ShimKeys : ledger[k] = NoRow /\ unsettled[k] = "" /\ ran[k] = 0
  BY <1>1, Zenon DEF ShimKeys
<1>5. NoRow.status = "none" /\ DOMAIN NoRow = {"status", "digest", "response"}
  BY Zenon DEF NoRow
<1>6. "none" \notin SettledStates /\ "none" # "pending"
  BY Zenon DEF SettledStates
<1>7. ShimTypes
  <2>1. /\ \A r \in calls : r.id # "" /\ {r.from, r.to} \subseteq DOMAIN link
        /\ \A q, r \in calls : q.key = r.key /\ q.id = r.id => q.op = r.op
        /\ \A name \in DOMAIN link : link[name] \in ShimPaths \cup {Outside}
    BY <1>1, ScenesAssumption, Zenon DEF Outside
  <2>2. DOMAIN file = ShimPaths /\ DOMAIN shim = ShimProcs
    BY <1>1, Zenon
  <2>3. ASSUME NEW p \in ShimProcs PROVE HandOK(shim[p])
    BY <1>2, <1>3, Zenon DEF HandOK
  <2> QED
    BY <1>4, <1>5, <2>1, <2>2, <2>3, Zenon DEF ShimTypes
<1>8. Executions
  <2>1. ASSUME NEW k \in ShimKeys PROVE RowOK(k)
    BY <1>1, <1>4, <1>5, <1>6, Zenon DEF RowOK
  <2>2. ASSUME NEW p \in ShimProcs PROVE Knows(shim[p])
    BY <1>2, <1>3, Zenon DEF Knows
  <2>3. OneRun
    BY <1>2, <1>3, Zenon DEF OneRun
  <2> QED
    BY <1>1, <2>1, <2>2, <2>3, Zenon DEF Executions, RepliesAgree
<1>9. OneHolder /\ Files
  BY <1>2, <1>3, Zenon DEF OneHolder, Holds, Files, FileOK
<1> QED
  BY <1>7, <1>8, <1>9, Zenon DEF ShimInv

(* Every step keeps ShimInv.                                               *)
LEMMA ShimKept == ShimInv /\ [ShimNext]_shimVars => ShimInv'
<1> SUFFICES ASSUME ShimInv, [ShimNext]_shimVars PROVE ShimInv'
  OBVIOUS
<1>1. ASSUME NEW p \in ShimProcs, (\E r \in calls : Receive(p, r)) \/ Begin(p) \/ Complete(p) \/ Mark(p)
      PROVE  ShimInv'
  BY <1>1, ReceiveKept, BeginKept, CompleteKept, MarkKept, Zenon
<1>2. ASSUME NEW p \in ShimProcs,
             \/ ReadFile(p) \/ RunCommand(p) \/ ResolvePaths(p) \/ AcquireLock(p) \/ VerifyLocked(p)
             \/ CheckExpected(p) \/ Recheck(p) \/ WriteFile(p) \/ MoveFile(p) \/ Inspect(p)
      PROVE  ShimInv'
  BY <1>2, ReadFileKept, RunCommandKept, ResolvePathsKept, AcquireLockKept, VerifyLockedKept, CheckExpectedKept,
     RecheckKept, WriteFileKept, MoveFileKept, InspectKept, Zenon
<1>3. ASSUME NEW n \in ShimPaths, NEW c \in ShimContents \cup {0}, EditorWrites(n, c) PROVE ShimInv'
  BY <1>3, EditorWritesKept, Zenon
<1>4. ASSUME NEW name \in DOMAIN link, NEW n \in ShimPaths \cup {Outside}, EditorRelinks(name, n) PROVE ShimInv'
  BY <1>4, EditorRelinksKept, Zenon
<1>5. CASE UNCHANGED shimVars
  BY <1>5, SameInv, Zenon DEF shimVars
<1> QED
  BY <1>1, <1>2, <1>3, <1>4, <1>5, ShimCrashKept, Zenon DEF ShimNext

(* A tool call runs at most once and all its answers are one true answer,  *)
(* whatever is retried, lost, restarted or changed behind the shim's back, *)
(* for any number of handlers, requests and paths (Execute, Ledger.Begin,  *)
(* Ledger.Complete, resolveUnsettledExecution, recoverPending).            *)
THEOREM ToolRepliesSound == ShimSpec => []RepliesAreSound
<1>1. ShimInv => RepliesAreSound
  <2> SUFFICES ASSUME ShimInv PROVE RepliesAreSound
    OBVIOUS
  <2>1. ToolRunsOnce
    <3>1. ASSUME NEW k \in ShimKeys PROVE ran[k] <= 1
      <4>1. ran[k] \in {0, 1}
        BY Zenon DEF ShimInv, Executions, RowOK
      <4> QED
        BY <4>1
    <3> QED
      BY <3>1, Zenon DEF ToolRunsOnce
  <2>2. ASSUME NEW s \in said, NEW r, r = CHOOSE q \in calls : q.key = s.key /\ q.id = s.id, r.op # "read"
        PROVE  /\ s.response.code = "ok" => s.key \in did
               /\ s.response.code \in ShimFailures => s.key \in stuck \/ s.key \notin did
    <3>1. r \in calls /\ r.key = s.key /\ r.id = s.id
      BY <2>2, Zenon DEF ShimInv, Executions
    <3>2. s.key \in ShimKeys
      BY <3>1, Zenon DEF ShimKeys
    <3>3. ledger[s.key].status \in SettledStates /\ ledger[s.key].digest = s.id /\ ledger[s.key].response = s.response
      BY Zenon DEF ShimInv, Executions, RepliesAgree, SettledStates
    <3>4. RowOK(s.key)
      BY <3>2, Zenon DEF ShimInv, Executions
    <3>5. Truthful(r, s.response)
      BY <3>1, <3>3, <3>4, Zenon DEF RowOK
    <3> QED
      BY <2>2, <3>1, <3>5, Zenon DEF Truthful
  <2>3. RepliesAreTrue
    BY <2>2, Zenon DEF RepliesAreTrue
  <2> QED
    BY <2>1, <2>3, Zenon DEF RepliesAreSound, ShimInv, Executions
<1> QED
  BY <1>1, ShimStarts, ShimKept, PTL DEF ShimSpec

(* A pending row has somebody to settle it, and handlers never wait for    *)
(* each other's paths in a circle, for any number of handlers and paths    *)
(* (rememberUnsettledExecution, pathLockTable.lock).                       *)
THEOREM ToolsNeverStuck == ShimSpec => []NoStuckTool
<1>1. ShimInv => NoStuckTool
  <2> SUFFICES ASSUME ShimInv PROVE NoStuckTool
    OBVIOUS
  <2>1. PendingIsOwned
    <3>1. "idle" \notin Executing /\ "begin" \notin Executing
      BY Zenon DEF Executing
    <3>2. \A k \in ShimKeys : RowOK(k)
      BY Zenon DEF ShimInv, Executions
    <3> QED
      BY <3>1, <3>2, Zenon DEF PendingIsOwned, RowOK
  <2>2. ASSUME NEW p \in ShimProcs, NEW q \in ShimProcs, shim[p].at = "lock", shim[q].at = "lock",
               NEW n \in Want(shim[p]) \ shim[p].held, Holds(q, n),
               NEW m \in Want(shim[q]) \ shim[q].held, Holds(p, m)
        PROVE  FALSE
    <3>1. HandOK(shim[p]) /\ HandOK(shim[q]) /\ "lock" \in Locking
      BY Zenon DEF ShimInv, ShimTypes, Locking
    <3>2. m \in shim[p].held /\ n \in shim[q].held
      BY <2>2, Zenon DEF Holds
    <3>3. m < n /\ n < m
      BY <2>2, <3>1, <3>2, Zenon DEF HandOK
    <3>4. m \in ShimPaths /\ n \in ShimPaths
      BY <2>2, <3>1, Zenon DEF HandOK, Want
    <3>5. m \in Nat /\ n \in Nat
      BY <3>4, ScenesAssumption, Zenon
    <3> QED
      BY <3>3, <3>5
  <2>3. LocksAreOrdered
    BY <2>2, Zenon DEF LocksAreOrdered
  <2> QED
    BY <2>1, <2>3, Zenon DEF NoStuckTool
<1> QED
  BY <1>1, ShimStarts, ShimKept, PTL DEF ShimSpec

(* No handler overwrites or moves what another one wrote unless it         *)
(* expected exactly that content, for any number of handlers and paths:    *)
(* from its second check to its last move, what it finds under its locks   *)
(* is what it expects, or was written from outside (writeFileCASLocked,    *)
(* DeleteFileCAS, RenameFileCAS).                                          *)
THEOREM ToolsLoseNoUpdate == ShimSpec => NoLostUpdate
<1>1. ShimInv /\ [ShimNext]_shimVars =>
        [\A p \in ShimProcs :
           shim[p].at \in {"swap", "inspect"} /\ file' # file /\ shim'[p] # shim[p] =>
             \A n \in Want(shim[p]) :
               file[n].by = "shim" /\ file'[n] # file[n] =>
                 file[n].c \in {0, shim[p].req.expected}]_shimVars
  <2> SUFFICES ASSUME ShimInv, NEW p \in ShimProcs, shim[p].at \in {"swap", "inspect"},
                      NEW n \in Want(shim[p]), file[n].by = "shim"
               PROVE  file[n].c \in {0, shim[p].req.expected}
    BY Zenon
  <2>1. HandOK(shim[p]) /\ FileOK(shim[p]) /\ shim[p].at \in Locking
    BY Zenon DEF ShimInv, ShimTypes, Files, Locking
  <2>2. shim[p].req.op # "rename" => shim[p].dst = shim[p].src
    BY <2>1, Zenon DEF HandOK
  <2>3. n = shim[p].src \/ n = shim[p].dst
    BY Zenon DEF Want
  <2> QED
    BY <2>1, <2>2, <2>3, Zenon DEF FileOK
<1> QED
  BY <1>1, ShimStarts, ShimKept, PTL DEF ShimSpec, NoLostUpdate

-----------------------------------------------------------------------------
(* LocalStack: opening, serving, closing                                   *)

Names == {"listener", "service", "caller", "http", "connection", "state", "mirror", "worker", "web", "webhttp"}
Threads == Users \cup {"serve", "webserve", "dispatch", "notices", "watch"}
Conditions == {"off", "on", "arrived", "run", "op", "keep", "idle", "failing", "failed", "done"}

StackFields == {"stage", "held", "phase", "step", "cancelled", "shut", "err", "asked", "late"}

RecordType ==
    /\ DOMAIN stack = StackFields
    /\ stack.stage \in 1..11
    /\ stack.held \subseteq Names
    /\ stack.phase \in {"opening", "ready", "failing", "failed"}
    /\ stack.step \in 0..10
    /\ stack.err \in {"none", "accept", "background"}

ScreenFields == {"version", "owed", "silent", "pending", "pump", "view"}
ViewFields == {"mode", "shown", "signal"}

ScreenType ==
    /\ DOMAIN screen = ScreenFields
    /\ screen.version \in Nat
    /\ DOMAIN screen.view = spend.browsers
    /\ \A b \in spend.browsers : DOMAIN screen.view[b] = ViewFields /\ screen.view[b].shown \in Nat

ThreadsType == threads \in [Threads -> Conditions]

SpendType ==
    /\ DOMAIN spend = Budgets \cup {"browsers"}
    /\ \A k \in Budgets : spend[k] \in Nat

StackType == RecordType /\ ThreadsType /\ ScreenType /\ SpendType

\* What was opened, what Close has not come to yet and is therefore held, and
\* what it has passed in time and is therefore gone.
Opened ==
    /\ stack.phase = "opening" => stack.step = 0
    /\ stack.phase = "ready" => stack.stage = 11
    /\ stack.step > 0 => stack.asked
    /\ stack.step = 2 => stack.stage > 4
    /\ stack.stage = 1 => "listener" \notin stack.held
    /\ stack.stage <= 2 => "service" \notin stack.held
    /\ stack.stage <= 3 => "caller" \notin stack.held
    /\ stack.stage <= 4 => "http" \notin stack.held
    /\ stack.stage <= 5 => "connection" \notin stack.held
    /\ stack.stage <= 6 => "state" \notin stack.held
    /\ stack.stage <= 7 => "mirror" \notin stack.held
    /\ stack.stage <= 8 => "worker" \notin stack.held
    /\ stack.stage <= 9 => "web" \notin stack.held
    /\ stack.stage <= 10 => "webhttp" \notin stack.held

StillThere ==
    /\ stack.stage > 2 /\ stack.step <= 9 => "service" \in stack.held
    /\ stack.stage > 3 /\ stack.step <= 3 => "caller" \in stack.held
    /\ stack.stage > 4 /\ stack.step <= 2 => "http" \in stack.held
    /\ stack.stage > 6 /\ stack.step <= 8 => "state" \in stack.held
    /\ stack.stage > 7 /\ stack.step <= 7 => "mirror" \in stack.held
    /\ stack.stage > 8 /\ stack.step <= 6 => "worker" \in stack.held
    /\ stack.stage > 9 /\ stack.step <= 4 => "web" \in stack.held
    /\ stack.stage > 10 /\ stack.step <= 5 => "webhttp" \in stack.held

Gone ==
    /\ stack.step > 2 => "http" \notin stack.held /\ "listener" \notin stack.held
    /\ stack.step > 3 => "caller" \notin stack.held
    /\ stack.step > 4 => "web" \notin stack.held
    /\ stack.step > 5 => "webhttp" \notin stack.held
    /\ stack.step > 6 => "worker" \notin stack.held
    /\ stack.step > 7 => "mirror" \notin stack.held
    /\ stack.step > 8 => "state" \notin stack.held
    /\ stack.step > 9 /\ ~stack.late => "service" \notin stack.held /\ "connection" \notin stack.held

\* Which goroutine runs since which stage.
Alive ==
    /\ stack.stage > 4 <=> threads["serve"] # "off"
    /\ stack.stage > 7 <=> threads["watch"] # "off"
    /\ stack.stage > 8 => threads["notices"] # "off"
    /\ stack.stage <= 4 => \A t \in {"call", "retention", "expiry"} : threads[t] = "off"
    /\ stack.stage <= 5 => threads["dispatch"] = "off"
    /\ stack.stage <= 8 => threads["loop"] = "off"
    /\ stack.stage <= 9 => screen.pump = "off"
    /\ stack.stage <= 10 => /\ threads["command"] = "off" /\ threads["webserve"] = "off"
                            /\ \A b \in spend.browsers : screen.view[b].mode = "off"

\* What has ended once Close has passed the step that waits for it.
Quiet ==
    /\ stack.step > 1 /\ ~stack.late => threads["call"] = "off"
    /\ stack.step > 2 => threads["serve"] \in {"off", "done"}
    /\ stack.step > 4 /\ ~stack.late => screen.pump \in {"off", "done"}
    /\ stack.step > 5 /\ ~stack.late =>
           /\ threads["command"] = "off"
           /\ \A b \in spend.browsers : screen.view[b].mode = "off"
    /\ stack.step > 6 /\ ~stack.late => threads["loop"] \in {"off", "done"}
    /\ stack.step > 7 => threads["watch"] \in {"off", "done"}
    /\ stack.step > 9 /\ ~stack.late => threads["dispatch"] \in {"off", "done"}

\* Why the model server stopped.
Explained ==
    /\ stack.shut => stack.err # "none"
    /\ \A t \in {"serve", "retention", "expiry", "webserve"} : threads[t] = "failed" => stack.err # "none"
    /\ StopIsExplained

LifeInv == Opened /\ StillThere /\ Gone /\ Alive /\ Quiet /\ UsedWhileHeld
-----------------------------------------------------------------------------
\* The steps of Close by number.
LEMMA Places ==
    /\ DOMAIN CloseOrder = 1..9 /\ Over = 10
    /\ CloseOrder[1] = "http" /\ CloseOrder[2] = "serve" /\ CloseOrder[3] = "caller"
    /\ CloseOrder[4] = "web" /\ CloseOrder[5] = "webhttp" /\ CloseOrder[6] = "worker"
    /\ CloseOrder[7] = "mirror" /\ CloseOrder[8] = "state" /\ CloseOrder[9] = "service"
    /\ Place("http") = 1 /\ Place("serve") = 2 /\ Place("caller") = 3 /\ Place("web") = 4
    /\ Place("webhttp") = 5 /\ Place("worker") = 6 /\ Place("mirror") = 7 /\ Place("state") = 8
    /\ Place("service") = 9
<1>1. DOMAIN CloseOrder = 1..9 /\ Len(CloseOrder) = 9
  BY DEF CloseOrder
<1>2. /\ CloseOrder[1] = "http" /\ CloseOrder[2] = "serve" /\ CloseOrder[3] = "caller"
      /\ CloseOrder[4] = "web" /\ CloseOrder[5] = "webhttp" /\ CloseOrder[6] = "worker"
      /\ CloseOrder[7] = "mirror" /\ CloseOrder[8] = "state" /\ CloseOrder[9] = "service"
  BY Zenon DEF CloseOrder
<1>3. \A i, j \in 1..9 : CloseOrder[i] = CloseOrder[j] => i = j
  BY <1>2
<1>4. \A i \in 1..9 : Place(CloseOrder[i]) = i
  BY <1>1, <1>3, Zenon DEF Place
<1> QED
  BY <1>1, <1>2, <1>4 DEF Over

\* The stages of Open by number.
LEMMA StageNames ==
    /\ DOMAIN Stages = 1..10 /\ Len(Stages) = 10
    /\ Stages[1] = "listener" /\ Stages[2] = "service" /\ Stages[3] = "caller" /\ Stages[4] = "http"
    /\ Stages[5] = "connection" /\ Stages[6] = "state" /\ Stages[7] = "mirror" /\ Stages[8] = "worker"
    /\ Stages[9] = "web" /\ Stages[10] = "webhttp"
BY DEF Stages

\* Spending leaves the browsers alone.
LEMMA Spending ==
    ASSUME SpendType, NEW k \in Budgets, SpendOne(k)
    PROVE  SpendType' /\ spend'.browsers = spend.browsers
BY DEF SpendType, SpendOne, Budgets

\* What is left keeps its type, and the browsers stay, in every step.
LEMMA SpendStep ==
    ASSUME SpendType, [StackNext]_stackVars
    PROVE  SpendType' /\ spend'.browsers = spend.browsers
<1>1. CASE UNCHANGED spend
  BY <1>1, Zenon DEF SpendType
<1>2. CASE \E k \in Budgets : SpendOne(k)
  BY <1>2, Spending, Zenon
<1>3. UNCHANGED spend \/ \E k \in Budgets : SpendOne(k)
  BY Zenon DEF StackNext, stackVars, Sweep, Budgets, CloseStep, CloseGivesUp, FinishShutdown, HostCloses, ContextCloses, HostCancels, OpenModelSide, OpenHumanSide, OpenFails, OpenReturns, ServeReturns, ServeFails, WebServeReturns, WebServeFails, BackgroundFails, SweepStep, CallArrives, BeginHandler, CommandArrives, HandlerEnds, BeginOperation, EndOperation, TouchState, LoopStep, GoroutineEnds, Change, Notify, SaveDraftFails, Pump, SubscribeStream, HandleEvents
<1> QED
  BY <1>1, <1>2, <1>3, Zenon

\* One goroutine, or one request, moves.
LEMMA Moving ==
    ASSUME ThreadsType, NEW t \in Threads, NEW c \in Conditions, Becomes(t, c)
    PROVE  ThreadsType' /\ threads'[t] = c /\ \A u \in Threads \ {t} : threads'[u] = threads[u]
BY Zenon DEF ThreadsType, Becomes

\* The steps that move none.
LEMMA Still ==
    ASSUME CloseStep \/ CloseGivesUp \/ FinishShutdown \/ HostCloses \/ ContextCloses \/ HostCancels \/ OpenReturns \/ Change \/ Notify \/ SaveDraftFails \/ Pump \/ SubscribeStream \/ HandleEvents
    PROVE  threads' = threads
BY Zenon DEF CloseStep, CloseGivesUp, FinishShutdown, HostCloses, ContextCloses, HostCancels, OpenReturns, Change, Notify, SaveDraftFails, Pump, SubscribeStream, HandleEvents

\* The steps that move one.
LEMMA MovesOne ==
    ASSUME ServeReturns \/ ServeFails \/ WebServeReturns \/ WebServeFails \/ BackgroundFails \/ SweepStep \/ CallArrives \/ BeginHandler \/ CommandArrives \/ HandlerEnds \/ BeginOperation \/ EndOperation \/ TouchState \/ LoopStep \/ GoroutineEnds
    PROVE  \E t \in Threads, c \in Conditions : Becomes(t, c)
<1> USE DEF Threads, Users, Sweeps, Conditions
<1>1. CASE ServeReturns
  BY <1>1, Zenon DEF ServeReturns
<1>2. CASE ServeFails
  BY <1>2, Zenon DEF ServeFails
<1>3. CASE WebServeReturns
  BY <1>3, Zenon DEF WebServeReturns
<1>4. CASE WebServeFails
  BY <1>4, Zenon DEF WebServeFails
<1>5. CASE BackgroundFails
  BY <1>5, Zenon DEF BackgroundFails, failPublicBackground
<1>6. CASE SweepStep
  BY <1>6, Zenon DEF SweepStep, Sweep
<1>7. CASE CallArrives
  BY <1>7, Zenon DEF CallArrives
<1>8. CASE BeginHandler
  BY <1>8, Zenon DEF BeginHandler
<1>9. CASE CommandArrives
  BY <1>9, Zenon DEF CommandArrives
<1>10. CASE HandlerEnds
  BY <1>10, Zenon DEF HandlerEnds
<1>11. CASE BeginOperation
  BY <1>11, Zenon DEF BeginOperation
<1>12. CASE EndOperation
  BY <1>12, Zenon DEF EndOperation
<1>13. CASE TouchState
  BY <1>13, Zenon DEF TouchState
<1>14. CASE LoopStep
  BY <1>14, Zenon DEF LoopStep
<1>15. CASE GoroutineEnds
  BY <1>15, Zenon DEF GoroutineEnds
<1> QED
  BY <1>1, <1>2, <1>3, <1>4, <1>5, <1>6, <1>7, <1>8, <1>9, <1>10, <1>11, <1>12, <1>13, <1>14, <1>15, Zenon

\* Threads keep their type in every step.
LEMMA ThreadsStep ==
    ASSUME ThreadsType, [StackNext]_stackVars
    PROVE  ThreadsType'
<1>1. CASE threads' = threads
  BY <1>1, Zenon DEF ThreadsType
<1>2. CASE \E t \in Threads, c \in Conditions : Becomes(t, c)
  BY <1>2, Moving, Zenon
<1>3. CASE OpenModelSide
  BY <1>3, Zenon DEF OpenModelSide, Launched, ThreadsType, Threads, Users, Sweeps, Conditions
<1>4. CASE OpenHumanSide
  BY <1>4, Zenon DEF OpenHumanSide, ThreadsType, Threads, Users, Sweeps, Conditions
<1>5. CASE OpenFails
  BY <1>5, Zenon DEF OpenFails, ThreadsType, Threads, Users, Sweeps, Conditions
<1> QED
  BY <1>1, <1>2, <1>3, <1>4, <1>5, Still, MovesOne, Zenon DEF StackNext, stackVars

\* The steps that leave the Local value alone.
LEMMA StackStill ==
    ASSUME ServeReturns \/ WebServeReturns \/ WebServeFails \/ SweepStep \/ CallArrives \/ BeginHandler \/ CommandArrives \/ HandlerEnds \/ BeginOperation \/ EndOperation \/ TouchState \/ LoopStep \/ GoroutineEnds \/ Change \/ Notify \/ SaveDraftFails \/ Pump \/ SubscribeStream \/ HandleEvents
    PROVE  stack' = stack
BY Zenon DEF ServeReturns, WebServeReturns, WebServeFails, SweepStep, CallArrives, BeginHandler, CommandArrives, HandlerEnds, BeginOperation, EndOperation, TouchState, LoopStep, GoroutineEnds, Change, Notify, SaveDraftFails, Pump, SubscribeStream, HandleEvents

\* A step of Close that was answered in time, by what it waited for.
LEMMA Closes ==
    ASSUME RecordType, CloseStep
    PROVE  /\ RecordType' /\ threads' = threads /\ screen' = screen
           /\ stack.step \in 1..9
           /\ stack'.stage = stack.stage /\ stack'.late = stack.late /\ stack'.shut = stack.shut
           /\ stack'.err = stack.err /\ stack'.asked = stack.asked
           /\ stack.phase = "opening" <=> stack'.phase = "opening"
           /\ stack.phase = "ready" <=> stack'.phase = "ready"
           /\ stack.step = 1 =>
                /\ IF "http" \in stack.held THEN stack'.step = 2 /\ stack'.held = stack.held
                   ELSE stack'.step = 3 /\ stack'.held = stack.held \ {"listener"}
                /\ "http" \in stack.held => threads["call"] = "off"
           /\ stack.step > 1 =>
                /\ stack'.step = stack.step + 1
                /\ stack'.held = stack.held \ Releases(CloseOrder[stack.step])
                /\ StillHeld(CloseOrder[stack.step]) => Drained(CloseOrder[stack.step])
<1> USE DEF RecordType, StackFields
<1>1. stack.step \in 1..9 /\ threads' = threads /\ screen' = screen
  BY Places DEF CloseStep, Returned
<1>2. CASE stack.step = 1
  <2>1. CloseOrder[stack.step] = "http" /\ CloseModelServer
    BY <1>2, Places, Zenon DEF CloseStep
  <2>2. "http" \in stack.held => threads["call"] = "off"
    BY <2>1, Places, Zenon DEF CloseStep, StillHeld, Drained
  <2>3. ASSUME "http" \in stack.held
        PROVE  /\ \A f \in StackFields \ {"step"} : stack'[f] = stack[f]
               /\ DOMAIN stack' = StackFields /\ stack'.step = 2
    BY <2>1, <2>3, Zenon DEF CloseModelServer
  <2>4. ASSUME "http" \notin stack.held
        PROVE  /\ \A f \in StackFields \ {"step", "held"} : stack'[f] = stack[f]
               /\ DOMAIN stack' = StackFields /\ stack'.step = 3 /\ stack'.held = stack.held \ {"listener"}
    BY <2>1, <2>4, Zenon DEF CloseModelServer
  <2> QED
    BY <1>1, <1>2, <2>2, <2>3, <2>4
<1>3. CASE stack.step > 1
  <2>1. CloseOrder[stack.step] # "http"
    BY <1>1, <1>3, Places
  <2>2. /\ stack' = [Advance(stack, stack.step + 1) EXCEPT !.held = @ \ Releases(CloseOrder[stack.step])]
        /\ StillHeld(CloseOrder[stack.step]) => Drained(CloseOrder[stack.step])
    BY <2>1, Zenon DEF CloseStep
  <2> QED
    BY <1>1, <1>3, <2>2 DEF Advance
<1> QED
  BY <1>1, <1>2, <1>3

\* A step of Close that ran into its deadline.
LEMMA GivesUp ==
    ASSUME RecordType, CloseGivesUp
    PROVE  /\ RecordType' /\ threads' = threads /\ screen' = screen
           /\ stack.step \in 1..9 /\ stack.step \notin {2, 7, 8}
           /\ stack'.stage = stack.stage /\ stack'.late = TRUE /\ stack'.shut = stack.shut
           /\ stack'.err = stack.err /\ stack'.asked = stack.asked
           /\ stack.phase = "opening" <=> stack'.phase = "opening"
           /\ stack.phase = "ready" <=> stack'.phase = "ready"
           /\ stack'.step = stack.step + 1
           /\ CloseOrder[stack.step] \in stack.held
           /\ stack'.held = IF stack.step \in {1, 9} THEN stack.held
                            ELSE stack.held \ {CloseOrder[stack.step]}
<1> USE DEF RecordType, StackFields
<1>1. stack.step \in 1..9 /\ threads' = threads /\ screen' = screen
  BY Places DEF CloseGivesUp, Returned
<1>2. StillHeld(CloseOrder[stack.step]) /\ Timed(CloseOrder[stack.step])
  BY Zenon DEF CloseGivesUp
<1>3. stack.step \notin {2, 7, 8}
  BY <1>1, <1>2, Places, Zenon DEF Timed
<1>4. CloseOrder[stack.step] \in {"http", "service"} <=> stack.step \in {1, 9}
  BY <1>1, Places
<1>5. stack' = [Advance(stack, stack.step + 1) EXCEPT
                  !.late = TRUE,
                  !.held = IF CloseOrder[stack.step] \in {"http", "service"} THEN @ ELSE @ \ {CloseOrder[stack.step]}]
  BY Zenon DEF CloseGivesUp
<1>6. CloseOrder[stack.step] # "serve"
  BY <1>1, <1>3, Places
<1> QED
  BY <1>1, <1>2, <1>3, <1>4, <1>5, <1>6 DEF Advance, StillHeld

\* A stage of Open that succeeds.
LEMMA Opens ==
    ASSUME RecordType, OpenModelSide \/ OpenHumanSide
    PROVE  /\ RecordType'
           /\ stack.phase = "opening" /\ stack.stage \in 1..10
           /\ stack' = [stack EXCEPT !.stage = stack.stage + 1, !.held = stack.held \cup {Stages[stack.stage]}]
<1>1. stack.phase = "opening" /\ stack.stage \in 1..10
  BY StageNames, Zenon DEF OpenModelSide, OpenHumanSide, OpenStage
<1>2. stack' = [stack EXCEPT !.stage = stack.stage + 1, !.held = stack.held \cup {Stages[stack.stage]}]
  BY Zenon DEF OpenModelSide, OpenHumanSide, OpenStage
<1>3. Stages[stack.stage] \in Names
  BY <1>1, StageNames DEF Names
<1> QED
  BY <1>1, <1>2, <1>3 DEF RecordType, StackFields

\* The service's store is released after Close has returned.
LEMMA Finishes ==
    ASSUME RecordType, FinishShutdown
    PROVE  /\ RecordType' /\ threads' = threads /\ screen' = screen
           /\ stack.step = 10 /\ Drained("service")
           /\ \A f \in StackFields \ {"held"} : stack'[f] = stack[f]
           /\ stack'.held = stack.held \ {"service", "connection"}
<1>1. stack' = [stack EXCEPT !.held = stack.held \ {"service", "connection"}]
  BY Zenon DEF FinishShutdown, Releases
<1>2. stack.step = 10 /\ Drained("service") /\ threads' = threads /\ screen' = screen
  BY Places, Zenon DEF FinishShutdown, Returned
<1> QED
  BY <1>1, <1>2, Zenon DEF RecordType, StackFields

\* Close begins: on the host's word, because the context has ended, or because
\* Open has failed.
LEMMA ClosingFacts ==
    ASSUME RecordType
    PROVE  /\ DOMAIN Closing(stack) = StackFields
           /\ Closing(stack).step = 1 /\ Closing(stack).asked = TRUE /\ Closing(stack).cancelled = TRUE
           /\ \A f \in StackFields \ {"step", "asked", "cancelled"} : Closing(stack)[f] = stack[f]
BY Zenon DEF Closing, RecordType, StackFields

\* Close begins, on the host's word or when the context has ended.
LEMMA CloseBegins ==
    ASSUME RecordType, HostCloses \/ ContextCloses
    PROVE  /\ RecordType' /\ threads' = threads /\ screen' = screen
           /\ stack.phase = "ready" /\ stack.step = 0 /\ stack' = Closing(stack)
<1>1. /\ stack.phase = "ready" /\ stack.step = 0 /\ stack' = Closing(stack)
      /\ threads' = threads /\ screen' = screen
  BY Zenon DEF HostCloses, ContextCloses
<1>2. /\ \A f \in StackFields \ {"step", "asked", "cancelled"} : stack'[f] = stack[f]
      /\ DOMAIN stack' = StackFields /\ stack'.step = 1
  BY <1>1, ClosingFacts, Zenon
<1>3. RecordType'
  BY <1>2 DEF RecordType, StackFields
<1> QED
  BY <1>1, <1>3, Zenon

\* Open fails at its first stage, at a later one, or at the last look.
LEMMA Fails ==
    ASSUME RecordType, OpenFails \/ OpenReturns
    PROVE  /\ RecordType' /\ screen' = screen
           /\ stack.phase = "opening"
           /\ \A f \in StackFields \ {"phase", "step", "asked", "cancelled"} : stack'[f] = stack[f]
           /\ \/ stack.stage = 1 /\ stack'.phase = "failed" /\ stack'.step = stack.step /\ stack'.asked = stack.asked
              \/ stack.stage > 1 /\ stack'.phase = "failing" /\ stack'.step = 1 /\ stack'.asked = TRUE
              \/ /\ stack.stage = 11 /\ stack'.phase = "ready" /\ stack'.step = stack.step
                 /\ stack'.asked = stack.asked
<1> USE DEF RecordType, StackFields
<1>1. CASE stack' = [stack EXCEPT !.phase = "failed"] /\ stack.stage = 1 /\ stack.phase = "opening"
  BY <1>1, Zenon DEF OpenFails, OpenReturns
<1>2. CASE stack' = [Closing(stack) EXCEPT !.phase = "failing"] /\ stack.stage > 1 /\ stack.phase = "opening"
  <2>1. /\ \A f \in StackFields \ {"step", "asked", "cancelled", "phase"} : stack'[f] = stack[f]
        /\ DOMAIN stack' = StackFields /\ stack'.phase = "failing" /\ stack'.step = 1 /\ stack'.asked = TRUE
    BY <1>2, ClosingFacts, Zenon
  <2> QED
    BY <1>2, <2>1 DEF OpenFails, OpenReturns
<1>3. CASE stack' = [stack EXCEPT !.phase = "ready"] /\ stack.stage = 11 /\ stack.phase = "opening"
  BY <1>3, Zenon DEF OpenFails, OpenReturns
<1>4. \/ stack' = [stack EXCEPT !.phase = "failed"] /\ stack.stage = 1 /\ stack.phase = "opening"
      \/ stack' = [Closing(stack) EXCEPT !.phase = "failing"] /\ stack.stage > 1 /\ stack.phase = "opening"
      \/ stack' = [stack EXCEPT !.phase = "ready"] /\ stack.stage = 11 /\ stack.phase = "opening"
  BY StageNames DEF OpenFails, OpenReturns
<1> QED
  BY <1>1, <1>2, <1>3, <1>4, Zenon

\* The context ends on the host's word, or because a goroutine failed.
LEMMA Interrupts ==
    ASSUME RecordType, HostCancels \/ ServeFails \/ BackgroundFails
    PROVE  /\ RecordType' /\ screen' = screen
           /\ \A f \in {"stage", "held", "phase", "step", "late"} : stack'[f] = stack[f]
           /\ stack.asked => stack'.asked
<1> USE DEF RecordType, StackFields
<1>1. CASE HostCancels
  BY <1>1, Zenon DEF HostCancels
<1>2. CASE ServeFails
  BY <1>2, Zenon DEF ServeFails
<1>3. CASE BackgroundFails
  BY <1>3, Zenon DEF BackgroundFails, failPublicBackground
<1> QED
  BY <1>1, <1>2, <1>3, Zenon

\* The Local value keeps its type in every step.
LEMMA RecordStep ==
    ASSUME RecordType, [StackNext]_stackVars
    PROVE  RecordType'
<1>1. CASE stack' = stack
  BY <1>1, Zenon DEF RecordType
<1> QED
  BY <1>1, Closes, GivesUp, Opens, Finishes, CloseBegins, Fails, Interrupts, StackStill, Zenon DEF StackNext, stackVars
-----------------------------------------------------------------------------
\* A step of Close that was answered in time keeps the life of the stack.
LEMMA CloseStepLife ==
    ASSUME StackType, LifeInv, CloseStep
    PROVE  LifeInv'
<1> USE DEF StackType
<1>1. /\ threads' = threads /\ screen' = screen /\ spend' = spend
      /\ stack.step \in 1..9 /\ stack.stage \in 1..11
      /\ stack'.stage = stack.stage /\ stack'.late = stack.late /\ stack'.asked = stack.asked
      /\ stack.phase = "opening" <=> stack'.phase = "opening"
      /\ stack.phase = "ready" <=> stack'.phase = "ready"
  BY Closes, Zenon DEF CloseStep, RecordType
<1>2. CASE stack.step = 1
  <2>1. /\ IF "http" \in stack.held THEN stack'.step = 2 /\ stack'.held = stack.held
           ELSE stack'.step = 3 /\ stack'.held = stack.held \ {"listener"}
        /\ "http" \in stack.held => threads["call"] = "off"
    BY <1>2, Closes, Zenon
  <2> QED
    BY <1>1, <1>2, <2>1 DEF LifeInv, Opened, StillThere, Gone, Alive, Quiet, UsedWhileHeld, InService
<1>3. CASE stack.step = 2
  <2>1. /\ stack'.step = 3 /\ stack'.held = stack.held \ {"http", "listener"}
        /\ "http" \in stack.held => threads["serve"] = "done"
    BY <1>3, Closes, Places, SMTT(30) DEF Releases, StillHeld, Drained
  <2> QED
    BY <1>1, <1>3, <2>1 DEF LifeInv, Opened, StillThere, Gone, Alive, Quiet, UsedWhileHeld, InService
<1>4. CASE stack.step = 3
  <2>1. /\ stack'.step = 4 /\ stack'.held = stack.held \ {"caller"}
        /\ "caller" \in stack.held => threads["call"] \notin {"run", "op"}
    BY <1>4, Closes, Places, SMTT(30) DEF Releases, StillHeld, Drained
  <2> QED
    BY <1>1, <1>4, <2>1 DEF LifeInv, Opened, StillThere, Gone, Alive, Quiet, UsedWhileHeld, InService
<1>5. CASE stack.step = 4
  <2>1. /\ stack'.step = 5 /\ stack'.held = stack.held \ {"web"}
        /\ "web" \in stack.held => screen.pump = "done"
    BY <1>5, Closes, Places, SMTT(30) DEF Releases, StillHeld, Drained
  <2> QED
    BY <1>1, <1>5, <2>1 DEF LifeInv, Opened, StillThere, Gone, Alive, Quiet, UsedWhileHeld, InService
<1>6. CASE stack.step = 5
  <2>1. /\ stack'.step = 6 /\ stack'.held = stack.held \ {"webhttp"}
        /\ "webhttp" \in stack.held => threads["command"] = "off" /\ \A b \in spend.browsers : screen.view[b].mode = "off"
    BY <1>6, Closes, Places, SMTT(30) DEF Releases, StillHeld, Drained
  <2> QED
    BY <1>1, <1>6, <2>1 DEF LifeInv, Opened, StillThere, Gone, Alive, Quiet, UsedWhileHeld, InService
<1>7. CASE stack.step = 6
  <2>1. /\ stack'.step = 7 /\ stack'.held = stack.held \ {"worker"}
        /\ "worker" \in stack.held => threads["loop"] = "done"
    BY <1>7, Closes, Places, SMTT(30) DEF Releases, StillHeld, Drained
  <2> QED
    BY <1>1, <1>7, <2>1 DEF LifeInv, Opened, StillThere, Gone, Alive, Quiet, UsedWhileHeld, InService
<1>8. CASE stack.step = 7
  <2>1. /\ stack'.step = 8 /\ stack'.held = stack.held \ {"mirror"}
        /\ "mirror" \in stack.held => threads["watch"] = "done"
    BY <1>8, Closes, Places, SMTT(30) DEF Releases, StillHeld, Drained
  <2> QED
    BY <1>1, <1>8, <2>1 DEF LifeInv, Opened, StillThere, Gone, Alive, Quiet, UsedWhileHeld, InService
<1>9. CASE stack.step = 8
  <2>1. /\ stack'.step = 9 /\ stack'.held = stack.held \ {"state"}
    BY <1>9, Closes, Places, SMTT(30) DEF Releases, StillHeld, Drained
  <2> QED
    BY <1>1, <1>9, <2>1 DEF LifeInv, Opened, StillThere, Gone, Alive, Quiet, UsedWhileHeld, InService
<1>10. CASE stack.step = 9
  <2>1. /\ stack'.step = 10 /\ stack'.held = stack.held \ {"service", "connection"}
        /\ "service" \in stack.held => InService = {} /\ Idle("dispatch")
    BY <1>10, Closes, Places, SMTT(30) DEF Releases, StillHeld, Drained
  <2> QED
    BY <1>1, <1>10, <2>1 DEF LifeInv, Opened, StillThere, Gone, Alive, Quiet, UsedWhileHeld, InService, Idle
<1> QED
  BY <1>1, <1>2, <1>3, <1>4, <1>5, <1>6, <1>7, <1>8, <1>9, <1>10, SMTT(30)

\* So does one that ran into its deadline.
LEMMA GivesUpLife ==
    ASSUME StackType, LifeInv, CloseGivesUp
    PROVE  LifeInv'
<1>1. /\ threads' = threads /\ screen' = screen /\ spend'.browsers = spend.browsers
      /\ stack.step \in 1..9 /\ stack.stage \in 1..11 /\ stack.step \notin {2, 7, 8}
      /\ stack'.stage = stack.stage /\ stack'.late = TRUE /\ stack'.asked = stack.asked
      /\ stack.phase = "opening" <=> stack'.phase = "opening"
      /\ stack.phase = "ready" <=> stack'.phase = "ready"
      /\ stack'.step = stack.step + 1
      /\ stack'.held = IF stack.step \in {1, 9} THEN stack.held ELSE stack.held \ {CloseOrder[stack.step]}
      /\ CloseOrder[stack.step] \in stack.held
  BY GivesUp, Spending, Zenon DEF CloseGivesUp, StackType, RecordType, Budgets
<1>2. /\ stack.step = 1 => "http" \in stack.held
      /\ stack.step = 3 => stack'.held = stack.held \ {"caller"}
      /\ stack.step = 4 => stack'.held = stack.held \ {"web"}
      /\ stack.step = 5 => stack'.held = stack.held \ {"webhttp"}
      /\ stack.step = 6 => stack'.held = stack.held \ {"worker"}
      /\ stack.step \in {1, 9} => stack'.held = stack.held
  BY <1>1, Places, SMTT(30)
<1> QED
  BY <1>1, <1>2 DEF LifeInv, Opened, StillThere, Gone, Alive, Quiet, UsedWhileHeld, InService

\* The late release of the service's store, and the beginning of Close.
LEMMA FinishLife ==
    ASSUME StackType, LifeInv, FinishShutdown
    PROVE  LifeInv'
<1>1. /\ threads' = threads /\ screen' = screen /\ spend' = spend
      /\ stack.step = 10 /\ stack'.step = 10 /\ stack'.stage = stack.stage /\ stack'.late = stack.late
      /\ stack'.asked = stack.asked /\ stack'.phase = stack.phase
      /\ stack'.held = stack.held \ {"service", "connection"} /\ InService = {}
  BY Finishes, Zenon DEF FinishShutdown, StackType, StackFields, Drained
<1> QED
  BY <1>1 DEF LifeInv, Opened, StillThere, Gone, Alive, Quiet, UsedWhileHeld, InService

\* The first step of Close keeps the life of the stack.
LEMMA BeginLife ==
    ASSUME StackType, LifeInv, HostCloses \/ ContextCloses
    PROVE  LifeInv'
<1>1. spend'.browsers = spend.browsers
  BY Spending, Zenon DEF HostCloses, ContextCloses, StackType, Budgets
<1>2. /\ threads' = threads /\ screen' = screen /\ stack.step = 0 /\ stack.phase = "ready"
      /\ stack' = Closing(stack)
  BY CloseBegins, Zenon DEF StackType
<1>3. /\ stack'.step = 1 /\ stack'.asked = TRUE /\ stack'.stage = stack.stage /\ stack'.held = stack.held
      /\ stack'.phase = stack.phase /\ stack'.late = stack.late
  BY <1>2, ClosingFacts, Zenon DEF StackType, StackFields
<1> QED
  BY <1>1, <1>2, <1>3 DEF LifeInv, Opened, StillThere, Gone, Alive, Quiet, UsedWhileHeld, InService

\* Open fails, or returns.
LEMMA FailLife ==
    ASSUME StackType, LifeInv, OpenFails \/ OpenReturns
    PROVE  LifeInv'
<1>1. spend'.browsers = spend.browsers
  BY Spending, Zenon DEF OpenFails, OpenReturns, StackType, Budgets
<1>2. /\ threads \in [Threads -> Conditions]
      /\ threads' = threads \/ (stack.stage <= 8 /\ threads' = [threads EXCEPT !["notices"] = "on"])
  BY StageNames DEF OpenFails, OpenReturns, StackType, RecordType, ThreadsType
<1>3. \A u \in Threads \ {"notices"} : threads'[u] = threads[u]
  BY <1>2, Zenon
<1>4. /\ \A u \in Users \cup {"serve", "webserve", "dispatch", "watch"} : threads'[u] = threads[u]
      /\ threads'["notices"] # "off" \/ threads'["notices"] = threads["notices"]
  BY <1>2, <1>3, Zenon DEF Threads, Users, Sweeps
<1>5. /\ screen' = screen /\ stack.phase = "opening" /\ stack.step \in 0..10 /\ stack.stage \in 1..11
      /\ stack'.stage = stack.stage /\ stack'.held = stack.held /\ stack'.late = stack.late
      /\ \/ stack'.phase = "failed" /\ stack'.step = stack.step /\ stack'.asked = stack.asked
         \/ stack'.phase = "failing" /\ stack'.step = 1 /\ stack'.asked = TRUE
         \/ stack.stage = 11 /\ stack'.phase = "ready" /\ stack'.step = stack.step /\ stack'.asked = stack.asked
  BY Fails, Zenon DEF StackType, RecordType, StackFields
<1>6. InService' = InService
  BY <1>4, Zenon DEF InService
<1> QED
  BY <1>1, <1>4, <1>5, <1>6 DEF LifeInv, Opened, StillThere, Gone, Alive, Quiet, UsedWhileHeld, Users, Sweeps

\* A stage of Open succeeds.
LEMMA OpenLife ==
    ASSUME StackType, LifeInv, OpenModelSide \/ OpenHumanSide
    PROVE  LifeInv'
<1> DEFINE n == stack.stage
<1>1. /\ stack.phase = "opening" /\ stack.stage \in 1..10 /\ spend' = spend
      /\ stack'.stage = stack.stage + 1 /\ stack'.held = stack.held \cup {Stages[stack.stage]}
      /\ stack'.phase = stack.phase /\ stack'.step = stack.step /\ stack'.asked = stack.asked
      /\ stack'.late = stack.late
  BY Opens, Zenon DEF StackType, RecordType, StackFields, OpenModelSide, OpenHumanSide
<1>2. stack.step = 0
  BY <1>1, Zenon DEF LifeInv, Opened
<1>3. Opened' /\ StillThere' /\ Gone'
  BY <1>1, <1>2, StageNames DEF LifeInv, Opened, StillThere, Gone
<1>4. threads \in [Threads -> Conditions]
  BY Zenon DEF StackType, ThreadsType
<1>5. CASE OpenModelSide
  <2>1. n \in 1..4 /\ screen' = screen
    BY <1>1, <1>5, StageNames, SMTT(30) DEF OpenModelSide, OpenStage
  <2>2. CASE n # 4
    <3>1. threads' = threads
      BY <1>5, <2>1, <2>2, StageNames, SMTT(30) DEF OpenModelSide
    <3> QED
      BY <1>1, <1>2, <1>3, <2>1, <2>2, <3>1, StageNames, SMTT(30) DEF LifeInv, Opened, StillThere, Gone, Alive, Quiet, UsedWhileHeld, InService
  <2>3. CASE n = 4
    <3>1. threads' = [Launched(Sweeps) EXCEPT !["serve"] = "on"]
      BY <1>5, <2>3, StageNames, Zenon DEF OpenModelSide
    <3>2. /\ threads'["serve"] = "on" /\ \A u \in Sweeps : threads'[u] = "run"
          /\ \A u \in Threads \ (Sweeps \cup {"serve"}) : threads'[u] = threads[u]
      BY <1>4, <3>1, Zenon DEF Launched, Threads, Users, Sweeps
    <3>3. InService' = InService
      BY <1>1, <2>3, <3>2 DEF InService, LifeInv, Alive, Users, Sweeps, Threads
    <3> QED
      BY <1>1, <1>2, <1>3, <2>1, <2>3, <3>2, <3>3, StageNames, SMTT(30) DEF LifeInv, Alive, Quiet, UsedWhileHeld, Threads, Users, Sweeps
  <2> QED
    BY <2>2, <2>3, Zenon
<1>6. CASE OpenHumanSide
  <2>1. n \in 5..10
    BY <1>1, <1>6, StageNames, SMTT(30) DEF OpenHumanSide, OpenStage
  <2>2. /\ \A u \in Threads \ {"dispatch", "watch", "notices", "loop", "webserve"} : threads'[u] = threads[u]
        /\ threads'["dispatch"] = IF n = 5 THEN "on" ELSE threads["dispatch"]
        /\ threads'["watch"] = IF n = 7 THEN "on" ELSE threads["watch"]
        /\ threads'["notices"] = IF n = 8 THEN "on" ELSE threads["notices"]
        /\ threads'["loop"] = IF n = 8 THEN "idle" ELSE threads["loop"]
        /\ threads'["webserve"] = IF n = 10 THEN "on" ELSE threads["webserve"]
    BY <1>4, <1>6, <2>1, StageNames, SMTT(30) DEF OpenHumanSide, Threads, Users, Sweeps
  <2>3. screen'.pump = (IF n = 9 THEN "idle" ELSE screen.pump) /\ screen'.view = screen.view
    BY <1>6, <2>1, StageNames, SMTT(30) DEF OpenHumanSide, StackType, ScreenType, ScreenFields
  <2>4. InService' = InService
    BY <1>1, <2>1, <2>2, SMTT(30) DEF InService, LifeInv, Alive, Users, Sweeps, Threads
  <2>5. Alive'
    BY <1>1, <2>1, <2>2, <2>3, SMTT(30) DEF LifeInv, Alive, Threads, Users, Sweeps
  <2>6. Quiet' /\ UsedWhileHeld'
    BY <1>1, <1>2, <2>1, <2>2, <2>3, <2>4, SMTT(30) DEF LifeInv, Quiet, UsedWhileHeld, Threads, Users, Sweeps
  <2> QED
    BY <1>3, <2>5, <2>6, Zenon DEF LifeInv
<1> QED
  BY <1>5, <1>6, Zenon

\* How one goroutine or request may move: a goroutine that was started goes on and
\* never starts again, a request arrives at a server that listens, an operation begins
\* while the service takes it.
Move(t, c) ==
    /\ Becomes(t, c)
    /\ t \notin {"call", "command"} => threads[t] # "off" /\ threads[t] # "done" /\ c # "off"
    /\ t = "call" /\ threads[t] = "off" => threads["serve"] = "on" /\ stack.step = 0
    /\ t = "command" /\ threads[t] = "off" => threads["webserve"] = "on" /\ stack.step < 5
    /\ c = "op" => t \in Users /\ threads[t] = "run" /\ stack.step < 9
    /\ c = "keep" => t \in {"command", "loop"} /\ threads[t] = "run"

\* Every step of a goroutine or a request is such a move.
LEMMA Moves ==
    ASSUME StackType, ServeReturns \/ ServeFails \/ WebServeReturns \/ WebServeFails \/ BackgroundFails \/ SweepStep \/ CallArrives \/ BeginHandler \/ CommandArrives \/ HandlerEnds \/ BeginOperation \/ EndOperation \/ TouchState \/ LoopStep \/ GoroutineEnds
    PROVE  \E t \in Threads, c \in Conditions : Move(t, c)
<1> USE DEF Threads, Users, Sweeps, Conditions, Move
<1> stack.step \in 0..10
  BY Zenon DEF StackType, RecordType
<1>1. CASE ServeReturns
  BY <1>1, Places, Zenon DEF ServeReturns, Stopping
<1>2. CASE ServeFails
  BY <1>2, Zenon DEF ServeFails
<1>3. CASE WebServeReturns
  BY <1>3, Places, Zenon DEF WebServeReturns, Stopping
<1>4. CASE WebServeFails
  BY <1>4, Places, Zenon DEF WebServeFails, Stopping
<1>5. CASE BackgroundFails
  BY <1>5, Zenon DEF BackgroundFails, failPublicBackground
<1>6. CASE SweepStep
  BY <1>6, Zenon DEF SweepStep, Sweep
<1>7. CASE CallArrives
  BY <1>7, Zenon DEF CallArrives
<1>8. CASE BeginHandler
  BY <1>8, Places, Zenon DEF BeginHandler, Stopping
<1>9. CASE CommandArrives
  BY <1>9, Places DEF CommandArrives, Stopping
<1>10. CASE HandlerEnds
  BY <1>10, Zenon DEF HandlerEnds
<1>11. CASE BeginOperation
  BY <1>11, Places DEF BeginOperation, Stopping
<1>12. CASE EndOperation
  BY <1>12, Zenon DEF EndOperation
<1>13. CASE TouchState
  BY <1>13, Zenon DEF TouchState
<1>14. CASE LoopStep
  BY <1>14, Places, Zenon DEF LoopStep, Stopping
<1>15. CASE GoroutineEnds
  BY <1>15, Places, Zenon DEF GoroutineEnds, Stopping
<1> QED
  BY <1>1, <1>2, <1>3, <1>4, <1>5, <1>6, <1>7, <1>8, <1>9, <1>10, <1>11, <1>12, <1>13, <1>14, <1>15, Zenon

\* A legal move keeps the life of the stack.
LEMMA MoveLife ==
    ASSUME StackType, LifeInv, NEW t \in Threads, NEW c \in Conditions, Move(t, c),
           \A f \in {"stage", "held", "phase", "step", "late"} : stack'[f] = stack[f],
           stack.asked => stack'.asked,
           screen' = screen, spend'.browsers = spend.browsers
    PROVE  LifeInv'
<1>1. threads'[t] = c /\ \A u \in Threads \ {t} : threads'[u] = threads[u]
  BY Moving, Zenon DEF StackType, Move
<1>2. /\ stack'.stage = stack.stage /\ stack'.held = stack.held /\ stack'.phase = stack.phase
      /\ stack'.step = stack.step /\ stack'.late = stack.late
      /\ stack.step \in 0..10 /\ stack.stage \in 1..11
  BY Zenon DEF StackType, RecordType
<1>3. Opened' /\ StillThere' /\ Gone'
  BY <1>2 DEF LifeInv, Opened, StillThere, Gone
<1>4. Alive'
  BY <1>1, <1>2 DEF LifeInv, Alive, Move, Threads, Users, Sweeps
<1>5. Quiet'
  BY <1>1, <1>2 DEF LifeInv, Quiet, Alive, Move, Threads, Users, Sweeps
<1>6. UsedWhileHeld'
  <2>1. CASE c = "op"
    <3>1. "service" \in stack.held
      BY <1>2, <2>1 DEF LifeInv, Alive, StillThere, Move, Users, Sweeps
    <3> QED
      BY <1>1, <1>2, <2>1, <3>1, Zenon DEF LifeInv, UsedWhileHeld, Threads, Users, Sweeps
  <2>2. CASE c = "keep"
    <3>1. "state" \in stack.held \/ stack.late
      BY <1>2, <2>2 DEF LifeInv, Alive, StillThere, Quiet, Move
    <3>2. InService' \subseteq InService
      BY <1>1, <2>2, Zenon DEF InService, Threads, Users, Sweeps
    <3> QED
      BY <1>1, <1>2, <2>2, <3>1, <3>2, Zenon DEF LifeInv, UsedWhileHeld, Threads, Users, Sweeps
  <2>3. CASE c \notin {"op", "keep"}
    <3>1. InService' \subseteq InService
      BY <1>1, <2>3, Zenon DEF InService, Threads, Users, Sweeps
    <3> QED
      BY <1>1, <1>2, <2>3, <3>1, Zenon DEF LifeInv, UsedWhileHeld, Threads, Users, Sweeps
  <2> QED
    BY <2>1, <2>2, <2>3, Zenon
<1> QED
  BY <1>3, <1>4, <1>5, <1>6, Zenon DEF LifeInv
-----------------------------------------------------------------------------
\* The steps that leave the worker's state and the browsers alone.
LEMMA ScreenStill ==
    ASSUME \/ CloseStep \/ CloseGivesUp \/ FinishShutdown \/ HostCloses \/ ContextCloses \/ HostCancels
           \/ OpenModelSide \/ OpenFails \/ OpenReturns \/ ServeReturns \/ ServeFails \/ WebServeReturns
           \/ WebServeFails \/ BackgroundFails \/ SweepStep \/ CallArrives \/ BeginHandler \/ CommandArrives
           \/ HandlerEnds \/ BeginOperation \/ EndOperation \/ TouchState \/ LoopStep \/ GoroutineEnds
    PROVE  screen' = screen
BY Zenon DEF CloseStep, CloseGivesUp, FinishShutdown, HostCloses, ContextCloses, HostCancels, OpenModelSide,
       OpenFails, OpenReturns, ServeReturns, ServeFails, WebServeReturns, WebServeFails, BackgroundFails,
       SweepStep, CallArrives, BeginHandler, CommandArrives, HandlerEnds, BeginOperation, EndOperation,
       TouchState, LoopStep, GoroutineEnds

\* The state changes, with or without a notice to follow, or the notice is given.
LEMMA ChangeFacts ==
    ASSUME ScreenType, Change \/ Notify \/ SaveDraftFails
    PROVE  /\ DOMAIN screen' = ScreenFields /\ screen'.view = screen.view /\ screen'.pump = screen.pump
           /\ screen'.version \in {screen.version, screen.version + 1}
           /\ screen'.owed # {} \/ screen'.pending \/ screen'.silent
           /\ stack' = stack /\ threads' = threads
<1> USE DEF ScreenType, ScreenFields
<1>1. CASE Change
  <2>1. PICK u : screen' = [screen EXCEPT !.version = screen.version + 1, !.owed = screen.owed \cup {u}]
    BY <1>1, Zenon DEF Change
  <2> QED
    BY <1>1, <2>1, Zenon DEF Change
<1>2. CASE Notify
  <2>1. PICK u : screen' = [screen EXCEPT !.owed = screen.owed \ {u}, !.pending = TRUE, !.silent = FALSE]
    BY <1>2, Zenon DEF Notify
  <2> QED
    BY <1>2, <2>1, Zenon DEF Notify
<1>3. CASE SaveDraftFails
  BY <1>3, Zenon DEF SaveDraftFails
<1> QED
  BY <1>1, <1>2, <1>3, Zenon

\* The pump takes the signal, passes it on to every stream, or ends.
LEMMA PumpFacts ==
    ASSUME ScreenType, Pump
    PROVE  /\ DOMAIN screen' = ScreenFields /\ screen'.version = screen.version /\ screen'.owed = screen.owed
           /\ screen'.silent = screen.silent /\ stack' = stack /\ threads' = threads /\ spend' = spend
           /\ screen.pump \in {"idle", "fanning"}
           /\ \/ screen'.pump = "fanning" /\ screen'.view = screen.view
              \/ /\ screen'.pump = "idle" /\ DOMAIN screen'.view = spend.browsers
                 /\ \A b \in spend.browsers :
                      /\ DOMAIN screen'.view[b] = ViewFields
                      /\ screen'.view[b].mode = screen.view[b].mode
                      /\ screen'.view[b].shown = screen.view[b].shown
                      /\ screen'.view[b].signal = (screen.view[b].mode # "off")
              \/ /\ screen'.pump = "done" /\ screen'.view = screen.view /\ screen'.pending = screen.pending
                 /\ screen.pump = "idle" /\ Stopping("web")
<1> USE DEF ScreenType, ScreenFields, ViewFields
<1>1. CASE screen.pump = "idle" /\ screen' = [screen EXCEPT !.pump = "fanning", !.pending = FALSE]
  BY <1>1, Zenon DEF Pump
<1>2. CASE screen.pump = "fanning" /\ screen' = FanOut
  BY <1>2, Zenon DEF Pump, FanOut
<1>3. CASE screen.pump = "idle" /\ Stopping("web") /\ screen' = [screen EXCEPT !.pump = "done"]
  BY <1>3, Zenon DEF Pump
<1> QED
  BY <1>1, <1>2, <1>3, Zenon DEF Pump

\* A browser's stream moves.
Streams(b, mode, shown, signal) ==
    /\ \A f \in ScreenFields \ {"view"} : screen'[f] = screen[f]
    /\ DOMAIN screen' = ScreenFields /\ DOMAIN screen'.view = spend.browsers
    /\ \A x \in spend.browsers \ {b} : screen'.view[x] = screen.view[x]
    /\ DOMAIN screen'.view[b] = ViewFields
    /\ screen'.view[b].mode = mode /\ screen'.view[b].shown = shown /\ screen'.view[b].signal = signal

\* One stream changes its mode.
LEMMA ViewFacts ==
    ASSUME ScreenType, NEW b \in spend.browsers, NEW mode, NEW signal, screen' = View(b, mode, signal)
    PROVE  Streams(b, mode, screen.view[b].shown, signal)
BY Zenon DEF ScreenType, ScreenFields, ViewFields, View, Streams

\* What a browser's step does to its stream: it begins to read, has read the state as
\* it is now, has sent it, or ends.
LEMMA StreamFacts ==
    ASSUME ScreenType, SubscribeStream \/ HandleEvents
    PROVE  /\ stack' = stack /\ threads' = threads
           /\ \E b \in spend.browsers :
                \/ /\ Streams(b, "reading", screen.view[b].shown, FALSE)
                   /\ \/ screen.view[b].mode # "off"
                      \/ threads["webserve"] = "on" /\ ~Stopping("web")
                \/ Streams(b, "sending", screen.version, screen.view[b].signal) /\ screen.view[b].mode # "off"
                \/ /\ Streams(b, "waiting", screen.view[b].shown, screen.view[b].signal)
                   /\ screen.view[b].mode = "sending"
                \/ Streams(b, "off", screen.view[b].shown, FALSE)
<1>1. CASE SubscribeStream
  BY <1>1, ViewFacts, Zenon DEF SubscribeStream
<1>2. CASE HandleEvents
  <2>1. PICK b \in spend.browsers :
          \/ WriteStateEvent(b)
          \/ screen.view[b].mode = "waiting" /\ screen' = View(b, "reading", FALSE)
          \/ screen' = View(b, "off", FALSE)
    BY <1>2, Zenon DEF HandleEvents
  <2>2. ASSUME screen.view[b].mode = "reading",
               screen' = [screen EXCEPT !.view[b].mode = "sending", !.view[b].shown = screen.version]
        PROVE  Streams(b, "sending", screen.version, screen.view[b].signal)
    BY <2>2, Zenon DEF ScreenType, ScreenFields, ViewFields, Streams
  <2>3. stack' = stack /\ threads' = threads
    BY <1>2, Zenon DEF HandleEvents
  <2> QED
    BY <2>1, <2>2, <2>3, ViewFacts, Zenon DEF WriteStateEvent
<1> QED
  BY <1>1, <1>2, Zenon

\* What the browsers are shown keeps its type in every step.
LEMMA ScreenStep ==
    ASSUME StackType, [StackNext]_stackVars
    PROVE  ScreenType'
<1>1. spend'.browsers = spend.browsers
  BY SpendStep, Zenon DEF StackType
<1>2. CASE screen' = screen
  BY <1>1, <1>2, Zenon DEF StackType, ScreenType
<1>3. CASE OpenHumanSide
  BY <1>1, <1>3, Zenon DEF OpenHumanSide, StackType, ScreenType, ScreenFields
<1>4. CASE Change \/ Notify \/ SaveDraftFails
  BY <1>1, <1>4, ChangeFacts DEF StackType, ScreenType
<1>5. CASE Pump
  BY <1>1, <1>5, PumpFacts, Zenon DEF StackType, ScreenType
<1>6. CASE SubscribeStream \/ HandleEvents
  <2>1. PICK b \in spend.browsers :
          /\ DOMAIN screen' = ScreenFields /\ DOMAIN screen'.view = spend.browsers
          /\ screen'.version = screen.version
          /\ \A x \in spend.browsers \ {b} : screen'.view[x] = screen.view[x]
          /\ DOMAIN screen'.view[b] = ViewFields
          /\ screen'.view[b].shown \in {screen.view[b].shown, screen.version}
    BY <1>6, StreamFacts, Zenon DEF StackType, Streams, ScreenFields
  <2> QED
    BY <1>1, <2>1, Zenon DEF StackType, ScreenType
<1> QED
  BY <1>2, <1>3, <1>4, <1>5, <1>6, ScreenStill, Zenon DEF StackNext, stackVars

\* Every step keeps the types.
LEMMA TypeStep ==
    ASSUME StackType, [StackNext]_stackVars
    PROVE  StackType'
BY SpendStep, ThreadsStep, RecordStep, ScreenStep, ZenonT(30) DEF StackType

\* The browsers' steps keep the life of the stack.
LEMMA BrowserLife ==
    ASSUME StackType, LifeInv, Change \/ Notify \/ SaveDraftFails \/ Pump \/ SubscribeStream \/ HandleEvents
    PROVE  LifeInv'
<1>1. spend'.browsers = spend.browsers
  BY SpendStep, Zenon DEF StackType, StackNext
<1>2. stack' = stack /\ threads' = threads
  BY ChangeFacts, PumpFacts, StreamFacts, Zenon DEF StackType
<1>3. /\ stack.stage <= 9 => screen'.pump = "off"
      /\ stack.step > 4 /\ ~stack.late => screen'.pump \in {"off", "done"}
  <2>1. CASE Pump
    BY <2>1, PumpFacts, Zenon DEF StackType, LifeInv, Alive, Quiet
  <2>2. CASE ~Pump
    <3>1. screen'.pump = screen.pump
      BY <2>2, ChangeFacts, StreamFacts, Zenon DEF StackType, Streams, ScreenFields
    <3> QED
      BY <3>1, Zenon DEF LifeInv, Alive, Quiet
  <2> QED
    BY <2>1, <2>2, Zenon
<1>4. ASSUME NEW b \in spend.browsers, screen'.view[b].mode # "off"
      PROVE  stack.stage > 10 /\ (stack.step <= 5 \/ stack.late)
  <2> stack.stage \in 1..11 /\ stack.step \in 0..10
    BY Zenon DEF StackType, RecordType
  <2>1. CASE screen.view[b].mode # "off"
    BY <2>1 DEF LifeInv, Alive, Quiet
  <2>2. CASE screen.view[b].mode = "off"
    <3>1. ~(Change \/ Notify \/ SaveDraftFails \/ Pump)
      BY <1>4, <2>2, ChangeFacts, PumpFacts, Zenon DEF StackType
    <3>2. threads["webserve"] = "on" /\ ~Stopping("web")
      BY <1>4, <2>2, <3>1, StreamFacts, Zenon DEF StackType, Streams
    <3> QED
      BY <3>2, Places DEF LifeInv, Alive, Stopping
  <2> QED
    BY <2>1, <2>2, Zenon
<1> QED
  BY <1>1, <1>2, <1>3, <1>4, SMTT(30) DEF LifeInv, Opened, StillThere, Gone, Alive, Quiet, UsedWhileHeld, InService,
                                StackType, RecordType

\* Every step keeps the life of the stack.
LEMMA LifeStep ==
    ASSUME StackType, LifeInv, [StackNext]_stackVars
    PROVE  LifeInv'
<1>1. spend'.browsers = spend.browsers
  BY SpendStep, ZenonT(30) DEF StackType
<1>2. CASE UNCHANGED stackVars
  BY <1>2, SMTT(30) DEF stackVars, LifeInv, Opened, StillThere, Gone, Alive, Quiet, UsedWhileHeld, InService
<1>3. CASE HostCancels
  <2>1. /\ stack'.stage = stack.stage /\ stack'.held = stack.held /\ stack'.phase = stack.phase
        /\ stack'.step = stack.step /\ stack'.late = stack.late /\ (stack.asked => stack'.asked)
        /\ screen' = screen
    BY <1>3, Interrupts, Zenon DEF StackType
  <2>2. threads' = threads
    BY <1>3, Zenon DEF HostCancels
  <2> QED
    BY <1>1, <2>1, <2>2, SMTT(30) DEF LifeInv, Opened, StillThere, Gone, Alive, Quiet, UsedWhileHeld, InService
<1>4. CASE ServeFails \/ BackgroundFails
  <2>1. /\ \A f \in {"stage", "held", "phase", "step", "late"} : stack'[f] = stack[f]
        /\ stack.asked => stack'.asked
        /\ screen' = screen
    BY <1>4, Interrupts, Zenon DEF StackType
  <2> QED
    BY <1>1, <1>4, <2>1, Moves, MoveLife, Zenon
<1>5. CASE \/ ServeReturns \/ WebServeReturns \/ WebServeFails \/ SweepStep \/ CallArrives \/ BeginHandler
           \/ CommandArrives \/ HandlerEnds \/ BeginOperation \/ EndOperation \/ TouchState \/ LoopStep
           \/ GoroutineEnds
  <2>1. stack' = stack /\ screen' = screen
    BY <1>5, StackStill, ScreenStill, Zenon
  <2> QED
    BY <1>1, <1>5, <2>1, Moves, MoveLife, Zenon
<1> QED
  BY <1>2, <1>3, <1>4, <1>5, CloseStepLife, GivesUpLife, FinishLife, BeginLife, FailLife, OpenLife, BrowserLife, Zenon
  DEF StackNext
-----------------------------------------------------------------------------
\* Every step keeps the reason for the end of the model server.
LEMMA ExplainedStep ==
    ASSUME StackType, Opened, Explained, [StackNext]_stackVars
    PROVE  Explained'
<1> DEFINE S == {"serve", "retention", "expiry", "webserve"}
<1> S \subseteq Threads
  BY Zenon DEF Threads, Users, Sweeps
<1> USE DEF StackType, Explained, StopIsExplained
<1> threads \in [Threads -> Conditions] /\ stack.step \in 0..10 /\ stack.stage \in 1..11
  BY Zenon DEF ThreadsType, RecordType
<1>1. ASSUME \A t \in S : threads'[t] = threads[t] \/ threads'[t] \notin {"failed", "done"},
             stack'.shut = stack.shut, stack'.err = stack.err, stack.asked => stack'.asked
      PROVE  Explained'
  BY <1>1, Zenon
<1>2. CASE CloseStep \/ CloseGivesUp \/ FinishShutdown \/ HostCloses \/ ContextCloses
  <2>1. stack'.shut = stack.shut /\ stack'.err = stack.err /\ (stack.asked => stack'.asked) /\ threads' = threads
    BY <1>2, Closes, GivesUp, Finishes, CloseBegins, ClosingFacts, Zenon DEF StackFields
  <2> QED
    BY <1>1, <2>1, Zenon
<1>3. CASE HostCancels
  BY <1>3, Zenon DEF HostCancels, RecordType, StackFields
<1>4. CASE OpenModelSide
  <2>1. stack'.shut = stack.shut /\ stack'.err = stack.err /\ stack'.asked = stack.asked
    BY <1>4, Opens, Zenon DEF RecordType, StackFields
  <2>2. \A t \in S : threads'[t] = threads[t] \/ threads'[t] \notin {"failed", "done"}
    BY <1>4, Zenon DEF OpenModelSide, Launched, Threads, Users, Sweeps
  <2> QED
    BY <1>1, <2>1, <2>2, Zenon
<1>5. CASE OpenHumanSide
  <2>1. stack'.shut = stack.shut /\ stack'.err = stack.err /\ stack'.asked = stack.asked
    BY <1>5, Opens, Zenon DEF RecordType, StackFields
  <2>2. \A t \in S : threads'[t] = threads[t] \/ threads'[t] \notin {"failed", "done"}
    BY <1>5, Zenon DEF OpenHumanSide, Threads, Users, Sweeps
  <2> QED
    BY <1>1, <2>1, <2>2
<1>6. CASE OpenFails \/ OpenReturns
  <2>1. stack'.shut = stack.shut /\ stack'.err = stack.err /\ (stack.asked => stack'.asked)
    BY <1>6, Fails, Zenon DEF StackFields
  <2>2. \A t \in S : threads'[t] = threads[t]
    BY <1>6, Zenon DEF OpenFails, OpenReturns
  <2> QED
    BY <1>1, <2>1, <2>2, Zenon
<1>7. CASE ServeReturns
  <2>1. stack.shut \/ stack.step > 0 \/ threads["serve"] = "failed"
    BY <1>7, Zenon DEF ServeReturns
  <2>2. stack.err # "none" \/ stack.asked
    BY <2>1, Zenon DEF Opened
  <2>3. stack' = stack /\ \A t \in S \ {"serve"} : threads'[t] = threads[t]
    BY <1>7, Zenon DEF ServeReturns, Becomes
  <2>4. threads'["serve"] = "done"
    BY <1>7, Zenon DEF ServeReturns, Becomes
  <2> QED
    BY <2>2, <2>3, <2>4, Zenon
<1>8. CASE ServeFails
  <2>1. stack'.err = "accept"
    BY <1>8, Zenon DEF ServeFails, RecordType, StackFields
  <2> QED
    BY <2>1, Zenon
<1>9. CASE BackgroundFails
  <2>1. PICK t \in Sweeps \cup {"webserve"} : failPublicBackground(t)
    BY <1>9, Zenon DEF BackgroundFails
  <2>2. CASE threads[t] = "failing"
    <3>1. stack'.err # "none"
      BY <2>1, <2>2, Zenon DEF failPublicBackground, RecordType, StackFields
    <3> QED
      BY <3>1, Zenon
  <2>3. CASE threads[t] = "failed"
    <3>1. stack.err # "none" /\ stack'.err = stack.err
      BY <2>1, <2>3, Zenon DEF failPublicBackground, RecordType, StackFields, Sweeps
    <3> QED
      BY <3>1, Zenon
  <2> QED
    BY <2>1, <2>2, <2>3, Zenon DEF failPublicBackground
<1>10. CASE WebServeReturns \/ WebServeFails
  <2>1. \A t \in S \ {"webserve"} : threads'[t] = threads[t]
    BY <1>10, Zenon DEF WebServeReturns, WebServeFails, Becomes
  <2>2. stack' = stack /\ threads'["webserve"] \in {"done", "failing"}
    BY <1>10, Zenon DEF WebServeReturns, WebServeFails, Becomes
  <2> QED
    BY <2>1, <2>2, Zenon
<1>11. CASE SweepStep
  <2>1. PICK s \in Sweeps : Sweep(s)
    BY <1>11, Zenon DEF SweepStep
  <2>2. PICK c \in {"run", "idle", "done", "failing"} : Becomes(s, c)
    BY <2>1, Zenon DEF Sweep
  <2>3. stack' = stack /\ threads'["serve"] = threads["serve"] /\ \A t \in S : threads'[t] \in {threads[t], c}
    BY <1>11, <2>2, Zenon DEF SweepStep, Becomes, Sweeps
  <2> QED
    BY <2>3, Zenon
<1>12. CASE \/ CallArrives \/ BeginHandler \/ CommandArrives \/ HandlerEnds \/ TouchState \/ LoopStep \/ GoroutineEnds
  <2>1. stack' = stack /\ \A t \in S : threads'[t] = threads[t]
    BY <1>12, Zenon DEF CallArrives, BeginHandler, CommandArrives, HandlerEnds, TouchState, LoopStep, GoroutineEnds, Becomes
  <2> QED
    BY <1>1, <2>1, Zenon
<1>13. CASE BeginOperation \/ EndOperation
  <2>1. PICK u \in Users : Becomes(u, "op") \/ Becomes(u, "run")
    BY <1>13, Zenon DEF BeginOperation, EndOperation
  <2>2. \A t \in S : threads'[t] \in {threads[t], "op", "run"}
    BY <2>1, Zenon DEF Becomes
  <2>3. stack' = stack
    BY <1>13, Zenon DEF BeginOperation, EndOperation
  <2> QED
    BY <1>1, <2>2, <2>3, Zenon
<1>14. CASE \/ Change \/ Notify \/ SaveDraftFails \/ Pump \/ SubscribeStream \/ HandleEvents \/ UNCHANGED stackVars
  <2>1. stack' = stack /\ threads' = threads
    BY <1>14, ChangeFacts, PumpFacts, StreamFacts, Zenon DEF stackVars
  <2> QED
    BY <1>1, <2>1, Zenon
<1> QED
  BY <1>2, <1>3, <1>4, <1>5, <1>6, <1>7, <1>8, <1>9, <1>10, <1>11, <1>12, <1>13, <1>14, Zenon DEF StackNext
-----------------------------------------------------------------------------
\* How Open ends when it fails: at its first stage with nothing to undo, and
\* otherwise with the Close it called.
Ends ==
    /\ stack.step > 0 => stack.stage > 1
    /\ stack.phase = "failing" => stack.step > 0
    /\ stack.phase = "failed" => stack.stage = 1 \/ stack.step = 10

\* A step of Close moves it forward.
LEMMA CloseAdvances ==
    ASSUME RecordType, CloseStep \/ CloseGivesUp
    PROVE  stack'.stage = stack.stage /\ stack.step \in 1..9 /\ stack'.step > stack.step
<1>1. CASE CloseStep
  <2>1. /\ stack'.stage = stack.stage /\ stack.step \in 1..9
        /\ stack.step = 1 => stack'.step \in {2, 3}
        /\ stack.step > 1 => stack'.step = stack.step + 1
    BY <1>1, Closes, Zenon
  <2> QED
    BY <2>1
<1>2. CASE CloseGivesUp
  <2>1. stack'.stage = stack.stage /\ stack.step \in 1..9 /\ stack'.step = stack.step + 1
    BY <1>2, GivesUp, Zenon
  <2> QED
    BY <2>1
<1> QED
  BY <1>1, <1>2, Zenon

\* Only the last step of Close turns a failing Open into a failed one.
LEMMA ClosePhase ==
    ASSUME RecordType, CloseStep \/ CloseGivesUp
    PROVE  stack'.phase = stack.phase \/ (stack'.phase = "failed" /\ stack'.step = 10)
<1> USE DEF RecordType, StackFields
<1>1. CASE CloseModelServer
  BY <1>1, Zenon DEF CloseModelServer
<1>2. CASE \E held : stack' = [Advance(stack, stack.step + 1) EXCEPT !.held = held]
  BY <1>2, Places DEF Advance
<1>3. CASE \E held : stack' = [Advance(stack, stack.step + 1) EXCEPT !.late = TRUE, !.held = held]
  BY <1>3, Places DEF Advance
<1> QED
  BY <1>1, <1>2, <1>3, Zenon DEF CloseStep, CloseGivesUp

\* Every step keeps how Open ends.
LEMMA EndsStep ==
    ASSUME RecordType, Opened, Ends, [StackNext]_stackVars
    PROVE  Ends'
<1> stack.step \in 0..10 /\ stack'.step \in 0..10 /\ stack.stage \in 1..11 /\ stack'.stage \in 1..11
  BY RecordStep, Zenon DEF RecordType
<1>1. CASE stack' = stack
  BY <1>1, Zenon DEF Ends
<1>2. CASE CloseStep \/ CloseGivesUp
  <2>1. stack'.stage = stack.stage /\ stack.step \in 1..9 /\ stack'.step > 0
    BY <1>2, CloseAdvances
  <2> QED
    BY <1>2, <2>1, ClosePhase DEF Ends
<1>3. CASE FinishShutdown
  BY <1>3, Finishes, Zenon DEF Ends, StackFields
<1>4. CASE HostCloses \/ ContextCloses
  <2>1. stack'.step = 1 /\ stack'.phase = stack.phase /\ stack'.stage = stack.stage /\ stack.phase = "ready"
    BY <1>4, CloseBegins, ClosingFacts, Zenon DEF StackFields
  <2> QED
    BY <2>1 DEF Ends, Opened
<1>5. CASE OpenModelSide \/ OpenHumanSide
  <2>1. stack'.step = stack.step /\ stack'.phase = "opening"
    BY <1>5, Opens, Zenon DEF RecordType, StackFields
  <2>2. stack.phase = "opening"
    BY <1>5, Opens, Zenon
  <2> QED
    BY <2>1, <2>2 DEF Ends, Opened
<1>6. CASE OpenFails \/ OpenReturns
  <2>1. stack'.stage = stack.stage /\ stack.phase = "opening"
    BY <1>6, Fails, Zenon DEF StackFields
  <2>2. stack.step = 0
    BY <2>1, Zenon DEF Opened
  <2>3. \/ stack.stage = 1 /\ stack'.phase = "failed" /\ stack'.step = stack.step
        \/ stack.stage > 1 /\ stack'.phase = "failing" /\ stack'.step = 1
        \/ stack'.phase = "ready" /\ stack'.step = stack.step
    BY <1>6, Fails, Zenon
  <2> QED
    BY <2>1, <2>2, <2>3 DEF Ends
<1>7. CASE HostCancels \/ ServeFails \/ BackgroundFails
  BY <1>7, Interrupts, Zenon DEF Ends
<1> QED
  BY <1>1, <1>2, <1>3, <1>4, <1>5, <1>6, <1>7, StackStill, Zenon DEF StackNext, stackVars

\* Close only goes forward.
LEMMA StepGrows ==
    ASSUME RecordType, Opened, [StackNext]_stackVars
    PROVE  stack.step >= 4 => stack'.step >= 4
<1> stack.step \in 0..10 /\ stack'.step \in 0..10
  BY RecordStep, Zenon DEF RecordType
<1>1. CASE stack' = stack
  BY <1>1, Zenon
<1>2. CASE CloseStep \/ CloseGivesUp
  BY <1>2, CloseAdvances
<1>3. CASE FinishShutdown
  BY <1>3, Finishes, Zenon DEF StackFields
<1>4. CASE HostCloses \/ ContextCloses
  BY <1>4, CloseBegins
<1>5. CASE OpenModelSide \/ OpenHumanSide
  BY <1>5, Opens, Zenon DEF RecordType, StackFields
<1>6. CASE OpenFails \/ OpenReturns
  <2>1. stack.phase = "opening"
    BY <1>6, Fails, Zenon
  <2> QED
    BY <2>1 DEF Opened
<1>7. CASE HostCancels \/ ServeFails \/ BackgroundFails
  BY <1>7, Interrupts, Zenon
<1> QED
  BY <1>1, <1>2, <1>3, <1>4, <1>5, <1>6, <1>7, StackStill, Zenon DEF StackNext, stackVars

\* Every step keeps the promise to the browsers: what a step takes from one place on
\* the way of a signal it puts into the next.
LEMMA ToldStep ==
    ASSUME StackType, Opened, Alive, NoMissedState, [StackNext]_stackVars
    PROVE  NoMissedState'
<1> USE DEF StackType
<1>1. spend'.browsers = spend.browsers
  BY SpendStep, Zenon
<1>2. Stopping("web") => Stopping("web")'
  BY StepGrows, Places, Zenon DEF Stopping
<1>3. CASE screen' = screen
  BY <1>1, <1>2, <1>3, Zenon DEF NoMissedState
<1>4. CASE OpenHumanSide
  <2>1. \A b \in spend.browsers : screen.view[b].mode = "off"
    BY <1>4, Opens DEF Alive
  <2>2. screen'.view = screen.view
    BY <1>4, Zenon DEF OpenHumanSide, ScreenType, ScreenFields
  <2> QED
    BY <1>1, <2>1, <2>2, Zenon DEF NoMissedState
<1>5. CASE Change \/ Notify \/ SaveDraftFails
  BY <1>5, ChangeFacts, Zenon DEF NoMissedState
<1>6. CASE Pump
  <2>1. stack' = stack
    BY <1>6, PumpFacts, Zenon
  <2>2. CASE screen'.pump = "fanning"
    BY <2>2, Zenon DEF NoMissedState
  <2>3. CASE Stopping("web")
    BY <1>2, <2>3, Zenon DEF NoMissedState
  <2>4. CASE \A b \in spend.browsers : screen'.view[b].signal = (screen.view[b].mode # "off")
                                       /\ screen'.view[b].mode = screen.view[b].mode
    BY <1>1, <2>4, Zenon DEF NoMissedState
  <2> QED
    BY <1>6, <2>2, <2>3, <2>4, PumpFacts, Zenon
<1>7. CASE SubscribeStream \/ HandleEvents
  <2>1. PICK b \in spend.browsers :
          \/ Streams(b, "reading", screen.view[b].shown, FALSE)
          \/ Streams(b, "sending", screen.version, screen.view[b].signal)
          \/ /\ Streams(b, "waiting", screen.view[b].shown, screen.view[b].signal)
             /\ screen.view[b].mode = "sending"
          \/ Streams(b, "off", screen.view[b].shown, FALSE)
    BY <1>7, StreamFacts, Zenon
  <2>2. /\ screen'.version = screen.version /\ screen'.pending = screen.pending /\ screen'.pump = screen.pump
        /\ screen'.owed = screen.owed /\ screen'.silent = screen.silent
        /\ \A x \in spend.browsers \ {b} : screen'.view[x] = screen.view[x]
    BY <2>1, Zenon DEF Streams, ScreenFields
  <2>3. \/ screen'.view[b].mode \in {"reading", "off"}
        \/ screen'.view[b].shown = screen.version
        \/ /\ screen'.view[b].shown = screen.view[b].shown /\ screen'.view[b].signal = screen.view[b].signal
           /\ screen.view[b].mode = "sending"
    BY <2>1, Zenon DEF Streams
  <2>4. screen.version \in Nat
    BY Zenon DEF ScreenType
  <2> QED
    BY <1>1, <1>2, <2>2, <2>3, <2>4, SMTT(30) DEF NoMissedState
<1> QED
  BY <1>3, <1>4, <1>5, <1>6, <1>7, ScreenStill, Zenon DEF StackNext, stackVars
-----------------------------------------------------------------------------
\* Everything the proofs rest on, in one invariant.
StackInv == StackType /\ LifeInv /\ Ends /\ Explained /\ NoMissedState

\* Before Open has done anything all of it holds.
LEMMA StackStarts == StackInit => StackInv
<1> SUFFICES ASSUME StackInit PROVE StackInv
  BY Zenon
<1>1. SpendType
  BY ScenesAreBudgets, Zenon DEF StackInit, SpendType
<1>2. /\ DOMAIN stack = StackFields /\ stack.stage = 1 /\ stack.held = {} /\ stack.phase = "opening"
      /\ stack.step = 0 /\ stack.shut = FALSE /\ stack.err = "none" /\ stack.late = FALSE
  BY Zenon DEF StackInit, StackFields
<1>3. threads = [t \in Threads |-> "off"]
  BY Zenon DEF StackInit, Threads
<1>4. /\ DOMAIN screen = ScreenFields /\ screen.version = 0 /\ screen.pump = "off"
      /\ DOMAIN screen.view = spend.browsers
      /\ \A b \in spend.browsers : /\ DOMAIN screen.view[b] = ViewFields
                                   /\ screen.view[b].mode = "off" /\ screen.view[b].shown = 0
  BY Zenon DEF StackInit, ScreenFields, ViewFields
<1>5. \A t \in Threads : threads[t] = "off"
  BY <1>3, Zenon
<1>6. StackType
  BY <1>1, <1>2, <1>3, <1>4, SMTT(30) DEF StackType, RecordType, ThreadsType, ScreenType, Conditions
<1>7. Opened /\ StillThere /\ Gone /\ Ends
  BY <1>2 DEF Opened, StillThere, Gone, Ends
<1>8. Alive
  BY <1>2, <1>4, <1>5, SMTT(30) DEF Alive, Threads, Users, Sweeps
<1>9. Quiet
  BY <1>2, <1>5 DEF Quiet
<1>10. UsedWhileHeld
  BY <1>5, Zenon DEF UsedWhileHeld, InService, Threads, Users
<1>11. Explained
  BY <1>2, <1>5, Zenon DEF Explained, StopIsExplained, Threads, Users, Sweeps
<1>12. NoMissedState
  BY <1>4, Zenon DEF NoMissedState
<1> QED
  BY <1>6, <1>7, <1>8, <1>9, <1>10, <1>11, <1>12, Zenon DEF StackInv, LifeInv

\* Every step keeps it.
LEMMA StackKept == StackInv /\ [StackNext]_stackVars => StackInv'
BY TypeStep, LifeStep, EndsStep, ExplainedStep, ToldStep, Zenon DEF StackInv, LifeInv, StackType

\* Where Close has passed everything in time, or Open failed at its first stage,
\* nothing is left; what is awaited was started.
LEMMA LifeIsClean == StackInv => CloseIsClean
<1> SUFFICES ASSUME StackInv PROVE CloseIsClean
  BY Zenon
<1> USE DEF StackInv, LifeInv
<1> stack.step \in 0..10 /\ stack.stage \in 1..11
  BY Zenon DEF StackType, RecordType
<1>1. AwaitedWasStarted
  BY Places DEF AwaitedWasStarted, Stopping, Opened, Alive
<1>2. UsedWhileHeld
  BY Zenon
<1>3. ASSUME Returned, ~stack.late
      PROVE  stack.held = {}
  BY <1>3, Places, SMTT(30) DEF Returned, Gone, StackType, RecordType, Names
<1>4. ASSUME Returned, ~stack.late
      PROVE  /\ \A t \in {"serve", "call", "command", "loop", "watch", "dispatch"} : Idle(t)
             /\ screen.pump \in {"off", "done"}
             /\ \A b \in spend.browsers : screen.view[b].mode = "off"
  BY <1>4, Places DEF Returned, Quiet, Idle
<1>5. ASSUME stack.phase = "failed", ~Returned
      PROVE  stack.stage = 1
  BY <1>5, Places, Zenon DEF Ends, Returned
<1>6. ASSUME stack.stage = 1
      PROVE  stack.held = {}
  BY <1>6 DEF Opened, StackType, RecordType, Names
<1>7. ASSUME stack.stage = 1
      PROVE  /\ \A t \in {"serve", "call", "command", "loop", "watch", "dispatch"} : Idle(t)
             /\ screen.pump \in {"off", "done"}
             /\ \A b \in spend.browsers : screen.view[b].mode = "off"
  BY <1>7 DEF Alive, Idle
<1> QED
  BY <1>1, <1>2, <1>3, <1>4, <1>5, <1>6, <1>7, Zenon DEF CloseIsClean, NothingLeaks

\* Whatever stage of Open fails, whoever calls Close and whatever is at work then:
\* once Close has returned in time nothing is held and nothing runs, the stores
\* outlive their users, and Close awaits only what was started.
THEOREM ClosesClean == StackSpec => []CloseIsClean
<1>1. StackSpec => []StackInv
  BY StackStarts, StackKept, PTL DEF StackSpec
<1> QED
  BY <1>1, LifeIsClean, PTL

\* The model server never stops without a reason for Wait to return, and a browser
\* whose page is behind the worker's state has a signal on its way.
THEOREM EveryoneIsTold == StackSpec => []NobodyInTheDark
<1>1. StackSpec => []StackInv
  BY StackStarts, StackKept, PTL DEF StackSpec
<1>2. StackInv => NobodyInTheDark
  BY Zenon DEF StackInv, Explained, NobodyInTheDark
<1> QED
  BY <1>1, <1>2, PTL
=============================================================================
