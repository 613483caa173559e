---------------------------- MODULE LocalRestore ----------------------------
(***************************************************************************)
(* The offline restore and backup of `human local` (internal/humancmd)     *)
(* and their exclusion of a running local (local/local.go, ownerlock).     *)
(* A restore stages every component of the local state set beside its      *)
(* target, publishes a journal, renames old out and new in, validates the  *)
(* installed set, removes the old one and then the journal.  Any process   *)
(* may die between two file operations, and a power loss may also undo     *)
(* the renames of a directory that was not yet synced.                     *)
(*                                                                         *)
(* "wal" stands for the SQLite sidecars, which the archive never holds.    *)
(* `human local` mints its credential before it takes any lock.            *)
(***************************************************************************)
EXTENDS Integers, Sequences, FiniteSets

CONSTANTS Crew,            \* the processes a user may start
          RestoreScenes    \* instances: components, old set, archive, budgets

VARIABLES parts,     \* component -> what its target, staged and previous paths hold
          durable,   \* component -> the path states a power loss may leave
          home,      \* the same for the directory of the service database and the journal
          log,       \* the restore journal: phase and the components that had a target
          guards,    \* owner lock -> the process that holds it, 0 when free
          crew,      \* process -> its command and where it stands
          archive,   \* what the last backup holds
          trial,     \* the instance and what is left of its budgets
          tx         \* history of the current restore (only properties read it)

restoreVars == <<parts, durable, home, log, guards, crew, archive, trial, tx>>

NoLog == [phase |-> "none", had |-> {}]
Off == [job |-> "none", at |-> "off", i |-> 0, had |-> {}, draft |-> {},
        bad |-> FALSE, reset |-> FALSE]
NoTx == [begun |-> FALSE, before |-> <<>>, cleaned |-> FALSE, regret |-> FALSE,
         done |-> "no", refused |-> FALSE, minted |-> FALSE,
         intruded |-> FALSE, probed |-> FALSE]

Order == trial.order
Parts == {Order[i] : i \in DOMAIN Order}
Present(c) == c \in trial.present
New(c) == IF Present(c) THEN "new" ELSE "none"
Home == {"service", "wal"}    \* the database, its sidecars and the journal share a directory
Guards == <<"service", "state">>

RestoreInit ==
  \E scene \in RestoreScenes :
    /\ trial = scene
    /\ parts = [c \in {scene.order[i] : i \in DOMAIN scene.order} |->
                  [target |-> IF c \in scene.old THEN "old" ELSE "none",
                   staged |-> "none", previous |-> "none"]]
    /\ durable = [c \in DOMAIN parts \ Home |-> {parts[c]}]
    /\ log = NoLog
    /\ home = {[log |-> NoLog, paths |-> [c \in Home |-> parts[c]]]}
    /\ guards = [g \in {"service", "state"} |-> 0]
    /\ crew = [p \in Crew |-> Off]
    /\ archive = {}
    /\ tx = NoTx

-----------------------------------------------------------------------------
(* File operations.  Changes of one directory reach the disk in order, and  *)
(* all of them by the next sync; different directories are independent.    *)

HomePaths == [c \in Home |-> parts[c]]

Touch(c, paths) ==
  /\ parts' = [parts EXCEPT ![c] = paths]
  /\ IF c \in Home
     THEN /\ home' = home \cup {[log |-> log, paths |-> [HomePaths EXCEPT ![c] = paths]]}
          /\ UNCHANGED durable
     ELSE durable' = [durable EXCEPT ![c] = @ \cup {paths}] /\ UNCHANGED home

Flush(c, paths) ==
  IF c \in Home
  THEN home' = {[log |-> log, paths |-> [HomePaths EXCEPT ![c] = paths]]} /\ UNCHANGED durable
  ELSE durable' = [durable EXCEPT ![c] = {paths}] /\ UNCHANGED home

\* a change with the sync that follows it
Settle(c, paths) ==
  /\ parts' = [parts EXCEPT ![c] = paths]
  /\ Flush(c, paths)

syncDirectory(c) == Flush(c, parts[c])
SyncLog == home' = {[log |-> log, paths |-> HomePaths]}

WriteLog(value) ==
  /\ log' = value
  /\ home' = home \cup {[log |-> value, paths |-> HomePaths]}

\* os.RemoveAll of the mirror directory is not atomic.
RemoveAll(c, held) == IF c = "mirror" /\ held \notin {"none", "part"} THEN "part" ELSE "none"

Stage(c, paths) == [paths EXCEPT !.staged = New(c), !.previous = "none"]
Park(paths) == [paths EXCEPT !.previous = paths.target, !.target = "none"]
Install(paths) == [paths EXCEPT !.target = paths.staged, !.staged = "none"]
Unpark(paths) == [paths EXCEPT !.target = paths.previous, !.previous = "none"]

Stands(p, jobs, at) == crew[p].job \in jobs /\ crew[p].at = at
Moves(p, at, i) == crew' = [crew EXCEPT ![p].at = at, ![p].i = i]
Quit(p) ==
  /\ crew' = [crew EXCEPT ![p] = Off]
  /\ guards' = [g \in DOMAIN guards |-> IF guards[g] = p THEN 0 ELSE guards[g]]

Files == <<parts, durable, home>>
Paths == <<parts, durable>>
Still == <<archive, trial>>

-----------------------------------------------------------------------------
(* Commands and owner locks.                                               *)

Commands == {"restore", "resume", "backup"}

StartCommand(p) ==
  \E job \in trial.jobs, reset \in BOOLEAN :
    /\ crew[p] = Off /\ trial.starts > 0
    /\ reset => job = "local"
    /\ crew' = [crew EXCEPT ![p] =
         [Off EXCEPT !.job = job, !.at = IF job = "local" THEN "token" ELSE "lock",
                     !.i = 1, !.reset = reset]]
    /\ trial' = [trial EXCEPT !.starts = @ - 1]
    /\ UNCHANGED <<Files, log, guards, archive, tx>>

\* ownerlock.Acquire never waits: a held lock ends the command, which gives
\* back what it already holds.
Acquire(p, g, at, i) ==
  IF guards[g] # 0
  THEN Quit(p)
  ELSE /\ guards' = [guards EXCEPT ![g] = p]
       /\ Moves(p, at, i)

acquireStoppedPublicLocal(p) ==
  /\ Stands(p, Commands, "lock")
  /\ LET i == crew[p].i
     IN  Acquire(p, Guards[i], IF i = 2 THEN "check" ELSE "lock", IF i = 2 THEN 1 ELSE 2)
  /\ UNCHANGED <<Files, log, Still, tx>>

rejectPendingLocalRestore(job) == job # "resume" /\ log.phase # "none"

\* Where a command goes once it holds its locks; --resume reads the journal.
FirstStep(job) ==
  CASE job = "restore" -> "verify"
    [] job = "backup" -> "copy"
    [] OTHER -> IF log.phase = "installing" THEN "install" ELSE "rollback"

CheckJournal(p) ==
  /\ Stands(p, Commands, "check")
  /\ LET job == crew[p].job
     IN  IF rejectPendingLocalRestore(job) \/ (job = "resume" /\ log.phase = "none")
         THEN Quit(p)
         ELSE /\ Moves(p, FirstStep(job), IF FirstStep(job) = "rollback" THEN Len(Order) ELSE 1)
              /\ UNCHANGED guards
  /\ UNCHANGED <<Files, log, Still, tx>>

-----------------------------------------------------------------------------
(* restore: stage, journal, install, validate, clean up.                   *)

\* The archive is read to its end into a private directory and checked: its
\* manifest, modes, sizes, digests, databases, credential and identities.  An
\* archive that fails ends the command before it touches the set.
extractAndVerifyPublicLocalBackup(p) ==
  /\ Stands(p, {"restore"}, "verify")
  /\ \/ Moves(p, "prepare", 1) /\ UNCHANGED guards
     \/ Quit(p)
  /\ UNCHANGED <<Files, log, Still, tx>>

inspectRestoreTarget(c) == parts[c].target # "none"

\* Every present component is copied beside its target and synced.  A target that holds data needs --force.  Any
\* failure removes the stages and changes nothing else.
preparePublicLocalRestore(p) ==
  /\ Stands(p, {"restore"}, "prepare")
  /\ \/ /\ trial.force \/ \A c \in Parts : ~inspectRestoreTarget(c)
        /\ parts' = [c \in Parts |-> Stage(c, parts[c])]
        /\ durable' = [c \in DOMAIN durable |-> {Stage(c, paths) : paths \in durable[c]}]
        /\ home' = {[h EXCEPT !.paths = [c \in Home |-> Stage(c, h.paths[c])]] : h \in home}
        /\ crew' = [crew EXCEPT ![p].at = "publish", ![p].had = {c \in Parts : inspectRestoreTarget(c)}]
        /\ tx' = [NoTx EXCEPT !.begun = TRUE, !.before = [c \in Parts |-> parts[c].target]]
        /\ UNCHANGED guards
     \/ /\ Quit(p)
        /\ UNCHANGED <<Files, tx>>
  /\ UNCHANGED <<log, Still>>

\* os.Link of the synced temporary: the journal appears whole or not at all.
writeLocalRestoreJournal(p) ==
  /\ Stands(p, {"restore"}, "publish")
  /\ WriteLog([phase |-> "installing", had |-> crew[p].had])
  /\ Moves(p, "published", 1)
  /\ UNCHANGED <<Paths, guards, Still, tx>>

SyncJournal(p) ==
  /\ crew[p].at = "published"
  /\ SyncLog
  /\ Moves(p, "install", 1)
  /\ UNCHANGED <<Paths, log, guards, Still, tx>>

matchesRestoreDigest(c) == parts[c].target = New(c)

\* mutant: the new file is renamed over the old one
EntryMoveOver(c) ==
  IF ~Present(c) THEN IF parts[c].target # "none" THEN "park" ELSE "next"
  ELSE IF parts[c].staged # "none" THEN "rename" ELSE "next"

\* What installLocalRestoreEntry does first with the paths it finds.
EntryMove(c) ==
  LET paths == parts[c]
      target == paths.target # "none"
      previous == paths.previous # "none"
      staged == paths.staged # "none"
      had == c \in log.had
  IN  IF ~Present(c)
      THEN CASE previous /\ target -> "refuse"
             [] ~previous /\ target -> IF had THEN "park" ELSE "refuse"
             [] OTHER -> "next"
      ELSE CASE staged /\ target /\ ~previous /\ had -> "park"
             [] staged /\ target /\ (previous \/ ~had) ->
                  IF matchesRestoreDigest(c) THEN "drop" ELSE "refuse"
             [] staged /\ ~target -> "rename"
             [] OTHER -> IF target /\ matchesRestoreDigest(c) THEN "next" ELSE "refuse"

Here(p) == Order[crew[p].i]
NextEntry(p) ==
  IF crew[p].i = Len(Order) THEN Moves(p, "validate", 1) ELSE Moves(p, "install", crew[p].i + 1)

installLocalRestoreEntry(p) ==
  /\ crew[p].at = "install"
  /\ LET c == Here(p)
         move == EntryMove(c)
     IN  \/ /\ move = "refuse"
            /\ Quit(p)
            /\ tx' = [tx EXCEPT !.refused = TRUE]
            /\ UNCHANGED Files
         \/ /\ move = "park"
            /\ Touch(c, Park(parts[c]))
            /\ Moves(p, IF Present(c) THEN "rename" ELSE "sync", crew[p].i)
            /\ UNCHANGED <<guards, tx>>
         \/ /\ move = "rename"
            /\ Moves(p, "rename", crew[p].i)
            /\ UNCHANGED <<Files, guards, tx>>
         \/ /\ move \in {"drop", "next"}
            /\ Touch(c, [parts[c] EXCEPT !.staged = "none"])
            /\ NextEntry(p)
            /\ UNCHANGED <<guards, tx>>
  /\ UNCHANGED <<log, Still>>

\* the second rename of an entry, whatever appeared at the target meanwhile
RenameStaged(p) ==
  /\ crew[p].at = "rename"
  /\ Touch(Here(p), Install(parts[Here(p)]))
  /\ Moves(p, "sync", crew[p].i)
  /\ UNCHANGED <<log, guards, Still, tx>>

SyncEntry(p) ==
  /\ crew[p].at = "sync"
  /\ syncDirectory(Here(p))
  /\ NextEntry(p)
  /\ UNCHANGED <<parts, log, guards, Still, tx>>

\* validateInstalledPublicLocalRestore: an unreadable file, a failed SQLite
\* check or a canceled context counts like a wrong digest.
validateInstalled(p) ==
  /\ crew[p].at = "validate"
  /\ \/ /\ \A c \in Parts : matchesRestoreDigest(c)
        /\ Moves(p, "clean", 1)
        /\ tx' = [tx EXCEPT !.cleaned = TRUE]
        /\ UNCHANGED trial
     \/ /\ \E c \in Parts : ~matchesRestoreDigest(c)
        /\ Moves(p, "undo", 1)
        /\ tx' = [tx EXCEPT !.regret = tx.cleaned]
        /\ UNCHANGED trial
     \/ /\ trial.faults > 0
        /\ Moves(p, "undo", 1)
        /\ tx' = [tx EXCEPT !.regret = tx.cleaned]
        /\ trial' = [trial EXCEPT !.faults = @ - 1]
  /\ UNCHANGED <<Files, log, guards, archive>>

\* the old component is removed, then its directory is synced
RemovePrevious(p) ==
  /\ crew[p].at = "clean"
  /\ LET c == Here(p)
     IN  IF parts[c].previous # "none"
         THEN /\ Touch(c, [parts[c] EXCEPT !.previous = RemoveAll(c, parts[c].previous)])
              /\ UNCHANGED crew
         ELSE /\ syncDirectory(c) /\ UNCHANGED parts
              /\ IF crew[p].i = Len(Order) THEN Moves(p, "forget", 1) ELSE Moves(p, "clean", crew[p].i + 1)
  /\ UNCHANGED <<log, guards, Still, tx>>

RemoveJournal(p) ==
  /\ crew[p].at = "forget"
  /\ WriteLog(NoLog)
  /\ Moves(p, "forgotten", crew[p].i)
  /\ UNCHANGED <<Paths, guards, Still, tx>>

Finish(p) ==
  /\ crew[p].at = "forgotten"
  /\ SyncLog
  /\ Quit(p)
  /\ tx' = [tx EXCEPT !.done = IF crew[p].i = 0 THEN "undone" ELSE "restored"]
  /\ UNCHANGED <<Paths, log, Still>>

-----------------------------------------------------------------------------
(* Rolling back after a failed validation.                                 *)

replaceLocalRestoreJournal(p) ==
  /\ crew[p].at = "undo"
  /\ WriteLog([log EXCEPT !.phase = "rolling_back"])
  /\ Moves(p, "undoing", 1)
  /\ UNCHANGED <<Paths, guards, Still, tx>>

SyncPhase(p) ==
  /\ crew[p].at = "undoing"
  /\ SyncLog
  /\ Moves(p, "rollback", Len(Order))
  /\ UNCHANGED <<Paths, log, guards, Still, tx>>

\* After the first entry: the journal goes only when every entry is back.
EntryBack(p, bad) ==
  IF crew[p].i > 1
  THEN /\ crew' = [crew EXCEPT ![p].at = "rollback", ![p].i = @ - 1, ![p].bad = bad]
       /\ UNCHANGED guards
  ELSE IF bad THEN Quit(p)
  ELSE Moves(p, "forget", 0) /\ UNCHANGED guards

\* mutant: an entry that was never there is left installed
UndoPlanKeepsNew(c) == IF parts[c].previous # "none" THEN "untarget" ELSE "unstage"

\* rollbackLocalRestoreEntry looks at the paths once
UndoPlan(c) ==
  IF parts[c].previous # "none" THEN "untarget"
  ELSE IF c \notin log.had /\ Present(c) /\ parts[c].staged = "none" THEN "unput"
  ELSE "unstage"

rollbackLocalRestoreEntry(p) ==
  /\ LET c == Here(p)
         paths == parts[c]
     IN  \/ /\ crew[p].at = "rollback"
            /\ Moves(p, UndoPlan(c), crew[p].i)
            /\ UNCHANGED <<Files, guards>>
         \/ /\ crew[p].at \in {"untarget", "unput"}
            /\ IF paths.target # "none"
               THEN Touch(c, [paths EXCEPT !.target = RemoveAll(c, paths.target)]) /\ UNCHANGED crew
               ELSE /\ Moves(p, "unstage", crew[p].i)
                    /\ IF crew[p].at = "untarget" THEN Touch(c, Unpark(paths)) ELSE UNCHANGED Files
            /\ UNCHANGED guards
         \/ /\ crew[p].at = "unstage"
            /\ Settle(c, [paths EXCEPT !.staged = "none"])
            /\ EntryBack(p, crew[p].bad)
  /\ UNCHANGED <<log, Still, tx>>

\* an entry that cannot be moved back does not stop the others
RollbackEntryFails(p) ==
  /\ crew[p].at \in {"untarget", "unput", "unstage"} /\ trial.faults > 0
  /\ EntryBack(p, TRUE)
  /\ trial' = [trial EXCEPT !.faults = @ - 1]
  /\ UNCHANGED <<Files, log, archive, tx>>

-----------------------------------------------------------------------------
(* backup: copies every component under the same locks.                    *)

\* VACUUM INTO absorbs what the sidecars hold.
Snapshot(c) == IF c = "wal" THEN {} ELSE {<<c, parts[c].target>>}

\* A missing database or credential ends the command, a missing mirror is
\* archived as empty.
createPublicLocalBackup(p) ==
  /\ Stands(p, {"backup"}, "copy")
  /\ LET c == Here(p)
     IN  IF c \notin {"wal", "mirror"} /\ parts[c].target = "none"
         THEN Quit(p)
         ELSE /\ crew' = [crew EXCEPT
                   ![p].draft = @ \cup Snapshot(c),
                   ![p].at = IF crew[p].i = Len(Order) THEN "pack" ELSE "copy",
                   ![p].i = IF @ = Len(Order) THEN 1 ELSE @ + 1]
              /\ UNCHANGED guards
  /\ UNCHANGED <<Files, log, Still, tx>>

\* the archive is written to a temporary and published whole
writePublicLocalBackupArchive(p) ==
  /\ Stands(p, {"backup"}, "pack")
  /\ archive' = crew[p].draft
  /\ Quit(p)
  /\ UNCHANGED <<Files, log, trial, tx>>

-----------------------------------------------------------------------------
(* `human local`: credential, journal check, locks, in this order.         *)

ensurePublicCallerToken(p) ==
  /\ Stands(p, {"local"}, "token")
  /\ IF crew[p].reset \/ parts["credentials"].target = "none"
     THEN /\ Settle("credentials", [parts["credentials"] EXCEPT !.target = "minted"])
          /\ tx' = [tx EXCEPT !.minted = TRUE]
     ELSE UNCHANGED <<Files, tx>>
  /\ Moves(p, "open", 1)
  /\ UNCHANGED <<log, guards, Still>>

rejectPendingOfflineRestore(p) ==
  /\ Stands(p, {"local"}, "open")
  /\ IF log.phase # "none" THEN Quit(p) ELSE Moves(p, "store", 1) /\ UNCHANGED guards
  /\ UNCHANGED <<Files, log, Still, tx>>

\* the database is created when it is missing
OpenLocalStore(p) ==
  /\ Stands(p, {"local"}, "store")
  /\ Acquire(p, "service", "state", 1)
  /\ IF guards["service"] = 0 /\ parts["service"].target = "none"
     THEN /\ Settle("service", [parts["service"] EXCEPT !.target = "live"])
          /\ tx' = [tx EXCEPT !.intruded = TRUE]
     ELSE UNCHANGED <<Files, tx>>
  /\ UNCHANGED <<log, Still>>

openWebState(p) ==
  /\ Stands(p, {"local"}, "state")
  /\ Acquire(p, "state", "run", 1)
  /\ UNCHANGED <<Files, log, Still, tx>>

LocalWrote == IF log.phase = "none" THEN NoTx ELSE [tx EXCEPT !.intruded = TRUE]

\* A running local changes its database and keeps a write-ahead log beside it.
Serve(p) ==
  /\ Stands(p, {"local"}, "run")
  /\ parts["wal"].target # "live"
  /\ parts' = [parts EXCEPT !["service"].target = "live", !["wal"].target = "live"]
  /\ home' = {[log |-> log, paths |-> [c \in Home |-> parts'[c]]]}
  /\ tx' = LocalWrote
  /\ UNCHANGED <<durable, log, guards, crew, Still>>

CloseLocal(p) ==
  /\ Stands(p, {"local"}, "run")
  /\ Settle("wal", [parts["wal"] EXCEPT !.target = "none"])
  /\ tx' = LocalWrote
  /\ Quit(p)
  /\ UNCHANGED <<log, Still>>

-----------------------------------------------------------------------------
(* Faults.                                                                 *)

\* A process is killed, or a file operation fails and its command returns.
\* The kernel drops its locks.  A SQLite check that is cut short leaves the
\* sidecar of the database it had open.
Crash(p) ==
  /\ crew[p] # Off /\ trial.crashes > 0
  /\ trial' = [trial EXCEPT !.crashes = @ - 1]
  /\ Quit(p)
  /\ \/ UNCHANGED <<Files, tx>>
     \/ /\ crew[p].at = "validate" /\ parts["wal"].target = "none"
        /\ Settle("wal", [parts["wal"] EXCEPT !.target = "probe"])
        /\ tx' = [tx EXCEPT !.probed = TRUE]
  /\ UNCHANGED <<log, archive>>

\* Every process dies, and each directory keeps some of its unsynced changes.
PowerFails ==
  /\ trial.powers > 0
  /\ trial' = [trial EXCEPT !.powers = @ - 1]
  /\ crew' = [p \in Crew |-> Off]
  /\ guards' = [g \in DOMAIN guards |-> 0]
  /\ \E h \in home, f \in [DOMAIN durable -> UNION {durable[c] : c \in DOMAIN durable}] :
       /\ \A c \in DOMAIN durable : f[c] \in durable[c]
       /\ parts' = [c \in Parts |-> IF c \in Home THEN h.paths[c] ELSE f[c]]
       /\ log' = h.log
       /\ home' = {h}
       /\ durable' = [c \in DOMAIN durable |-> {f[c]}]
  /\ UNCHANGED <<archive, tx>>

RestoreStep(p) ==
  \/ StartCommand(p)
  \/ acquireStoppedPublicLocal(p)
  \/ CheckJournal(p)
  \/ extractAndVerifyPublicLocalBackup(p)
  \/ preparePublicLocalRestore(p)
  \/ writeLocalRestoreJournal(p)
  \/ SyncJournal(p)
  \/ installLocalRestoreEntry(p)
  \/ RenameStaged(p)
  \/ SyncEntry(p)
  \/ validateInstalled(p)
  \/ RemovePrevious(p)
  \/ RemoveJournal(p)
  \/ Finish(p)
  \/ replaceLocalRestoreJournal(p)
  \/ SyncPhase(p)
  \/ rollbackLocalRestoreEntry(p)
  \/ RollbackEntryFails(p)
  \/ createPublicLocalBackup(p)
  \/ writePublicLocalBackupArchive(p)
  \/ ensurePublicCallerToken(p)
  \/ rejectPendingOfflineRestore(p)
  \/ OpenLocalStore(p)
  \/ openWebState(p)
  \/ Serve(p)
  \/ CloseLocal(p)
  \/ Crash(p)

RestoreNext == PowerFails \/ \E p \in Crew : RestoreStep(p)

RestoreSpec == RestoreInit /\ [][RestoreNext]_restoreVars

-----------------------------------------------------------------------------
(* Properties.                                                             *)

\* the states of a component's paths that a power loss may leave, with the present one
Kept(c) == {parts[c]} \cup (IF c \in Home THEN {h.paths[c] : h \in home} ELSE durable[c])
Is(c, paths, content) ==
  \/ paths.target \in {content, "live", "minted"}
  \/ c = "wal" /\ tx.intruded
WholeSet ==
  \/ \A c \in Parts : Is(c, parts[c], tx.before[c])
  \/ \A c \in Parts : Is(c, parts[c], New(c))

\* Without a journal the local state set is entirely the one the restore found
\* or entirely the archived one, wherever a process died or power was lost:
\* nothing else tells `human local` not to start.  What the running local and a
\* reset credential wrote counts as either.  (commitPublicLocalRestore,
\* rollbackLocalRestore, writeLocalRestoreJournal.)  Excepted is a validation
\* that fails after the clean-up had begun: see WholeAlways.
WholeWithoutJournal == tx.begun /\ log.phase = "none" /\ ~tx.regret => WholeSet

\* The same without the exception: "restore a verified offline backup as one
\* crash-recoverable local state set" (newLocalRestoreCommand).
WholeAlways == tx.begun /\ log.phase = "none" => WholeSet

\* Until the installed set has passed its validation, every component that was
\* there before is still on disk, at its target or parked beside it, even after
\* a power loss (installLocalRestoreEntry parks before it renames).  A local
\* that ran meanwhile, and the credential it minted, are excepted.
OldSetKept ==
  tx.begun /\ log.phase # "none" /\ ~tx.cleaned /\ ~tx.intruded =>
    \A c \in log.had : ~(c = "credentials" /\ tx.minted) => \A paths \in Kept(c) :
      tx.before[c] \in {paths.target, paths.previous}

\* A restore or its resume refuses a component only if another process wrote
\* there: `human local`, which mints its credential and may pass the journal
\* check before the restore begins, or a SQLite check that was killed.  No
\* crash of the restore itself, and no power loss, leaves a set that --resume
\* cannot finish (installLocalRestoreEntry).
ResumeNotRefused == tx.refused => tx.minted \/ tx.intruded \/ tx.probed

\* A restore that reported success, or a rollback that completed, survives a
\* power loss: every directory and the removal of the journal are on disk.
DoneSurvives ==
  tx.done # "no" /\ ~tx.regret =>
    /\ \A h \in home : h.log = NoLog
    /\ \A c \in Parts : \A paths \in Kept(c) :
         Is(c, paths, IF tx.done = "restored" THEN New(c) ELSE tx.before[c])

\* A backup never mixes two generations of the set: it copies under the owner
\* locks and refuses while a restore is pending (createPublicLocalBackup).
ArchiveIsWhole ==
  ~tx.regret => ~ \E x, y \in archive : x[2] = "old" /\ y[2] = "new"

\* While a local runs, no restore moves a component of its set: the owner locks
\* of both databases exclude the two (acquireStoppedPublicLocal).
NoInstallUnderLocal ==
  [][(\E p \in Crew : Stands(p, {"local"}, "run")) =>
       \/ crew' = [p \in Crew |-> Off]
       \/ \A c \in Parts : /\ parts'[c].staged = parts[c].staged
                           /\ parts'[c].previous = parts[c].previous]_restoreVars

\* Old and new never mix: not in a set that `human local` may open, not after a
\* power loss, not in an archive.
NeverMixed == WholeWithoutJournal /\ DoneSurvives /\ ArchiveIsWhole

\* A restore that was cut off can be finished or undone: the old set is there,
\* --resume is not refused, and no local worked on the set meanwhile.
RestoreIsSafe == [](OldSetKept /\ ResumeNotRefused) /\ NoInstallUnderLocal
=============================================================================
