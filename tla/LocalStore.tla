----------------------------- MODULE LocalStore -----------------------------
(***************************************************************************)
(* The local filesystem store of one environment: src/environment/         *)
(* file_lock.rs (the flock on .lock with its inode check), store.rs        *)
(* (transact, save, the runtime-config refresh, destroy), the verbs of     *)
(* mutations_local.rs and removal_local.rs, and the audit boundary of      *)
(* src/cli/mod.rs around them.  Every operator command is a process; every *)
(* system call that others can observe is a step; a process may die at any *)
(* of them, and the calls named in Faults may fail.                        *)
(*                                                                         *)
(* Files are reached by path, locks by descriptor: the environment         *)
(* directory is renamed away by destroy and made again by whoever comes    *)
(* next, so the two need not belong together.                              *)
(***************************************************************************)
EXTENDS Naturals

CONSTANTS
  Procs,        \* running commands
  Ops,          \* the verbs they run
  Splits, Kinds, None,
  Remote,       \* deployer kinds that own remote resources
  Faults,       \* calls that may fail
  MaxTries,     \* MAX_LOCK_RETRIES
  MaxDirs,      \* bound on the directories made at the path
  MaxVersion    \* bound on the mutations of a document

ASSUME LocalAssumption ==
  /\ None \notin Splits \cup Procs \cup Nat
             \cup [ver: Nat, split: Splits \cup {None}, kind: Kinds]
  /\ MaxTries \in Nat /\ MaxDirs \in Nat /\ MaxVersion \in Nat

VARIABLES
  current,      \* the directory at <root>/<env>
  made,         \* directories made so far: 1 .. made
  doc,          \* environment.json of each directory
  config,       \* runtime-config.json of each directory, None for no file
  backups,      \* versions copied into backups/ of each directory
  lock,         \* who holds the flock on each directory's .lock
  tombs,        \* directories renamed away and not yet removed
  pc, verb, fd, env, tries, torn, wrote, result,   \* the commands
  report,       \* what the last command to end told its operator
  unpublished,  \* history: directories where a writer stopped before its refresh
  orphaned      \* history: directories retired with remote resources behind

files == <<current, made, doc, config, backups, tombs>>
command == <<pc, verb, fd, env, tries, torn, wrote, result>>
history == <<unpublished, orphaned>>
vars == <<files, lock, command, report, history>>

Dirs == 1 .. MaxDirs
Document == [ver: Nat, split: Splits \cup {None}, kind: Kinds]

Verbs == [op: {"create", "ensure", "update", "transition", "gate"}]
           \cup [op: {"split"}, to: Splits \cup {None}]
           \cup [op: {"destroy"}, force: BOOLEAN]

\* Verbs that refresh runtime-config.json after they save.
Refreshing == {"transition", "split"}

LocalInit ==
  /\ current = None
  /\ made = 0
  /\ doc = [d \in Dirs |-> None]
  /\ config = [d \in Dirs |-> None]
  /\ backups = [d \in Dirs |-> {}]
  /\ lock = [d \in Dirs |-> None]
  /\ tombs = {}
  /\ pc = [p \in Procs |-> "idle"]
  /\ verb = [p \in Procs |-> None]
  /\ fd = [p \in Procs |-> None]
  /\ env = [p \in Procs |-> None]
  /\ tries = [p \in Procs |-> 0]
  /\ torn = [p \in Procs |-> FALSE]
  /\ wrote = [p \in Procs |-> FALSE]
  /\ result = [p \in Procs |-> None]
  /\ report = None
  /\ unpublished = {}
  /\ orphaned = {}

\* environment_path.exists()
EnvExists == current # None /\ doc[current] # None

\* create_dir_all on the environment's directory
MakeDir ==
  IF current # None THEN UNCHANGED <<current, made>>
  ELSE /\ made < MaxDirs
       /\ made' = made + 1
       /\ current' = made + 1

Goto(p, step) == pc' = [pc EXCEPT ![p] = step]

\* Dropping the guard, if there is one.
Release(p) == lock' = [d \in Dirs |-> IF lock[d] = p THEN None ELSE lock[d]]

\* Mutant: an error returns without dropping the guard.
ReturnLeaking(p, res) ==
  /\ Goto(p, "audit")
  /\ result' = [result EXCEPT ![p] = res]
  /\ IF res = "ok" THEN Release(p) ELSE UNCHANGED lock
  /\ UNCHANGED <<verb, fd, env, tries, torn>>

\* The verb returns: the guard is dropped and the audit boundary takes over.
Return(p, res) ==
  /\ Goto(p, "audit")
  /\ result' = [result EXCEPT ![p] = res]
  /\ Release(p)
  /\ UNCHANGED <<verb, fd, env, tries, torn>>

Continue(p, step) == Goto(p, step) /\ UNCHANGED <<verb, fd, env, tries, torn, result, lock>>

-----------------------------------------------------------------------------
(* EnvFlock::acquire.                                                      *)

Start(p, v) ==
  /\ pc[p] = "idle"
  /\ Goto(p, IF v.op = "destroy" THEN "exists" ELSE "mkdir")
  /\ verb' = [verb EXCEPT ![p] = v]
  /\ report' = None
  /\ UNCHANGED <<files, lock, fd, env, tries, torn, wrote, result, history>>

\* open_lock_file, first half: the parent directory.
OpenParent(p) ==
  /\ pc[p] = "mkdir"
  /\ MakeDir
  /\ Continue(p, "open")
  /\ UNCHANGED <<doc, config, backups, tombs, wrote, report, history>>

\* open_lock_file, second half: opening fails when the parent has gone again.
OpenLockFile(p) ==
  /\ pc[p] = "open"
  /\ \/ /\ current = None
        /\ Return(p, "error")
     \/ /\ current # None
        /\ Goto(p, "flock")
        /\ fd' = [fd EXCEPT ![p] = current]
        /\ UNCHANGED <<lock, verb, env, tries, torn, result>>
  /\ UNCHANGED <<files, wrote, report, history>>

\* Mutant: a shared lock.
LockShared(p) ==
  /\ pc[p] = "flock"
  /\ lock' = [lock EXCEPT ![fd[p]] = p]
  /\ Goto(p, "check")
  /\ UNCHANGED <<files, verb, fd, env, tries, torn, wrote, result, report, history>>

LockExclusive(p) ==
  /\ pc[p] = "flock"
  /\ lock[fd[p]] = None
  /\ lock' = [lock EXCEPT ![fd[p]] = p]
  /\ Goto(p, "check")
  /\ UNCHANGED <<files, verb, fd, env, tries, torn, wrote, result, report, history>>

\* Mutant: the descriptor is trusted, as on platforms without inodes.
NeverStale(p) == FALSE

IsStale(p) == current # fd[p]

Guarded(p) ==
  /\ pc[p] = "check" /\ ~IsStale(p)
  /\ Continue(p, IF verb[p].op = "destroy" THEN "recheck" ELSE "load")
  /\ UNCHANGED <<files, wrote, report, history>>

\* The stale descriptor is closed and the path opened again, MaxTries times.
Retry(p) ==
  /\ pc[p] = "check" /\ IsStale(p)
  /\ \/ /\ tries[p] + 1 < MaxTries
        /\ Goto(p, "mkdir")
        /\ fd' = [fd EXCEPT ![p] = None]
        /\ tries' = [tries EXCEPT ![p] = @ + 1]
        /\ Release(p)
        /\ UNCHANGED <<verb, env, torn, result>>
     \/ /\ tries[p] + 1 >= MaxTries
        /\ Return(p, "error")
  /\ UNCHANGED <<files, wrote, report, history>>

-----------------------------------------------------------------------------
(* The closure of transact: load, engine, save, refresh.                   *)

CreateEnvironment == [ver: {0}, split: {None}, kind: Kinds]

\* Fields, bindings or extensions change; the deployer may be another one.
UpdateEnvironment(old) == {[old EXCEPT !.ver = @ + 1, !.kind = k] : k \in Kinds}

RunRevisionTransition(old) == {[old EXCEPT !.ver = @ + 1]}

SetTrafficSplit(old, to) == {[old EXCEPT !.ver = @ + 1, !.split = to]}

\* The bootstrap heals a missing binding of an environment that exists.
EnsureLocalEnvironment(old) == UpdateEnvironment(old)

\* The documents a verb makes of the one it loaded; none: it is refused.
Engine(v, old) ==
  IF old = None
  THEN IF v.op \in {"create", "ensure"} THEN CreateEnvironment ELSE {}
  ELSE CASE v.op = "create" -> {}
         [] v.op = "update" -> UpdateEnvironment(old)
         [] v.op = "ensure" -> EnsureLocalEnvironment(old)
         [] v.op \in {"transition", "gate"} -> RunRevisionTransition(old)
         [] v.op = "split" -> SetTrafficSplit(old, v.to)

Loaded == IF EnvExists THEN doc[current] ELSE None

Load(p) ==
  /\ pc[p] = "load"
  /\ \E e \in Engine(verb[p], Loaded) :
       /\ e.ver <= MaxVersion
       /\ env' = [env EXCEPT ![p] = e]
  /\ Goto(p, "save")
  /\ UNCHANGED <<files, lock, verb, fd, tries, torn, wrote, result, report, history>>

\* No such environment, or it exists already, or the engine refuses.
Refuse(p) ==
  /\ pc[p] = "load"
  /\ Return(p, "error")
  /\ UNCHANGED <<files, wrote, report, history>>

\* A bootstrap with nothing to heal.
AlreadyExists(p) ==
  /\ pc[p] = "load" /\ verb[p].op = "ensure" /\ Loaded # None
  /\ Return(p, "ok")
  /\ UNCHANGED <<files, wrote, report, history>>

\* A replay of the live split saves nothing and still refreshes.
Replay(p) ==
  /\ pc[p] = "load" /\ verb[p].op = "split"
  /\ Loaded # None /\ Loaded.split = verb[p].to
  /\ env' = [env EXCEPT ![p] = Loaded]
  /\ Goto(p, "refresh")
  /\ UNCHANGED <<files, lock, verb, fd, tries, torn, wrote, result, report, history>>

\* Mutant: the old document is not copied away.
WriteUnbacked(e) ==
  /\ MakeDir
  /\ doc' = [doc EXCEPT ![current'] = e]
  /\ UNCHANGED <<config, backups, tombs>>

\* save_locked: copy_to_backup, then the rename of atomic_write_json, which
\* makes the directory if it has to.
WriteDocument(e) ==
  /\ MakeDir
  /\ backups' = [backups EXCEPT ![current'] =
                   IF doc[current'] = None THEN @ ELSE @ \cup {doc[current'].ver}]
  /\ doc' = [doc EXCEPT ![current'] = e]
  /\ UNCHANGED <<config, tombs>>

Wrote(p) == wrote' = [wrote EXCEPT ![p] = TRUE]

Save(p) ==
  /\ pc[p] = "save"
  /\ WriteDocument(env[p])
  /\ Wrote(p)
  /\ \/ verb[p].op \in Refreshing /\ Continue(p, "refresh")
     \/ verb[p].op = "gate" /\ Return(p, "committed_error")
     \/ verb[p].op \notin Refreshing \cup {"gate"} /\ Return(p, "ok")
  /\ UNCHANGED <<report, history>>

\* The backup or the write fails before the rename.
SaveFails(p) ==
  /\ pc[p] = "save" /\ "write" \in Faults
  /\ Return(p, "error")
  /\ UNCHANGED <<files, wrote, report, history>>

\* fsync_parent fails after the rename: an ordinary error to the caller.
SaveUnsynced(p) ==
  /\ pc[p] = "save" /\ "fsync" \in Faults
  /\ WriteDocument(env[p])
  /\ Wrote(p)
  /\ Return(p, "unsynced")
  /\ unpublished' = IF verb[p].op \in Refreshing THEN unpublished \cup {fd[p]} ELSE unpublished
  /\ UNCHANGED <<report, orphaned>>

\* Mutant: only a file that is there already is written again.
MaterializeExisting(e) == IF config[current] = None THEN None ELSE e.split

\* materialize_runtime_config: no split, no file.
Materialize(e) == e.split

Publish(e) ==
  /\ MakeDir
  /\ config' = [config EXCEPT ![current'] = Materialize(e)]
  /\ UNCHANGED <<doc, backups, tombs>>

Refresh(p) ==
  /\ pc[p] = "refresh"
  /\ Publish(env[p])
  /\ Return(p, "ok")
  /\ unpublished' = unpublished \ {fd[p]}
  /\ UNCHANGED <<wrote, report, orphaned>>

\* Mutant: after a save, too, an ordinary error.
RefreshErrorPlain(p) == "error"

RefreshError(p) == IF wrote[p] THEN "committed_error" ELSE "error"

RefreshFails(p) ==
  /\ pc[p] = "refresh" /\ "refresh" \in Faults
  /\ Publish(env[p]) \/ UNCHANGED files
  /\ Return(p, RefreshError(p))
  /\ unpublished' = unpublished \cup {fd[p]}
  /\ UNCHANGED <<wrote, report, orphaned>>

-----------------------------------------------------------------------------
(* destroy_environment_with_teardown.                                      *)

\* The unlocked look at environment.json.
DestroyExists(p) ==
  /\ pc[p] = "exists" /\ EnvExists
  /\ Continue(p, "mkdir")
  /\ UNCHANGED <<files, wrote, report, history>>

\* No such environment: reap what earlier destroys left behind.
DestroyMissing(p) ==
  /\ pc[p] = "exists" /\ ~EnvExists
  /\ \/ tombs = {} /\ Return(p, "error")
     \/ tombs # {} /\ Continue(p, "reap")
  /\ UNCHANGED <<files, wrote, report, history>>

\* A concurrent destroy may have won.
DestroyRecheck(p) ==
  /\ pc[p] = "recheck"
  /\ \/ ~EnvExists /\ Return(p, "error")
     \/ EnvExists /\ Continue(p, "teardown")
  /\ UNCHANGED <<files, wrote, report, history>>

OwnsRemote == doc[current].kind \in Remote

\* Mutant: a build without the provider purges all the same.
TeardownSkipped(p) ==
  /\ pc[p] = "teardown"
  /\ Continue(p, "rename")
  /\ UNCHANGED <<files, wrote, report, history>>

\* provider_teardown_locked: nothing remote, skipped by force, or torn down.
Teardown(p) ==
  /\ pc[p] = "teardown"
  /\ torn' = [torn EXCEPT ![p] = OwnsRemote /\ ~verb[p].force]
  /\ Goto(p, "rename")
  /\ UNCHANGED <<files, lock, verb, fd, env, tries, wrote, result, report, history>>

\* The provider is not in this build, or deleting a resource failed.
TeardownFails(p) ==
  /\ pc[p] = "teardown" /\ ~verb[p].force /\ OwnsRemote
  /\ Return(p, "error")
  /\ UNCHANGED <<files, wrote, report, history>>

\* Mutant: the tombstone is named after the directory has gone.
RenameForgetting(p) ==
  /\ pc[p] = "rename"
  /\ current' = None
  /\ tombs' = tombs \cup {current'}
  /\ Wrote(p)
  /\ Continue(p, "drop")
  /\ UNCHANGED <<made, doc, config, backups, report, history>>

\* The commit point.
Rename(p) ==
  /\ pc[p] = "rename"
  /\ tombs' = tombs \cup {current}
  /\ current' = None
  /\ Wrote(p)
  /\ Continue(p, "drop")
  /\ orphaned' = IF OwnsRemote /\ ~torn[p] /\ ~verb[p].force
                 THEN orphaned \cup {current} ELSE orphaned
  /\ UNCHANGED <<made, doc, config, backups, report, unpublished>>

\* The root is a symlink, or the rename fails: nothing is committed.
RenameFails(p) ==
  /\ pc[p] = "rename" /\ "rename" \in Faults
  /\ Return(p, "error")
  /\ UNCHANGED <<files, wrote, report, history>>

DropGuard(p) ==
  /\ pc[p] = "drop"
  /\ Release(p)
  /\ Goto(p, "purge")
  /\ UNCHANGED <<files, verb, fd, env, tries, torn, wrote, result, report, history>>

\* remove_dir_all of some tombstones
Remove(ds) ==
  /\ tombs' = tombs \ ds
  /\ doc' = [d \in Dirs |-> IF d \in ds THEN None ELSE doc[d]]
  /\ config' = [d \in Dirs |-> IF d \in ds THEN None ELSE config[d]]
  /\ backups' = [d \in Dirs |-> IF d \in ds THEN {} ELSE backups[d]]
  /\ UNCHANGED <<current, made>>

\* purge_tombstones of the fresh one; somebody else may have reaped it.
Purge(p) ==
  /\ pc[p] = "purge"
  /\ \/ fd[p] \in tombs /\ Remove({fd[p]}) /\ Continue(p, "reap")
     \/ fd[p] \notin tombs /\ UNCHANGED files /\ Return(p, "committed_error")
  /\ UNCHANGED <<wrote, report, history>>

\* Then of those that earlier destroys left.
Reap(p) ==
  /\ pc[p] = "reap"
  /\ Remove(tombs)
  /\ Return(p, "ok")
  /\ UNCHANGED <<wrote, report, history>>

PurgeFails(p) ==
  /\ pc[p] \in {"purge", "reap"} /\ "purge" \in Faults
  /\ \E ds \in SUBSET tombs : Remove(ds)
  /\ Return(p, "committed_error")
  /\ UNCHANGED <<wrote, report, history>>

-----------------------------------------------------------------------------
(* audit_and_record, after the verb has returned.                          *)

Committed(p) == result[p] \in {"ok", "committed_error"}

\* The command is over.
Exit(p) ==
  /\ Goto(p, "idle")
  /\ verb' = [verb EXCEPT ![p] = None]
  /\ fd' = [fd EXCEPT ![p] = None]
  /\ env' = [env EXCEPT ![p] = None]
  /\ tries' = [tries EXCEPT ![p] = 0]
  /\ torn' = [torn EXCEPT ![p] = FALSE]
  /\ wrote' = [wrote EXCEPT ![p] = FALSE]
  /\ result' = [result EXCEPT ![p] = None]

Tell(p, res, audited) ==
  /\ report' = [result |-> res, wrote |-> wrote[p], audited |-> audited]
  /\ Exit(p)

\* The log is under the environment's directory, made again if need be.
AuditAppend(p) ==
  /\ pc[p] = "audit"
  /\ MakeDir
  /\ Tell(p, result[p], TRUE)
  /\ UNCHANGED <<doc, config, backups, tombs, lock, history>>

\* Fail-closed for committed verbs, a warning for the others.
AuditFails(p) ==
  /\ pc[p] = "audit" /\ "audit" \in Faults
  /\ Tell(p, IF Committed(p) THEN "audit_failed" ELSE result[p], FALSE)
  /\ UNCHANGED <<files, lock, history>>

\* The process dies; the system closes its descriptors.
Crash(p) ==
  /\ pc[p] # "idle" /\ "crash" \in Faults
  /\ Exit(p)
  /\ Release(p)
  /\ unpublished' = IF pc[p] = "refresh" THEN unpublished \cup {fd[p]} ELSE unpublished
  /\ UNCHANGED <<files, report, orphaned>>

-----------------------------------------------------------------------------

Step(p) ==
  \/ OpenParent(p) \/ OpenLockFile(p) \/ LockExclusive(p) \/ Guarded(p) \/ Retry(p)
  \/ Load(p) \/ Refuse(p) \/ AlreadyExists(p) \/ Replay(p)
  \/ Save(p) \/ SaveFails(p) \/ SaveUnsynced(p) \/ Refresh(p) \/ RefreshFails(p)
  \/ DestroyExists(p) \/ DestroyMissing(p) \/ DestroyRecheck(p)
  \/ Teardown(p) \/ TeardownFails(p) \/ Rename(p) \/ RenameFails(p)
  \/ DropGuard(p) \/ Purge(p) \/ Reap(p) \/ PurgeFails(p)
  \/ AuditAppend(p) \/ AuditFails(p)

LocalNext ==
  \E p \in Procs : Step(p) \/ Crash(p) \/ \E v \in Verbs : v.op \in Ops /\ Start(p, v)

LocalSpec == LocalInit /\ [][LocalNext]_vars

-----------------------------------------------------------------------------
(* Properties.                                                             *)

Locking == {"check", "load", "save", "refresh", "recheck", "teardown", "rename", "drop"}
Holding == Locking \ {"check", "drop"}

Steps == Locking \cup {"idle", "exists", "mkdir", "open", "flock", "purge", "reap", "audit"}

Report == [result: {"ok", "error", "unsynced", "committed_error", "audit_failed"},
           wrote: BOOLEAN, audited: BOOLEAN]

\* Directories, locks and commands have the shape the code gives them.
LocalTypeOK ==
  /\ made \in 0 .. MaxDirs
  /\ current \in (1 .. made) \cup {None}
  /\ doc \in [Dirs -> Document \cup {None}]
  /\ config \in [Dirs -> Splits \cup {None}]
  /\ backups \in [Dirs -> SUBSET Nat]
  /\ lock \in [Dirs -> Procs \cup {None}]
  /\ tombs \subseteq 1 .. made
  /\ pc \in [Procs -> Steps]
  /\ verb \in [Procs -> Verbs \cup {None}]
  /\ fd \in [Procs -> Dirs \cup {None}]
  /\ env \in [Procs -> Document \cup {None}]
  /\ tries \in [Procs -> Nat]
  /\ torn \in [Procs -> BOOLEAN]
  /\ wrote \in [Procs -> BOOLEAN]
  /\ result \in [Procs -> {"ok", "error", "unsynced", "committed_error", None}]
  /\ report \in Report \cup {None}
  /\ unpublished \subseteq Dirs
  /\ orphaned \subseteq Dirs

\* Two commands never work on the environment's files at the same time,
\* however often destroy renames the directory, and the lock file in it,
\* away under those who wait (EnvFlock::acquire and its inode check).
OneHolder ==
  \A p, q \in Procs :
    pc[p] \in Holding /\ pc[q] \in Holding => p = q

\* environment.json behaves like one document that every verb reads and
\* replaces in one step: no lost update, and no write of a verb that
\* started before a destroy brings the destroyed document back.
Stored == INSTANCE AtomicDocument WITH document <- Loaded

ImplementsDocument == Stored!Spec

\* runtime-config.json is the projection of environment.json "in lock-step":
\* it differs only while a verb is between its save and its refresh, or
\* after one that stopped there, until the next refresh.
ConfigInStep ==
  \A d \in Dirs :
    doc[d] # None /\ config[d] # doc[d].split =>
      \/ d \in unpublished
      \/ \E p \in Procs : pc[p] = "refresh" /\ fd[p] = d

\* Every version a document ever had is still in its backups or is the
\* document: nothing is overwritten without a copy.
VersionsKept ==
  \A d \in Dirs : doc[d] # None => \A v \in 0 .. doc[d].ver - 1 : v \in backups[d]

\* "A state-changing op never reports success without a durable audit
\* record", and a command that changed something and could not record it
\* says so.  The exception is a save whose directory sync failed: it is
\* reported, and audited, like one that changed nothing.
CommittedIsAudited ==
  report # None /\ report.wrote /\ ~report.audited =>
    report.result \in {"audit_failed", "unsynced"}

\* "A concurrent rebind cannot flip the deployer kind between the check and
\* the purge": without --force-local no environment is retired while the
\* deployer bound to it has resources that were not torn down.
NoneOrphaned == orphaned = {}

\* Whoever holds the flock can take its next step: no verb waits for a lock
\* that it holds itself, and none returns with the lock in its hands.
HolderMoves ==
  \A p \in Procs : (\E d \in Dirs : lock[d] = p) => ENABLED Step(p)

\* The calls a command still makes under its flock, at most.
Remaining == [check |-> 5, recheck |-> 4, load |-> 3, teardown |-> 3, save |-> 2, rename |-> 2,
              refresh |-> 1, drop |-> 1]

\* The lock is released, or its holder comes closer to the release, or it is
\* somebody else's step and the holder keeps its place and its lock.
Approaching(p, d) ==
  \/ lock'[d] = None
  \/ lock'[d] = p /\ pc'[p] \in Locking /\ Remaining[pc'[p]] < Remaining[pc[p]]
  \/ lock'[d] = p /\ pc'[p] = pc[p] /\ ~Step(p)

\* What a holder finds: it is past its flock, and past the inode check the
\* directory it locked is the one its calls reach by path.
Unblocked(p, d) == pc[p] \in Locking /\ (pc[p] \in Holding => current = d)

\* The flock of an environment is held for at most five calls of its holder
\* (EnvFlock::acquire to the drop of the guard): the holder waits for nothing,
\* no step of anyone else takes the lock away from it or moves it, and each
\* step of its own releases the lock or brings the release closer.
HolderReleases ==
  [][\A p \in Procs, d \in Dirs : lock[d] = p => Unblocked(p, d) /\ Approaching(p, d)]_vars

\* The safety of the store at every step of every command: one command works
\* on the files, no version is lost without a copy, the runtime configuration
\* follows the document, an unforced destroy orphans nothing, and what was
\* changed is audited or the lack of it reported.
LocalSound ==
  /\ LocalTypeOK
  /\ OneHolder
  /\ VersionsKept
  /\ ConfigInStep
  /\ NoneOrphaned
  /\ CommittedIsAudited
=============================================================================
