-------------------------- MODULE LocalStoreProofs --------------------------
(***************************************************************************)
(* Proofs about LocalStore.  LockOK ties locks, descriptors and the path   *)
(* together: two commands may hold flocks on different inodes, but only    *)
(* one on the directory at the path, which is what OneHolder needs.        *)
(***************************************************************************)
EXTENDS LocalStore, TLAPS

FilesOK ==
  /\ made \in 0 .. MaxDirs
  /\ current \in (1 .. made) \cup {None}
  /\ tombs \subseteq 1 .. made

CommandOK ==
  /\ pc \in [Procs -> Steps]
  /\ fd \in [Procs -> Dirs \cup {None}]
  /\ lock \in [Dirs -> Procs \cup {None}]

\* A command past its flock holds it; one past the inode check has the
\* directory at the path locked; and a lock belongs to such a command.
LockOK ==
  /\ \A p \in Procs : pc[p] \in Locking => fd[p] \in 1 .. made /\ lock[fd[p]] = p
  /\ \A p \in Procs : pc[p] \in {"flock", "purge"} => fd[p] \in 1 .. made
  /\ \A p \in Procs : pc[p] \in Holding => current = fd[p]
  /\ \A p \in Procs, d \in Dirs : lock[d] = p => pc[p] \in Locking /\ fd[p] = d

LockInv == FilesOK /\ CommandOK /\ LockOK

\* LockInv is inductive: one step per action of LocalStore.
LEMMA LockStep ==
  ASSUME LockInv, [LocalNext]_vars
  PROVE  LockInv'
<1> USE LocalAssumption DEF LockInv, FilesOK, CommandOK, LockOK, Steps, Locking, Holding, Dirs, files
<1>1. ASSUME NEW p \in Procs, OpenParent(p) PROVE LockInv'
  BY <1>1 DEF OpenParent, MakeDir, Continue, Goto
<1>2. ASSUME NEW p \in Procs, OpenLockFile(p) PROVE LockInv'
  <2>1. CASE current = None /\ Return(p, "error")
    BY <1>2, <2>1 DEF OpenLockFile, Return, Release, Goto
  <2>2. CASE current # None /\ fd' = [fd EXCEPT ![p] = current] /\ UNCHANGED lock
    BY <1>2, <2>2 DEF OpenLockFile, Return, Release, Goto
  <2>3. QED
    BY <1>2, <2>1, <2>2 DEF OpenLockFile, Goto
<1>3. ASSUME NEW p \in Procs, LockExclusive(p) PROVE LockInv'
  BY <1>3 DEF LockExclusive, Goto
<1>4. ASSUME NEW p \in Procs, Guarded(p) PROVE LockInv'
  BY <1>4 DEF Guarded, IsStale, Continue, Goto
<1>5. ASSUME NEW p \in Procs, Retry(p) PROVE LockInv'
  <2>1. CASE Goto(p, "mkdir") /\ fd' = [fd EXCEPT ![p] = None] /\ Release(p)
    BY <1>5, <2>1 DEF Retry, IsStale, Return, Release, Goto
  <2>2. CASE Return(p, "error")
    BY <1>5, <2>2 DEF Retry, IsStale, Return, Release, Goto
  <2>3. QED
    BY <1>5, <2>1, <2>2 DEF Retry, Goto
<1>6. ASSUME NEW p \in Procs, Load(p) PROVE LockInv'
  BY <1>6 DEF Load, Goto
<1>7. ASSUME NEW p \in Procs, Refuse(p) PROVE LockInv'
  BY <1>7 DEF Refuse, Return, Release, Goto
<1>8. ASSUME NEW p \in Procs, AlreadyExists(p) PROVE LockInv'
  BY <1>8 DEF AlreadyExists, Return, Release, Goto
<1>9. ASSUME NEW p \in Procs, Replay(p) PROVE LockInv'
  BY <1>9 DEF Replay, Goto
<1>10. ASSUME NEW p \in Procs, Save(p) PROVE LockInv'
  <2>1. CASE Continue(p, "refresh")
    BY <1>10, <2>1 DEF Save, WriteDocument, MakeDir, Wrote, Continue, Return, Release, Goto
  <2>2. CASE Return(p, "committed_error")
    BY <1>10, <2>2 DEF Save, WriteDocument, MakeDir, Wrote, Continue, Return, Release, Goto
  <2>3. CASE Return(p, "ok")
    BY <1>10, <2>3 DEF Save, WriteDocument, MakeDir, Wrote, Continue, Return, Release, Goto
  <2>4. QED
    BY <1>10, <2>1, <2>2, <2>3 DEF Save, Goto
<1>11. ASSUME NEW p \in Procs, SaveFails(p) PROVE LockInv'
  BY <1>11 DEF SaveFails, Return, Release, Goto
<1>12. ASSUME NEW p \in Procs, SaveUnsynced(p) PROVE LockInv'
  BY <1>12 DEF SaveUnsynced, WriteDocument, MakeDir, Wrote, Return, Release, Goto
<1>13. ASSUME NEW p \in Procs, Refresh(p) PROVE LockInv'
  BY <1>13 DEF Refresh, Publish, Materialize, MakeDir, Return, Release, Goto
<1>14. ASSUME NEW p \in Procs, RefreshFails(p) PROVE LockInv'
  BY <1>14 DEF RefreshFails, Publish, Materialize, MakeDir, RefreshError, Return, Release, Goto
<1>15. ASSUME NEW p \in Procs, DestroyExists(p) PROVE LockInv'
  BY <1>15 DEF DestroyExists, Continue, Goto
<1>16. ASSUME NEW p \in Procs, DestroyMissing(p) PROVE LockInv'
  BY <1>16 DEF DestroyMissing, Continue, Return, Release, Goto
<1>17. ASSUME NEW p \in Procs, DestroyRecheck(p) PROVE LockInv'
  BY <1>17 DEF DestroyRecheck, Continue, Return, Release, Goto
<1>18. ASSUME NEW p \in Procs, Teardown(p) PROVE LockInv'
  BY <1>18 DEF Teardown, Goto
<1>19. ASSUME NEW p \in Procs, TeardownFails(p) PROVE LockInv'
  BY <1>19 DEF TeardownFails, Return, Release, Goto
<1>20. ASSUME NEW p \in Procs, Rename(p) PROVE LockInv'
  BY <1>20 DEF Rename, Wrote, Continue, Goto
<1>21. ASSUME NEW p \in Procs, RenameFails(p) PROVE LockInv'
  BY <1>21 DEF RenameFails, Return, Release, Goto
<1>22. ASSUME NEW p \in Procs, DropGuard(p) PROVE LockInv'
  BY <1>22 DEF DropGuard, Release, Goto
<1>23. ASSUME NEW p \in Procs, Purge(p) PROVE LockInv'
  BY <1>23 DEF Purge, Remove, Continue, Return, Release, Goto
<1>24. ASSUME NEW p \in Procs, Reap(p) PROVE LockInv'
  BY <1>24 DEF Reap, Remove, Return, Release, Goto
<1>25. ASSUME NEW p \in Procs, PurgeFails(p) PROVE LockInv'
  BY <1>25 DEF PurgeFails, Remove, Return, Release, Goto
<1>26. ASSUME NEW p \in Procs, AuditAppend(p) PROVE LockInv'
  BY <1>26 DEF AuditAppend, MakeDir, Tell, Exit, Goto
<1>27. ASSUME NEW p \in Procs, AuditFails(p) PROVE LockInv'
  BY <1>27 DEF AuditFails, Tell, Exit, Goto, Committed
<1>28. ASSUME NEW p \in Procs, Crash(p) PROVE LockInv'
  BY <1>28 DEF Crash, Exit, Goto, Release
<1>29. ASSUME NEW p \in Procs, NEW v \in Verbs, Start(p, v) PROVE LockInv'
  BY <1>29 DEF Start, Goto
<1>30. CASE UNCHANGED vars
  BY <1>30 DEF vars, command
<1>31. QED
  BY <1>1, <1>2, <1>3, <1>4, <1>5, <1>6, <1>7, <1>8, <1>9, <1>10, <1>11, <1>12, <1>13, <1>14, <1>15, <1>16, <1>17, <1>18, <1>19, <1>20, <1>21, <1>22, <1>23, <1>24, <1>25, <1>26, <1>27, <1>28, <1>29, <1>30 DEF LocalNext, Step

\* LockInv holds in every reachable state: locks, descriptors and the path
\* of the environment directory stay together (EnvFlock::acquire).
THEOREM LockInvHolds == LocalSpec => []LockInv
<1>1. LocalInit => LockInv
  BY LocalAssumption
  DEF LocalInit, LockInv, FilesOK, CommandOK, LockOK, Steps, Locking, Holding, Dirs
<1>2. QED
  BY <1>1, LockStep, PTL DEF LocalSpec

\* Two commands never work on the environment's files at the same time,
\* however often destroy renames the directory with the lock file away under
\* those who wait (EnvFlock::acquire): both would hold the lock of the
\* directory at the path.
THEOREM OneHolderHolds == LocalSpec => []OneHolder
<1>1. LockInv => OneHolder
  BY DEF LockInv, LockOK, OneHolder, Holding, Locking
<1>2. QED
  BY <1>1, LockInvHolds, PTL

-----------------------------------------------------------------------------
(* What a holder owes to those who wait: HolderMoves itself is about       *)
(* ENABLED and stays with TLC; that the lock comes back does not need it.  *)

\* The measure, position by position.
LEMMA RemainingValues ==
  /\ Remaining["check"] = 5 /\ Remaining["recheck"] = 4 /\ Remaining["load"] = 3
  /\ Remaining["teardown"] = 3 /\ Remaining["save"] = 2 /\ Remaining["rename"] = 2
  /\ Remaining["refresh"] = 1 /\ Remaining["drop"] = 1
BY DEF Remaining

\* No step of a command leaves it where it was.
LEMMA StepMoves ==
  ASSUME LockInv, NEW p \in Procs, Step(p)
  PROVE  pc'[p] # pc[p]
BY DEF LockInv, CommandOK, Step, OpenParent, OpenLockFile, LockExclusive, Guarded, Retry, Load,
       Refuse, AlreadyExists, Replay, Save, SaveFails, SaveUnsynced, Refresh, RefreshFails,
       DestroyExists, DestroyMissing, DestroyRecheck, Teardown, TeardownFails, Rename, RenameFails,
       DropGuard, Purge, Reap, PurgeFails, AuditAppend, AuditFails, Tell, Exit, Return, Continue, Goto

\* A step of another command neither moves a holder nor touches its lock.
LEMMA OthersWait ==
  ASSUME LockInv, NEW p \in Procs, NEW q \in Procs, p # q, NEW d \in Dirs, lock[d] = p,
         Step(q) \/ Crash(q) \/ \E v \in Verbs : Start(q, v)
  PROVE  pc'[p] = pc[p] /\ lock'[d] = p
<1> USE LocalAssumption DEF LockInv, CommandOK, LockOK, Dirs
<1>1. pc'[p] = pc[p]
  BY DEF Step, Crash, Start, OpenParent, OpenLockFile, LockExclusive, Guarded, Retry, Load, Refuse,
         AlreadyExists, Replay, Save, SaveFails, SaveUnsynced, Refresh, RefreshFails, DestroyExists,
         DestroyMissing, DestroyRecheck, Teardown, TeardownFails, Rename, RenameFails, DropGuard,
         Purge, Reap, PurgeFails, AuditAppend, AuditFails, Tell, Exit, Return, Continue, Goto
<1>2. \/ UNCHANGED lock
      \/ Release(q)
      \/ lock[fd[q]] = None /\ lock' = [lock EXCEPT ![fd[q]] = q]
  BY DEF Step, Crash, Start, OpenParent, OpenLockFile, LockExclusive, Guarded, Retry, Load, Refuse,
         AlreadyExists, Replay, Save, SaveFails, SaveUnsynced, Refresh, RefreshFails, DestroyExists,
         DestroyMissing, DestroyRecheck, Teardown, TeardownFails, Rename, RenameFails, DropGuard,
         Purge, Reap, PurgeFails, AuditAppend, AuditFails, Return, Continue
<1>3. lock'[d] = p
  BY <1>2 DEF Release
<1> QED  BY <1>1, <1>3

\* A step of the holder itself.
LEMMA HolderSteps ==
  ASSUME LockInv, NEW p \in Procs, NEW d \in Dirs, lock[d] = p,
         Step(p) \/ Crash(p) \/ \E v \in Verbs : Start(p, v)
  PROVE  Approaching(p, d)
<1>1. pc[p] \in {"check", "load", "save", "refresh", "recheck", "teardown", "rename", "drop"}
      /\ pc \in [Procs -> Steps] /\ lock \in [Dirs -> Procs \cup {None}]
  BY DEF LockInv, CommandOK, LockOK, Locking
<1>2. CASE Release(p)
  BY <1>1, <1>2 DEF Release, Approaching
<1>3. ASSUME NEW step \in Locking, Goto(p, step), UNCHANGED lock, Remaining[step] < Remaining[pc[p]]
      PROVE  Approaching(p, d)
  BY <1>1, <1>3 DEF Goto, Approaching
<1>4. CASE Guarded(p)
  <2>1. pc[p] = "check" /\ UNCHANGED lock /\ (Goto(p, "recheck") \/ Goto(p, "load"))
    BY <1>4 DEF Guarded, Continue
  <2> QED  BY <1>3, <2>1, RemainingValues DEF Locking
<1>5. CASE Load(p)
  <2>1. pc[p] = "load" /\ UNCHANGED lock /\ Goto(p, "save")
    BY <1>5 DEF Load
  <2> QED  BY <1>3, <2>1, RemainingValues DEF Locking
<1>6. CASE Replay(p)
  <2>1. pc[p] = "load" /\ UNCHANGED lock /\ Goto(p, "refresh")
    BY <1>6 DEF Replay
  <2> QED  BY <1>3, <2>1, RemainingValues DEF Locking
<1>7. CASE Save(p)
  <2>1. pc[p] = "save" /\ (Release(p) \/ (UNCHANGED lock /\ Goto(p, "refresh")))
    BY <1>7 DEF Save, Return, Continue
  <2> QED  BY <1>2, <1>3, <2>1, RemainingValues DEF Locking
<1>8. CASE DestroyRecheck(p)
  <2>1. pc[p] = "recheck" /\ (Release(p) \/ (UNCHANGED lock /\ Goto(p, "teardown")))
    BY <1>8 DEF DestroyRecheck, Return, Continue
  <2> QED  BY <1>2, <1>3, <2>1, RemainingValues DEF Locking
<1>9. CASE Teardown(p)
  <2>1. pc[p] = "teardown" /\ UNCHANGED lock /\ Goto(p, "rename")
    BY <1>9 DEF Teardown
  <2> QED  BY <1>3, <2>1, RemainingValues DEF Locking
<1>10. CASE Rename(p)
  <2>1. pc[p] = "rename" /\ UNCHANGED lock /\ Goto(p, "drop")
    BY <1>10 DEF Rename, Continue
  <2> QED  BY <1>3, <2>1, RemainingValues DEF Locking
<1>11. CASE \/ Retry(p) \/ Refuse(p) \/ AlreadyExists(p) \/ SaveFails(p) \/ SaveUnsynced(p)
            \/ Refresh(p) \/ RefreshFails(p) \/ TeardownFails(p) \/ RenameFails(p) \/ DropGuard(p)
            \/ Crash(p)
  <2>1. Release(p)
    BY <1>11 DEF Retry, Refuse, AlreadyExists, SaveFails, SaveUnsynced, Refresh, RefreshFails,
                 TeardownFails, RenameFails, DropGuard, Crash, Return
  <2> QED  BY <1>2, <2>1
<1>12. CASE \/ OpenParent(p) \/ OpenLockFile(p) \/ LockExclusive(p) \/ DestroyExists(p)
            \/ DestroyMissing(p) \/ Purge(p) \/ Reap(p) \/ PurgeFails(p) \/ AuditAppend(p)
            \/ AuditFails(p) \/ \E v \in Verbs : Start(p, v)
  BY <1>1, <1>12 DEF OpenParent, OpenLockFile, LockExclusive, DestroyExists, DestroyMissing, Purge,
                     Reap, PurgeFails, AuditAppend, AuditFails, Start
<1> QED  BY <1>4, <1>5, <1>6, <1>7, <1>8, <1>9, <1>10, <1>11, <1>12 DEF Step

\* The flock of an environment is held for at most five calls of its holder
\* (EnvFlock::acquire to the drop of the guard): the holder waits for nothing,
\* no step of anyone else takes the lock away from it or moves it, and each
\* step of its own releases the lock or brings the release closer.
THEOREM LockComesBack == LocalSpec => HolderReleases
<1> DEFINE A == \A p \in Procs, d \in Dirs : lock[d] = p => Unblocked(p, d) /\ Approaching(p, d)
<1>1. ASSUME LockInv, [LocalNext]_vars  PROVE [A]_vars
  <2> SUFFICES ASSUME LocalNext, NEW p \in Procs, NEW d \in Dirs, lock[d] = p
               PROVE  Unblocked(p, d) /\ Approaching(p, d)
    BY <1>1
  <2>1. PICK q \in Procs : Step(q) \/ Crash(q) \/ \E v \in Verbs : Start(q, v)
    BY DEF LocalNext
  <2>2. Approaching(p, d)
    <3>1. CASE q = p
      BY <1>1, <2>1, <3>1, HolderSteps
    <3>2. CASE q # p
      BY <1>1, <2>1, <3>2, OthersWait, StepMoves DEF Approaching
    <3> QED  BY <3>1, <3>2
  <2> QED  BY <1>1, <2>2 DEF LockInv, LockOK, Unblocked, Holding, Locking
<1> QED  BY <1>1, LockInvHolds, PTL DEF LocalSpec, HolderReleases

-----------------------------------------------------------------------------
(* The documents.  Beside the lock, the proofs of LocalSound and of the    *)
(* refinement need what a command knows of the document while it works on  *)
(* it: Loaded cannot change under a command past the inode check.          *)

Results == {"ok", "error", "unsynced", "committed_error"}

DataTypes ==
  /\ doc \in [Dirs -> Document \cup {None}]
  /\ config \in [Dirs -> Splits \cup {None}]
  /\ backups \in [Dirs -> SUBSET Nat]
  /\ unpublished \subseteq Dirs

CommandTypes ==
  /\ verb \in [Procs -> Verbs \cup {None}]
  /\ env \in [Procs -> Document \cup {None}]
  /\ tries \in [Procs -> Nat]
  /\ torn \in [Procs -> BOOLEAN]
  /\ wrote \in [Procs -> BOOLEAN]
  /\ result \in [Procs -> Results \cup {None}]

\* Steps at which a command has changed nothing yet.
Untouched == {"idle", "exists", "mkdir", "open", "flock", "check", "load", "save",
              "recheck", "teardown", "rename"}

\* What verb v may make of the document old, as far as the files depend on it.
Follows(v, old, e) ==
  /\ old = None => e.ver = 0 /\ e.split = None
  /\ old # None => /\ e.ver = old.ver + 1
                   /\ v.op \notin Refreshing => e.split = old.split

\* A command at step s with its verb, environment, teardown mark, write mark
\* and result, while the document at the path is old.
Knows(s, v, e, t, w, r, old) ==
  /\ s # "idle" => v \in Verbs
  /\ s \in {"load", "save", "refresh"} => v.op # "destroy"
  /\ s = "save" => e \in Document /\ Follows(v, old, e)
  /\ s = "refresh" => e \in Document /\ old = e
  /\ s \in {"teardown", "rename"} => old # None
  /\ s = "rename" /\ old.kind \in Remote => t \/ v.force
  /\ s \in Untouched => ~w
  /\ s = "audit" => r \in Results /\ (w => r # "error")

CommandKnows(p) == Knows(pc[p], verb[p], env[p], torn[p], wrote[p], result[p], Loaded)

\* The directory at the path is no tombstone, one that was never made holds no
\* document, and one without a document has no runtime configuration.
DirsOK ==
  /\ current \notin tombs
  /\ \A d \in Dirs : d > made => doc[d] = None
  /\ \A d \in Dirs : doc[d] = None => config[d] = None

FileInv == DataTypes /\ DirsOK /\ VersionsKept /\ ConfigInStep /\ NoneOrphaned

ReportOK == report \in Report \cup {None} /\ CommittedIsAudited

DataInv ==
  /\ LockInv
  /\ CommandTypes
  /\ FileInv
  /\ ReportOK
  /\ \A p \in Procs : CommandKnows(p)

\* A step of one command leaves the others where they are.
Others(p) ==
  \A q \in Procs : q # p =>
    /\ pc'[q] = pc[q] /\ fd'[q] = fd[q] /\ verb'[q] = verb[q] /\ env'[q] = env[q]
    /\ torn'[q] = torn[q] /\ wrote'[q] = wrote[q] /\ result'[q] = result[q]

\* What the command that steps has to show for itself.
Own(p) == Others(p) /\ CommandTypes' /\ ReportOK' /\ CommandKnows(p)'

\* Only a command past the inode check knows anything of the document.
LEMMA KnowsAnywhere ==
  ASSUME NEW s \in Steps, s \notin Holding, NEW v, NEW e, NEW t, NEW w, NEW r,
         NEW a, NEW b, Knows(s, v, e, t, w, r, a)
  PROVE  Knows(s, v, e, t, w, r, b)
BY DEF Knows, Steps, Holding, Locking

\* A step of one command is enough to look at: the document does not change,
\* or it changes by the one command that may change it.
LEMMA OneCommand ==
  ASSUME DataInv, LockInv', FileInv', NEW p \in Procs, Own(p),
         Loaded' = Loaded \/ pc[p] \in Holding
  PROVE  DataInv'
<1> SUFFICES ASSUME NEW q \in Procs, q # p PROVE CommandKnows(q)'
  BY DEF Own, DataInv
<1>1. /\ pc'[q] = pc[q] /\ verb'[q] = verb[q] /\ env'[q] = env[q]
      /\ torn'[q] = torn[q] /\ wrote'[q] = wrote[q] /\ result'[q] = result[q]
  BY DEF Own, Others
<1>2. CommandKnows(q) /\ pc[q] \in Steps
  BY DEF DataInv, LockInv, CommandOK
<1>3. CASE Loaded' = Loaded
  BY <1>1, <1>2, <1>3 DEF CommandKnows
<1>4. CASE pc[p] \in Holding
  <2>1. pc[q] \notin Holding
    BY <1>4 DEF DataInv, LockInv, LockOK, Holding, Locking
  <2> QED  BY <1>1, <1>2, <2>1, KnowsAnywhere DEF CommandKnows
<1> QED  BY <1>3, <1>4

\* Steps that write no file, though they may make the directory again.
LEMMA QuietFiles ==
  ASSUME DataInv, NEW p \in Procs, Others(p), pc[p] # "refresh",
         MakeDir \/ UNCHANGED <<current, made>>,
         UNCHANGED <<doc, config, backups, tombs, history>>
  PROVE  FileInv' /\ Loaded' = Loaded
<1> USE LocalAssumption DEF DataInv, FileInv
<1>1. UNCHANGED <<doc, config, backups, tombs, unpublished, orphaned>>
  BY DEF history
<1>2. DataTypes' /\ VersionsKept' /\ NoneOrphaned'
  BY <1>1 DEF DataTypes, VersionsKept, NoneOrphaned
<1>3. ConfigInStep'
  BY <1>1 DEF ConfigInStep, Others
<1>4. \/ UNCHANGED <<current, made>>
      \/ current = None /\ made < MaxDirs /\ made' = made + 1 /\ current' = made + 1
  BY DEF MakeDir
<1>5. DirsOK'
  BY <1>1, <1>4 DEF DirsOK, LockInv, FilesOK, Dirs
<1>6. Loaded' = Loaded
  BY <1>1, <1>4 DEF Loaded, EnvExists, DirsOK, LockInv, FilesOK, Dirs
<1> QED  BY <1>2, <1>3, <1>5, <1>6

\* A verb that returns.
LEMMA Returning ==
  ASSUME DataInv, NEW p \in Procs, NEW res \in Results, NEW w \in BOOLEAN,
         Return(p, res), wrote' = [wrote EXCEPT ![p] = w], UNCHANGED report,
         pc[p] # "idle", w => res # "error"
  PROVE  Own(p)
<1> USE DEF DataInv, LockInv, CommandOK, CommandTypes
<1>1. /\ pc'[p] = "audit" /\ verb'[p] = verb[p] /\ wrote'[p] = w /\ result'[p] = res
      /\ verb[p] \in Verbs
  BY DEF Return, Goto, CommandKnows, Knows
<1>2. CommandKnows(p)'
  BY <1>1 DEF CommandKnows, Knows, Untouched
<1>3. Others(p) /\ CommandTypes'
  BY DEF Return, Goto, Others
<1>4. ReportOK'
  BY DEF ReportOK, CommittedIsAudited
<1> QED  BY <1>2, <1>3, <1>4 DEF Own

\* A verb that goes on.
LEMMA Continuing ==
  ASSUME DataInv, NEW p \in Procs, NEW step, NEW w \in BOOLEAN,
         Continue(p, step), wrote' = [wrote EXCEPT ![p] = w], UNCHANGED report,
         Knows(step, verb[p], env[p], torn[p], w, result[p], Loaded')
  PROVE  Own(p)
<1> USE DEF DataInv, LockInv, CommandOK, CommandTypes
<1>1. CommandKnows(p)'
  BY DEF CommandKnows, Continue, Goto
<1>2. Others(p) /\ CommandTypes'
  BY DEF Continue, Goto, Others
<1>3. ReportOK'
  BY DEF ReportOK, CommittedIsAudited
<1> QED  BY <1>1, <1>2, <1>3 DEF Own

\* What is left of a quiet step is that the verb returns or goes on.
LEMMA QuietStep ==
  ASSUME DataInv, LockInv', NEW p \in Procs, pc[p] # "refresh", Own(p),
         MakeDir \/ UNCHANGED <<current, made>>,
         UNCHANGED <<doc, config, backups, tombs, history>>
  PROVE  DataInv' /\ Loaded' = Loaded
BY QuietFiles, OneCommand DEF Own

\* The verbs' returns that change nothing.
LEMMA QuietReturn ==
  ASSUME DataInv, LockInv', NEW p \in Procs, NEW res \in Results, Return(p, res),
         pc[p] \notin {"idle", "refresh"}, res = "error" => pc[p] \in Untouched,
         UNCHANGED <<files, wrote, report, history>>
  PROVE  DataInv' /\ Loaded' = Loaded
<1>1. wrote[p] \in BOOLEAN /\ wrote' = [wrote EXCEPT ![p] = wrote[p]]
  BY DEF DataInv, CommandTypes
<1>2. wrote[p] => res # "error"
  BY DEF DataInv, CommandKnows, Knows
<1>3. Own(p)
  BY <1>1, <1>2, Returning
<1> QED  BY <1>3, QuietStep DEF files

\* The verbs' moves that change nothing.
LEMMA QuietContinue ==
  ASSUME DataInv, LockInv', NEW p \in Procs, NEW step, Continue(p, step), pc[p] # "refresh",
         MakeDir \/ UNCHANGED <<current, made>>,
         UNCHANGED <<doc, config, backups, tombs, wrote, report, history>>,
         Knows(step, verb[p], env[p], torn[p], wrote[p], result[p], Loaded)
  PROVE  DataInv' /\ Loaded' = Loaded
<1>1. wrote[p] \in BOOLEAN /\ wrote' = [wrote EXCEPT ![p] = wrote[p]]
  BY DEF DataInv, CommandTypes
<1>2. Others(p)
  BY DEF Others, Continue, Goto, DataInv, LockInv, CommandOK, CommandTypes
<1>3. Loaded' = Loaded
  BY <1>2, QuietFiles
<1>4. Own(p)
  BY <1>1, <1>3, Continuing
<1> QED  BY <1>4, QuietStep

\* A step that moves one command, with its descriptor and its tries.
LEMMA Moving ==
  ASSUME DataInv, NEW p \in Procs, NEW step, Goto(p, step),
         UNCHANGED <<verb, env, torn, wrote, result, report>>,
         \A q \in Procs : q # p => fd'[q] = fd[q], tries' \in [Procs -> Nat],
         Knows(step, verb[p], env[p], torn[p], wrote[p], result[p], Loaded')
  PROVE  Own(p)
<1> USE DEF DataInv, LockInv, CommandOK, CommandTypes
<1>1. CommandKnows(p)'
  BY DEF CommandKnows, Goto
<1>2. Others(p) /\ CommandTypes'
  BY DEF Goto, Others
<1>3. ReportOK'
  BY DEF ReportOK, CommittedIsAudited
<1> QED  BY <1>1, <1>2, <1>3 DEF Own

\* EnvFlock::acquire changes no document.
LEMMA AcquireStep ==
  ASSUME DataInv, LockInv', NEW p \in Procs,
         \/ \E v \in Verbs : Start(p, v)
         \/ OpenParent(p) \/ OpenLockFile(p) \/ LockExclusive(p) \/ Guarded(p) \/ Retry(p)
  PROVE  DataInv' /\ Loaded' = Loaded
<1> USE DEF files
<1>0. /\ CommandKnows(p) /\ CommandTypes /\ ReportOK
      /\ pc \in [Procs -> Steps] /\ fd \in [Procs -> Dirs \cup {None}]
  BY DEF DataInv, LockInv, CommandOK
<1>1. ASSUME NEW v \in Verbs, Start(p, v) PROVE DataInv' /\ Loaded' = Loaded
  <2>1. CommandKnows(p)'
    BY <1>0, <1>1 DEF Start, Goto, CommandKnows, Knows, Untouched, CommandTypes
  <2>2. Own(p)
    BY <2>1, <1>0, <1>1
    DEF Own, Start, Goto, Others, CommandTypes, ReportOK, CommittedIsAudited
  <2> QED  BY <2>2, <1>1, QuietStep DEF Start
<1>2. CASE OpenParent(p)
  <2>1. Knows("open", verb[p], env[p], torn[p], wrote[p], result[p], Loaded)
    BY <1>0, <1>2 DEF OpenParent, CommandKnows, Knows, Untouched
  <2> QED  BY <1>2, <2>1, QuietContinue DEF OpenParent
<1>3. CASE OpenLockFile(p)
  <2>1. CASE Return(p, "error")
    BY <1>3, <2>1, QuietReturn DEF OpenLockFile, Results, Untouched
  <2>2. CASE /\ Goto(p, "flock") /\ fd' = [fd EXCEPT ![p] = current]
             /\ UNCHANGED <<lock, verb, env, tries, torn, result>>
    <3>1. Knows("flock", verb[p], env[p], torn[p], wrote[p], result[p], Loaded')
      BY <1>0, <1>3 DEF OpenLockFile, CommandKnows, Knows, Untouched
    <3>2. Own(p)
      BY <1>0, <1>3, <2>2, <3>1, Moving DEF OpenLockFile, CommandTypes
    <3> QED  BY <1>3, <3>2, QuietStep DEF OpenLockFile
  <2> QED  BY <1>3, <2>1, <2>2 DEF OpenLockFile
<1>4. CASE LockExclusive(p)
  <2>1. Knows("check", verb[p], env[p], torn[p], wrote[p], result[p], Loaded')
    BY <1>0, <1>4 DEF LockExclusive, CommandKnows, Knows, Untouched
  <2>2. Own(p)
    BY <1>0, <1>4, <2>1, Moving DEF LockExclusive, CommandTypes
  <2> QED  BY <1>4, <2>2, QuietStep DEF LockExclusive
<1>5. CASE Guarded(p)
  <2> DEFINE step == IF verb[p].op = "destroy" THEN "recheck" ELSE "load"
  <2>1. Knows(step, verb[p], env[p], torn[p], wrote[p], result[p], Loaded)
    BY <1>0, <1>5 DEF Guarded, CommandKnows, Knows, Untouched
  <2> QED  BY <1>5, <2>1, QuietContinue DEF Guarded
<1>6. CASE Retry(p)
  <2>1. CASE Return(p, "error")
    BY <1>6, <2>1, QuietReturn DEF Retry, Results, Untouched
  <2>2. CASE /\ Goto(p, "mkdir") /\ fd' = [fd EXCEPT ![p] = None]
             /\ tries' = [tries EXCEPT ![p] = @ + 1] /\ UNCHANGED <<verb, env, torn, result>>
    <3>1. Knows("mkdir", verb[p], env[p], torn[p], wrote[p], result[p], Loaded')
      BY <1>0, <1>6 DEF Retry, CommandKnows, Knows, Untouched
    <3>2. tries' \in [Procs -> Nat]
      BY <1>0, <2>2 DEF CommandTypes
    <3>3. Own(p)
      BY <1>0, <1>6, <2>2, <3>1, <3>2, Moving DEF Retry
    <3> QED  BY <1>6, <3>3, QuietStep DEF Retry
  <2> QED  BY <1>6, <2>1, <2>2 DEF Retry
<1> QED  BY <1>1, <1>2, <1>3, <1>4, <1>5, <1>6

\* The document at the path is one, or there is none.
LEMMA LoadedType ==
  ASSUME DataInv
  PROVE  /\ Loaded \in Document \cup {None}
         /\ Loaded # None => current \in Dirs /\ Loaded = doc[current]
BY LocalAssumption DEF DataInv, FileInv, DataTypes, LockInv, FilesOK, Dirs, Loaded, EnvExists

\* What the verbs make of a document is its next version.
LEMMA EngineFollows ==
  ASSUME NEW v \in Verbs, v.op # "destroy", NEW old \in Document \cup {None},
         NEW e \in Engine(v, old)
  PROVE  e \in Document /\ Follows(v, old, e)
<1> USE LocalAssumption DEF Document, Follows, Refreshing
<1>1. CASE old = None
  BY <1>1 DEF Engine, CreateEnvironment
<1>2. CASE old # None
  <2>1. old \in Document
    BY <1>2
  <2>2. v.op \in {"create", "ensure", "update", "transition", "gate", "split"}
    BY DEF Verbs
  <2>3. v.op = "split" => v.to \in Splits \cup {None}
    BY DEF Verbs
  <2>4. CASE v.op \in {"update", "ensure"}
    <3>1. PICK k \in Kinds : e = [old EXCEPT !.ver = @ + 1, !.kind = k]
      BY <1>2, <2>4 DEF Engine, EnsureLocalEnvironment, UpdateEnvironment
    <3>2. ASSUME NEW n \in Nat
          PROVE  /\ [old EXCEPT !.ver = n, !.kind = k] \in Document
                 /\ [old EXCEPT !.ver = n, !.kind = k].ver = n
                 /\ [old EXCEPT !.ver = n, !.kind = k].split = old.split
      BY <2>1
    <3>3. old.ver + 1 \in Nat
      BY <2>1
    <3>4. e \in Document /\ e.ver = old.ver + 1 /\ e.split = old.split
      BY <3>1, <3>2, <3>3
    <3> QED  BY <1>2, <3>4
  <2>5. CASE v.op \in {"transition", "gate"}
    <3>1. e = [old EXCEPT !.ver = @ + 1]
      BY <1>2, <2>5 DEF Engine, RunRevisionTransition
    <3> QED  BY <1>2, <2>1, <2>5, <3>1
  <2>6. CASE v.op = "split"
    <3>1. e = [old EXCEPT !.ver = @ + 1, !.split = v.to]
      BY <1>2, <2>6 DEF Engine, SetTrafficSplit
    <3>2. ASSUME NEW n \in Nat
          PROVE  /\ [old EXCEPT !.ver = n, !.split = v.to] \in Document
                 /\ [old EXCEPT !.ver = n, !.split = v.to].ver = n
      BY <2>1, <2>3, <2>6
    <3>3. old.ver + 1 \in Nat
      BY <2>1
    <3>4. e \in Document /\ e.ver = old.ver + 1
      BY <3>1, <3>2, <3>3
    <3> QED  BY <1>2, <2>6, <3>4
  <2>7. CASE v.op = "create"
    BY <1>2, <2>7 DEF Engine
  <2> QED  BY <2>2, <2>4, <2>5, <2>6, <2>7
<1> QED  BY <1>1, <1>2

\* The closure of transact up to its save changes no document.
LEMMA LoadStep ==
  ASSUME DataInv, LockInv', NEW p \in Procs,
         Load(p) \/ Refuse(p) \/ AlreadyExists(p) \/ Replay(p) \/ SaveFails(p)
  PROVE  DataInv' /\ Loaded' = Loaded
<1> USE DEF files
<1>0. /\ CommandKnows(p) /\ CommandTypes /\ ReportOK
      /\ pc \in [Procs -> Steps] /\ fd \in [Procs -> Dirs \cup {None}]
  BY DEF DataInv, LockInv, CommandOK
<1>1. CASE Refuse(p) \/ AlreadyExists(p) \/ SaveFails(p)
  BY <1>1, QuietReturn DEF Refuse, AlreadyExists, SaveFails, Results, Untouched
<1>2. ASSUME NEW e \in Document, NEW step \in {"save", "refresh"}, pc[p] = "load",
             env' = [env EXCEPT ![p] = e], Goto(p, step),
             step = "save" => Follows(verb[p], Loaded, e), step = "refresh" => e = Loaded,
             UNCHANGED <<files, lock, verb, fd, tries, torn, wrote, result, report, history>>
      PROVE  DataInv' /\ Loaded' = Loaded
  <2>1. Others(p)
    BY <1>0, <1>2 DEF Goto, Others, CommandTypes
  <2>2. Loaded' = Loaded
    BY <2>1, <1>2, QuietFiles
  <2>3. Knows(step, verb[p], e, torn[p], wrote[p], result[p], Loaded)
    BY <1>0, <1>2 DEF CommandKnows, Knows, Untouched
  <2>4. CommandKnows(p)'
    BY <1>0, <1>2, <2>2, <2>3 DEF CommandKnows, Goto, CommandTypes
  <2>5. CommandTypes' /\ ReportOK'
    BY <1>0, <1>2 DEF CommandTypes, ReportOK, CommittedIsAudited
  <2> QED  BY <1>2, <2>1, <2>4, <2>5, QuietStep DEF Own
<1>3. CASE Load(p)
  <2>1. PICK e \in Engine(verb[p], Loaded) : env' = [env EXCEPT ![p] = e]
    BY <1>3 DEF Load
  <2>2. verb[p] \in Verbs /\ verb[p].op # "destroy"
    BY <1>0, <1>3 DEF Load, CommandKnows, Knows
  <2>3. e \in Document /\ Follows(verb[p], Loaded, e)
    BY <2>1, <2>2, LoadedType, EngineFollows
  <2> QED  BY <1>2, <1>3, <2>1, <2>3 DEF Load
<1>4. CASE Replay(p)
  <2>1. Loaded \in Document
    BY <1>4, LoadedType DEF Replay
  <2> QED  BY <1>2, <1>4, <2>1 DEF Replay
<1> QED  BY <1>1, <1>3, <1>4

\* The unlocked and the locked look of destroy, its teardown and its drop of
\* the guard change no document.
LEMMA DestroyStep ==
  ASSUME DataInv, LockInv', NEW p \in Procs,
         \/ DestroyExists(p) \/ DestroyMissing(p) \/ DestroyRecheck(p)
         \/ Teardown(p) \/ TeardownFails(p) \/ RenameFails(p) \/ DropGuard(p)
  PROVE  DataInv' /\ Loaded' = Loaded
<1> USE DEF files
<1>0. /\ CommandKnows(p) /\ CommandTypes /\ ReportOK
      /\ pc \in [Procs -> Steps] /\ fd \in [Procs -> Dirs \cup {None}]
  BY DEF DataInv, LockInv, CommandOK
<1>1. CASE DestroyExists(p)
  <2>1. Knows("mkdir", verb[p], env[p], torn[p], wrote[p], result[p], Loaded)
    BY <1>0, <1>1 DEF DestroyExists, CommandKnows, Knows, Untouched
  <2> QED  BY <1>1, <2>1, QuietContinue DEF DestroyExists
<1>2. CASE DestroyMissing(p)
  <2>1. Knows("reap", verb[p], env[p], torn[p], wrote[p], result[p], Loaded)
    BY <1>0, <1>2 DEF DestroyMissing, CommandKnows, Knows, Untouched
  <2>2. CASE Return(p, "error")
    BY <1>2, <2>2, QuietReturn DEF DestroyMissing, Results, Untouched
  <2>3. CASE Continue(p, "reap")
    BY <1>2, <2>1, <2>3, QuietContinue DEF DestroyMissing
  <2> QED  BY <1>2, <2>2, <2>3 DEF DestroyMissing
<1>3. CASE DestroyRecheck(p)
  <2>2. CASE Return(p, "error")
    BY <1>3, <2>2, QuietReturn DEF DestroyRecheck, Results, Untouched
  <2>3. CASE EnvExists /\ Continue(p, "teardown")
    <3>1. Knows("teardown", verb[p], env[p], torn[p], wrote[p], result[p], Loaded)
      BY <1>0, <1>3, <2>3 DEF DestroyRecheck, CommandKnows, Knows, Untouched, Loaded, EnvExists
    <3> QED  BY <1>3, <2>3, <3>1, QuietContinue DEF DestroyRecheck
  <2> QED  BY <1>3, <2>2, <2>3 DEF DestroyRecheck
<1>4. CASE TeardownFails(p) \/ RenameFails(p)
  BY <1>4, QuietReturn DEF TeardownFails, RenameFails, Results, Untouched
<1>5. CASE Teardown(p)
  <2> DEFINE t == OwnsRemote /\ ~verb[p].force
  <2>1. Others(p)
    BY <1>0, <1>5 DEF Teardown, Goto, Others, CommandTypes
  <2>2. Loaded' = Loaded
    BY <2>1, <1>5, QuietFiles DEF Teardown
  <2>3. Loaded # None /\ Loaded = doc[current]
    BY <1>0, <1>5, LoadedType DEF Teardown, CommandKnows, Knows
  <2>4. Knows("rename", verb[p], env[p], t, wrote[p], result[p], Loaded)
    BY <1>0, <1>5, <2>3 DEF Teardown, CommandKnows, Knows, Untouched, OwnsRemote
  <2>5. torn'[p] = t /\ torn' \in [Procs -> BOOLEAN]
    BY <1>0, <1>5 DEF Teardown, CommandTypes
  <2>6. CommandKnows(p)'
    <3> HIDE DEF t
    <3> QED  BY <1>0, <1>5, <2>2, <2>4, <2>5 DEF CommandKnows, Teardown, Goto
  <2>7. CommandTypes' /\ ReportOK'
    BY <1>0, <1>5, <2>5 DEF Teardown, CommandTypes, ReportOK, CommittedIsAudited
  <2> QED  BY <1>5, <2>1, <2>6, <2>7, QuietStep DEF Own, Teardown
<1>6. CASE DropGuard(p)
  <2>1. Knows("purge", verb[p], env[p], torn[p], wrote[p], result[p], Loaded')
    BY <1>0, <1>6 DEF DropGuard, CommandKnows, Knows, Untouched
  <2>2. Own(p)
    BY <1>0, <1>6, <2>1, Moving DEF DropGuard, CommandTypes
  <2> QED  BY <1>6, <2>2, QuietStep DEF DropGuard
<1> QED  BY <1>1, <1>2, <1>3, <1>4, <1>5, <1>6

\* A command past the inode check finds the directory it locked at the path.
LEMMA HeldDirectory ==
  ASSUME DataInv, NEW p \in Procs, pc[p] \in Holding
  PROVE  /\ current = fd[p] /\ current # None /\ current \in Dirs /\ current <= made
         /\ MakeDir => UNCHANGED <<current, made>>
         /\ Loaded = doc[current]
<1>1. current = fd[p] /\ fd[p] \in 1 .. made /\ made \in 0 .. MaxDirs
  BY DEF DataInv, LockInv, LockOK, FilesOK, Holding
<1> QED  BY <1>1, LocalAssumption DEF Dirs, MakeDir, Loaded, EnvExists

\* The save of save_locked: the new document takes the place of the one it was
\* computed from, which is in the backups; a verb that refreshes is still to
\* do so, or its directory is marked.
LEMMA WriteFiles ==
  ASSUME DataInv, NEW p \in Procs, pc[p] = "save", WriteDocument(env[p]), Others(p),
         \/ verb[p].op \notin Refreshing
         \/ pc'[p] = "refresh" /\ fd'[p] = fd[p]
         \/ fd[p] \in unpublished',
         unpublished \subseteq unpublished', unpublished' \subseteq Dirs, UNCHANGED orphaned
  PROVE  /\ FileInv'
         /\ Loaded' = env[p] /\ env[p] \in Document /\ Follows(verb[p], Loaded, env[p])
<1> DEFINE e == env[p]
           d == current
<1>1. /\ d = fd[p] /\ d \in Dirs /\ d <= made /\ Loaded = doc[d] /\ UNCHANGED <<current, made>>
      /\ d # None
  BY HeldDirectory DEF WriteDocument, Holding, Locking
<1>2. e \in Document /\ Follows(verb[p], doc[d], e)
  BY <1>1 DEF DataInv, CommandKnows, Knows
<1>3. /\ DataTypes /\ DirsOK /\ VersionsKept /\ ConfigInStep /\ NoneOrphaned
      /\ LockInv /\ made \in Nat
  BY DEF DataInv, FileInv, LockInv, FilesOK
<1>4. /\ doc' = [doc EXCEPT ![d] = e]
      /\ backups' = [backups EXCEPT ![d] = IF doc[d] = None THEN @ ELSE @ \cup {doc[d].ver}]
      /\ UNCHANGED <<config, tombs>>
  BY <1>1 DEF WriteDocument
<1> HIDE DEF e, d
<1>5. e # None /\ e.ver \in Nat /\ doc[d] \in Document \cup {None}
  BY <1>1, <1>2, <1>3, LocalAssumption DEF Document, DataTypes
<1>6. DataTypes'
  BY <1>1, <1>2, <1>3, <1>4, <1>5 DEF DataTypes, Document
<1>7. DirsOK'
  BY <1>1, <1>3, <1>4, <1>5 DEF DirsOK, DataTypes, Dirs
<1>8. VersionsKept'
  <2> SUFFICES ASSUME NEW x \in Dirs, doc'[x] # None, NEW v \in 0 .. doc'[x].ver - 1
               PROVE  v \in backups'[x]
    BY DEF VersionsKept
  <2>1. CASE x # d
    BY <2>1, <1>3, <1>4 DEF VersionsKept, DataTypes
  <2>2. CASE x = d
    <3>1. doc'[d] = e
      BY <1>1, <1>3, <1>4 DEF DataTypes
    <3>2. doc[d] # None
      BY <1>2, <2>2, <3>1 DEF Follows
    <3>3. e.ver = doc[d].ver + 1 /\ doc[d].ver \in Nat
      BY <1>2, <1>5, <3>2 DEF Follows, Document
    <3>4. backups'[d] = backups[d] \cup {doc[d].ver}
      BY <1>1, <1>3, <1>4, <3>2 DEF DataTypes
    <3>5. \A u \in 0 .. doc[d].ver - 1 : u \in backups[d]
      BY <1>1, <1>3, <3>2 DEF VersionsKept
    <3> QED  BY <2>2, <3>1, <3>3, <3>4, <3>5
  <2> QED  BY <2>1, <2>2
<1>9. ConfigInStep'
  <2> SUFFICES ASSUME NEW x \in Dirs, doc'[x] # None, config'[x] # doc'[x].split
               PROVE  \/ x \in unpublished'
                      \/ \E q \in Procs : pc'[q] = "refresh" /\ fd'[q] = x
    BY DEF ConfigInStep
  <2>1. CASE x \in unpublished
    BY <2>1
  <2>2. ASSUME NEW q \in Procs, pc[q] = "refresh", fd[q] = x
        PROVE  pc'[q] = "refresh" /\ fd'[q] = x
    BY <2>2 DEF Others
  <2>3. CASE x # d
    BY <2>1, <2>2, <2>3, <1>3, <1>4 DEF ConfigInStep, DataTypes
  <2>4. CASE x = d /\ verb[p].op \in Refreshing
    BY <1>1, <2>4
  <2>5. CASE x = d /\ verb[p].op \notin Refreshing
    <3>1. doc'[d] = e /\ config'[d] = config[d]
      BY <1>1, <1>3, <1>4 DEF DataTypes
    <3>2. CASE doc[d] = None
      BY <1>1, <1>2, <1>3, <2>5, <3>1, <3>2 DEF Follows, DirsOK
    <3>3. CASE doc[d] # None
      BY <1>1, <1>2, <1>3, <2>1, <2>2, <2>5, <3>1, <3>3 DEF Follows, ConfigInStep
    <3> QED  BY <3>2, <3>3
  <2> QED  BY <2>3, <2>4, <2>5
<1>10. NoneOrphaned'
  BY <1>3 DEF NoneOrphaned
<1>11. Loaded' = e
  BY <1>1, <1>3, <1>4, <1>5 DEF Loaded, EnvExists, DataTypes, d
<1> QED  BY <1>1, <1>2, <1>6, <1>7, <1>8, <1>9, <1>10, <1>11 DEF FileInv, e, d

\* A save, synced or not, keeps the invariant and makes the next version of
\* the document.
LEMMA SaveStep ==
  ASSUME DataInv, LockInv', NEW p \in Procs, Save(p) \/ SaveUnsynced(p)
  PROVE  /\ DataInv'
         /\ Loaded' = env[p] /\ env[p] \in Document /\ Follows(verb[p], Loaded, env[p])
<1>0. /\ CommandKnows(p) /\ CommandTypes /\ pc[p] = "save" /\ pc[p] \in Holding
      /\ unpublished \subseteq Dirs /\ fd[p] \in Dirs
      /\ pc \in [Procs -> Steps] /\ fd \in [Procs -> Dirs \cup {None}]
  BY HeldDirectory
     DEF DataInv, LockInv, CommandOK, FileInv, DataTypes, Save, SaveUnsynced, Holding, Locking
<1>1. wrote' = [wrote EXCEPT ![p] = TRUE] /\ WriteDocument(env[p]) /\ UNCHANGED <<report, orphaned>>
  BY DEF Save, SaveUnsynced, Wrote, history
<1>2. ASSUME NEW res \in {"ok", "committed_error", "unsynced"}, Return(p, res),
             verb[p].op \notin Refreshing \/ fd[p] \in unpublished',
             unpublished \subseteq unpublished', unpublished' \subseteq Dirs
      PROVE  /\ DataInv'
             /\ Loaded' = env[p] /\ env[p] \in Document /\ Follows(verb[p], Loaded, env[p])
  <2>1. Own(p)
    BY <1>0, <1>1, <1>2, Returning DEF Results
  <2>2. /\ FileInv'
        /\ Loaded' = env[p] /\ env[p] \in Document /\ Follows(verb[p], Loaded, env[p])
    BY <1>0, <1>1, <1>2, <2>1, WriteFiles DEF Own
  <2> QED  BY <1>0, <2>1, <2>2, OneCommand
<1>3. CASE Save(p) /\ verb[p].op \in Refreshing /\ Continue(p, "refresh")
  <2>1. Others(p) /\ pc'[p] = "refresh" /\ fd'[p] = fd[p] /\ UNCHANGED unpublished
    BY <1>0, <1>1, <1>3 DEF Others, Continue, Goto, CommandTypes, Save, history
  <2>2. /\ FileInv'
        /\ Loaded' = env[p] /\ env[p] \in Document /\ Follows(verb[p], Loaded, env[p])
    BY <1>0, <1>1, <2>1, WriteFiles
  <2>3. Knows("refresh", verb[p], env[p], torn[p], TRUE, result[p], Loaded')
    BY <1>0, <2>2 DEF CommandKnows, Knows, Untouched
  <2>4. Own(p)
    BY <1>1, <1>3, <2>3, Continuing
  <2> QED  BY <1>0, <2>2, <2>4, OneCommand
<1>4. CASE Save(p) /\ verb[p].op \notin Refreshing /\ (Return(p, "committed_error") \/ Return(p, "ok"))
  BY <1>0, <1>2, <1>4 DEF Save, history
<1>5. CASE SaveUnsynced(p)
  BY <1>0, <1>2, <1>5 DEF SaveUnsynced
<1> QED  BY <1>3, <1>4, <1>5 DEF Save, Refreshing

\* A refresh publishes the split of the document at the path, or marks the
\* directory; the document stays.
LEMMA RefreshStep ==
  ASSUME DataInv, LockInv', NEW p \in Procs, Refresh(p) \/ RefreshFails(p)
  PROVE  DataInv' /\ Loaded' = Loaded
<1> DEFINE d == current
<1>0. /\ CommandKnows(p) /\ CommandTypes /\ pc[p] = "refresh" /\ pc[p] \in Holding
      /\ unpublished \subseteq Dirs
      /\ pc \in [Procs -> Steps] /\ fd \in [Procs -> Dirs \cup {None}]
  BY DEF DataInv, LockInv, CommandOK, FileInv, DataTypes, Refresh, RefreshFails, Holding, Locking
<1>1. /\ d = fd[p] /\ d \in Dirs /\ Loaded = doc[d] /\ d # None
      /\ MakeDir => UNCHANGED <<current, made>>
  BY <1>0, HeldDirectory
<1>2. /\ UNCHANGED <<current, made, doc, backups, tombs, orphaned, wrote, report>>
      /\ \/ config' = [config EXCEPT ![d] = env[p].split] /\ unpublished \ {d} \subseteq unpublished'
         \/ UNCHANGED config /\ unpublished' = unpublished \cup {d}
      /\ unpublished' \subseteq unpublished \cup {d}
  BY <1>1 DEF Refresh, RefreshFails, Publish, Materialize, files
<1>3. env[p] \in Document /\ doc[d] = env[p]
  BY <1>0, <1>1 DEF CommandKnows, Knows
<1>4. \E res \in Results : Return(p, res) /\ (wrote[p] => res # "error")
  BY DEF Refresh, RefreshFails, RefreshError, Results
<1>5. wrote[p] \in BOOLEAN /\ wrote' = [wrote EXCEPT ![p] = wrote[p]]
  BY <1>0, <1>2 DEF CommandTypes
<1>6. Own(p)
  BY <1>0, <1>2, <1>4, <1>5, Returning
<1>7. Loaded' = Loaded
  BY <1>2 DEF Loaded, EnvExists
<1>8. DataTypes /\ DirsOK /\ VersionsKept /\ ConfigInStep /\ NoneOrphaned
  BY DEF DataInv, FileInv
<1>9. DataTypes'
  BY <1>0, <1>1, <1>2, <1>3, <1>8 DEF DataTypes, Document
<1>10. DirsOK' /\ VersionsKept' /\ NoneOrphaned'
  <2>1. env[p] # None
    BY <1>3, LocalAssumption DEF Document
  <2> QED  BY <2>1, <1>1, <1>2, <1>3, <1>8 DEF DirsOK, VersionsKept, NoneOrphaned, DataTypes
<1>11. ConfigInStep'
  <2> SUFFICES ASSUME NEW x \in Dirs, doc'[x] # None, config'[x] # doc'[x].split
               PROVE  \/ x \in unpublished'
                      \/ \E q \in Procs : pc'[q] = "refresh" /\ fd'[q] = x
    BY DEF ConfigInStep
  <2>1. CASE x = d
    BY <1>1, <1>2, <1>3, <1>8, <2>1 DEF DataTypes
  <2>2. CASE x # d
    <3>1. config'[x] = config[x] /\ doc'[x] = doc[x]
      BY <1>2, <1>8, <2>2 DEF DataTypes
    <3>2. x \in unpublished \/ \E q \in Procs : pc[q] = "refresh" /\ fd[q] = x
      BY <1>8, <3>1 DEF ConfigInStep
    <3>3. ASSUME NEW q \in Procs, pc[q] = "refresh", fd[q] = x
          PROVE  pc'[q] = "refresh" /\ fd'[q] = x
      BY <1>1, <1>6, <2>2, <3>3 DEF Own, Others
    <3> QED  BY <1>2, <2>2, <3>2, <3>3
  <2> QED  BY <2>1, <2>2
<1> QED  BY <1>6, <1>7, <1>9, <1>10, <1>11, OneCommand DEF FileInv

\* The rename of destroy retires the document whose resources were torn down.
LEMMA RenameStep ==
  ASSUME DataInv, LockInv', NEW p \in Procs, Rename(p)
  PROVE  DataInv' /\ Loaded # None /\ Loaded' = None
<1>0. /\ CommandKnows(p) /\ CommandTypes /\ pc[p] = "rename" /\ pc[p] \in Holding
      /\ pc \in [Procs -> Steps] /\ fd \in [Procs -> Dirs \cup {None}]
  BY DEF DataInv, LockInv, CommandOK, Rename, Holding, Locking
<1>1. Loaded # None /\ Loaded = doc[current] /\ current \in Dirs
  BY <1>0, LoadedType DEF CommandKnows, Knows
<1>2. orphaned' = orphaned
  BY <1>0, <1>1 DEF Rename, OwnsRemote, CommandKnows, Knows
<1>3. Loaded' = None
  BY DEF Rename, Loaded, EnvExists
<1>4. Own(p)
  <2>1. Knows("drop", verb[p], env[p], torn[p], TRUE, result[p], Loaded')
    BY <1>0 DEF CommandKnows, Knows, Untouched
  <2> QED  BY <2>1, Continuing DEF Rename, Wrote
<1>5. DataTypes /\ DirsOK /\ VersionsKept /\ ConfigInStep /\ NoneOrphaned
  BY DEF DataInv, FileInv
<1>6. UNCHANGED <<made, doc, config, backups, unpublished>>
  BY DEF Rename
<1>7. current' = None /\ tombs' \subseteq 1 .. made'
  BY DEF Rename, LockInv, FilesOK
<1>8. DirsOK'
  BY <1>5, <1>6, <1>7, LocalAssumption DEF DirsOK
<1>9. DataTypes' /\ VersionsKept' /\ NoneOrphaned'
  BY <1>2, <1>5, <1>6 DEF DataTypes, VersionsKept, NoneOrphaned
<1>10. ConfigInStep'
  BY <1>0, <1>4, <1>5, <1>6 DEF ConfigInStep, Own, Others
<1> QED  BY <1>0, <1>1, <1>3, <1>4, <1>8, <1>9, <1>10, OneCommand DEF FileInv

\* Removing tombstones leaves the directory at the path alone.
LEMMA RemoveFiles ==
  ASSUME DataInv, NEW p \in Procs, Others(p), pc[p] # "refresh", UNCHANGED history,
         NEW ds \in SUBSET tombs, Remove(ds)
  PROVE  FileInv' /\ Loaded' = Loaded
<1>1. DataTypes /\ DirsOK /\ VersionsKept /\ ConfigInStep /\ NoneOrphaned
  BY DEF DataInv, FileInv
<1>2. UNCHANGED <<current, made, unpublished, orphaned>> /\ tombs' \subseteq tombs
  BY DEF Remove, history
<1>3. \A d \in Dirs :
        IF d \in ds THEN doc'[d] = None /\ config'[d] = None
        ELSE doc'[d] = doc[d] /\ config'[d] = config[d] /\ backups'[d] = backups[d]
  BY DEF Remove
<1>4. DataTypes'
  BY <1>1, <1>2 DEF DataTypes, Remove
<1>5. DirsOK'
  BY <1>1, <1>2, <1>3 DEF DirsOK
<1>6. VersionsKept' /\ NoneOrphaned'
  BY <1>1, <1>2, <1>3 DEF VersionsKept, NoneOrphaned
<1>7. ConfigInStep'
  BY <1>1, <1>2, <1>3 DEF ConfigInStep, Others
<1>8. Loaded' = Loaded
  <2>1. CASE current = None
    BY <1>2, <2>1 DEF Loaded, EnvExists
  <2>2. CASE current # None
    <3>1. current \in Dirs /\ current \notin ds
      BY <1>1, <2>2, LocalAssumption DEF DataInv, LockInv, FilesOK, Dirs, DirsOK
    <3> QED  BY <1>2, <1>3, <3>1 DEF Loaded, EnvExists
  <2> QED  BY <2>1, <2>2
<1> QED  BY <1>4, <1>5, <1>6, <1>7, <1>8 DEF FileInv

\* The purges, whole or in part.
LEMMA PurgeStep ==
  ASSUME DataInv, LockInv', NEW p \in Procs, Purge(p) \/ Reap(p) \/ PurgeFails(p)
  PROVE  DataInv' /\ Loaded' = Loaded
<1>0. /\ CommandKnows(p) /\ CommandTypes /\ pc[p] \in {"purge", "reap"}
      /\ pc \in [Procs -> Steps] /\ fd \in [Procs -> Dirs \cup {None}]
      /\ UNCHANGED <<wrote, report, history>>
  BY DEF DataInv, LockInv, CommandOK, Purge, Reap, PurgeFails
<1>1. wrote[p] \in BOOLEAN /\ wrote' = [wrote EXCEPT ![p] = wrote[p]]
  BY <1>0 DEF CommandTypes
<1>2. CASE Purge(p) /\ fd[p] \notin tombs
  BY <1>0, <1>2, QuietReturn DEF Purge, files, Results
<1>3. ASSUME Own(p), NEW ds \in SUBSET tombs, Remove(ds) PROVE DataInv' /\ Loaded' = Loaded
  BY <1>0, <1>3, RemoveFiles, OneCommand DEF Own
<1>4. CASE Purge(p) /\ fd[p] \in tombs
  <2>1. Knows("reap", verb[p], env[p], torn[p], wrote[p], result[p], Loaded')
    BY <1>0 DEF CommandKnows, Knows, Untouched
  <2>2. Own(p)
    BY <1>0, <1>1, <1>4, <2>1, Continuing DEF Purge
  <2> QED  BY <1>3, <1>4, <2>2 DEF Purge
<1>5. CASE Reap(p) \/ PurgeFails(p)
  <2>1. Own(p)
    BY <1>0, <1>1, <1>5, Returning DEF Reap, PurgeFails, Results
  <2>2. \E ds \in SUBSET tombs : Remove(ds)
    BY <1>5 DEF Reap, PurgeFails
  <2> QED  BY <1>3, <2>1, <2>2
<1> QED  BY <1>2, <1>4, <1>5 DEF Purge

\* A command that is over knows nothing.
LEMMA Exiting ==
  ASSUME DataInv, NEW p \in Procs, Exit(p), ReportOK'
  PROVE  Own(p)
<1> USE DEF DataInv, LockInv, CommandOK, CommandTypes
<1>1. CommandKnows(p)'
  BY DEF CommandKnows, Knows, Exit, Goto
<1>2. Others(p)
  BY DEF Others, Exit, Goto
<1>3. CommandTypes'
  BY DEF Exit, Goto
<1> QED  BY <1>1, <1>2, <1>3 DEF Own

\* The end of a command: what it reports, or its death.
LEMMA ExitStep ==
  ASSUME DataInv, LockInv', NEW p \in Procs, AuditAppend(p) \/ AuditFails(p) \/ Crash(p)
  PROVE  DataInv' /\ Loaded' = Loaded
<1> USE DEF files
<1>0. CommandKnows(p) /\ CommandTypes /\ ReportOK
  BY DEF DataInv
<1>1. CASE AuditAppend(p) \/ AuditFails(p)
  <2>1. result[p] \in Results /\ wrote[p] \in BOOLEAN /\ (wrote[p] => result[p] # "error")
    BY <1>0, <1>1 DEF AuditAppend, AuditFails, CommandKnows, Knows, CommandTypes
  <2>2. ReportOK'
    <3>1. ASSUME NEW res \in Results \cup {"audit_failed"}, NEW audited \in BOOLEAN,
                 Tell(p, res, audited),
                 wrote[p] /\ ~audited => res \in {"audit_failed", "unsynced"}
          PROVE  ReportOK'
      BY <2>1, <3>1 DEF Tell, ReportOK, Report, CommittedIsAudited, Results
    <3>2. CASE AuditAppend(p)
      BY <2>1, <3>1, <3>2 DEF AuditAppend
    <3>3. CASE AuditFails(p)
      BY <2>1, <3>1, <3>3 DEF AuditFails, Committed, Results
    <3> QED  BY <1>1, <3>2, <3>3
  <2>3. Own(p)
    BY <1>1, <2>2, Exiting DEF AuditAppend, AuditFails, Tell
  <2> QED  BY <1>1, <2>3, QuietStep DEF AuditAppend, AuditFails
<1>2. CASE Crash(p)
  <2>1. ReportOK'
    BY <1>0, <1>2 DEF Crash, ReportOK, CommittedIsAudited
  <2>2. Own(p)
    BY <1>2, <2>1, Exiting DEF Crash
  <2>3. CASE pc[p] # "refresh"
    BY <1>2, <2>2, <2>3, QuietStep DEF Crash, history
  <2>4. CASE pc[p] = "refresh"
    <3>1. DataTypes /\ DirsOK /\ VersionsKept /\ ConfigInStep /\ NoneOrphaned
      BY DEF DataInv, FileInv
    <3>2. fd[p] \in Dirs
      BY <2>4, HeldDirectory DEF Holding, Locking
    <3>3. DataTypes' /\ DirsOK' /\ VersionsKept' /\ NoneOrphaned'
      BY <1>2, <2>4, <3>1, <3>2 DEF Crash, DataTypes, DirsOK, VersionsKept, NoneOrphaned
    <3>4. ConfigInStep'
      BY <1>2, <2>2, <2>4, <3>1 DEF Crash, ConfigInStep, Own, Others
    <3>5. Loaded' = Loaded
      BY <1>2 DEF Crash, Loaded, EnvExists
    <3> QED  BY <2>2, <3>3, <3>4, <3>5, OneCommand DEF FileInv
  <2> QED  BY <2>3, <2>4
<1> QED  BY <1>1, <1>2

\* The next version of a document is a step of the abstract document.
LEMMA NextVersion ==
  ASSUME NEW v, Loaded \in Document \cup {None}, Loaded' \in Document, Follows(v, Loaded, Loaded')
  PROVE  Stored!Create \/ Stored!Mutate
<1>1. CASE Loaded = None
  BY <1>1 DEF Stored!Create, Follows, Document
<1>2. CASE Loaded # None
  BY <1>2 DEF Stored!Mutate, Follows, Document
<1> QED  BY <1>1, <1>2

\* DataInv is inductive, and every step of every command is a step of the
\* abstract document or leaves it alone.
LEMMA DataStep ==
  ASSUME DataInv, [LocalNext]_vars
  PROVE  /\ DataInv'
         /\ Loaded' = Loaded \/ Stored!Create \/ Stored!Mutate \/ Stored!Destroy
<1>1. LockInv'
  BY LockStep DEF DataInv
<1>2. CASE UNCHANGED vars
  <2>1. UNCHANGED <<current, made, doc, config, backups, tombs, unpublished, orphaned, report>>
        /\ UNCHANGED <<pc, verb, fd, env, tries, torn, wrote, result>>
    BY <1>2 DEF vars, files, command, history
  <2>2. Loaded' = Loaded
    BY <2>1 DEF Loaded, EnvExists
  <2>3. FileInv'
    BY <2>1 DEF DataInv, FileInv, DataTypes, DirsOK, VersionsKept, ConfigInStep, NoneOrphaned
  <2>4. CommandTypes' /\ ReportOK' /\ \A p \in Procs : CommandKnows(p)'
    BY <2>1, <2>2 DEF DataInv, CommandTypes, ReportOK, CommittedIsAudited, CommandKnows
  <2> QED  BY <1>1, <2>2, <2>3, <2>4 DEF DataInv
<1>3. ASSUME NEW p \in Procs, Save(p) \/ SaveUnsynced(p)
      PROVE  DataInv' /\ (Stored!Create \/ Stored!Mutate)
  <2>1. /\ DataInv'
        /\ Loaded' = env[p] /\ env[p] \in Document /\ Follows(verb[p], Loaded, env[p])
    BY <1>1, <1>3, SaveStep
  <2> QED  BY <2>1, LoadedType, NextVersion
<1>4. ASSUME NEW p \in Procs, Rename(p)
      PROVE  DataInv' /\ Stored!Destroy
  BY <1>1, <1>4, RenameStep DEF Stored!Destroy
<1>5. ASSUME NEW p \in Procs, Step(p), ~Save(p), ~SaveUnsynced(p), ~Rename(p)
      PROVE  DataInv' /\ Loaded' = Loaded
  BY <1>1, <1>5, AcquireStep, LoadStep, RefreshStep, DestroyStep, PurgeStep, ExitStep DEF Step
<1>6. ASSUME NEW p \in Procs, Crash(p) \/ \E v \in Verbs : Start(p, v)
      PROVE  DataInv' /\ Loaded' = Loaded
  BY <1>1, <1>6, AcquireStep, ExitStep
<1> QED
  BY <1>2, <1>3, <1>4, <1>5, <1>6 DEF LocalNext

\* An empty root satisfies the invariant.
LEMMA DataStart == LocalInit => DataInv /\ Loaded = None
<1> SUFFICES ASSUME LocalInit PROVE DataInv /\ Loaded = None
  OBVIOUS
<1> USE LocalAssumption DEF LocalInit
<1>1. LockInv
  BY DEF LockInv, FilesOK, CommandOK, LockOK, Steps, Locking, Holding, Dirs
<1>2. FileInv
  BY DEF FileInv, DataTypes, DirsOK, VersionsKept, ConfigInStep, NoneOrphaned
<1>3. CommandTypes /\ ReportOK
  BY DEF CommandTypes, ReportOK, CommittedIsAudited
<1>4. \A p \in Procs : CommandKnows(p)
  BY DEF CommandKnows, Knows
<1>5. Loaded = None
  BY DEF Loaded, EnvExists
<1> QED  BY <1>1, <1>2, <1>3, <1>4, <1>5 DEF DataInv

\* DataInv holds in every reachable state: what a command computes from the
\* document stays valid until it writes.
THEOREM DataInvHolds == LocalSpec => []DataInv
<1>1. DataInv /\ [LocalNext]_vars => DataInv'
  BY DataStep
<1> QED
  BY <1>1, DataStart, PTL DEF LocalSpec

\* The safety of the store for any number of commands, directories, versions
\* and retries, whichever calls fail and wherever commands die: one command at
\* a time works on the files, every version is in the backups, the runtime
\* configuration follows the document, an unforced destroy orphans nothing and
\* a change that was not recorded is reported as such.
THEOREM LocalSafe == LocalSpec => []LocalSound
<1>1. DataInv => LocalSound
  <2> SUFFICES ASSUME DataInv PROVE LocalSound
    OBVIOUS
  <2>1. OneHolder
    BY DEF DataInv, LockInv, LockOK, OneHolder, Holding, Locking
  <2>2. orphaned \subseteq Dirs
    BY DEF DataInv, FileInv, NoneOrphaned
  <2>3. LocalTypeOK
    BY <2>2 DEF DataInv, LockInv, FilesOK, CommandOK, CommandTypes, FileInv, DataTypes, ReportOK,
                Results, LocalTypeOK
  <2> QED  BY <2>1, <2>3 DEF DataInv, FileInv, ReportOK, LocalSound
<1> QED
  BY <1>1, DataInvHolds, PTL

\* The files of any number of racing, failing and dying commands implement one
\* document that every verb reads and replaces in one step (transact): no
\* update is lost, and no verb that started before a destroy brings the
\* destroyed document back.
THEOREM DocumentRefined == LocalSpec => ImplementsDocument
<1>1. LocalInit => Loaded = None
  BY DataStart
<1>2. DataInv /\ [LocalNext]_vars
        => [Stored!Create \/ Stored!Mutate \/ Stored!Destroy]_Loaded
  BY DataStep
<1> QED
  BY <1>1, <1>2, DataInvHolds, PTL DEF LocalSpec, ImplementsDocument, Stored!Spec
=============================================================================
