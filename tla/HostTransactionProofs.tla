----------------------- MODULE HostTransactionProofs -----------------------
(***************************************************************************)
(* Proofs about the service transaction: it implements HostConfig for any  *)
(* deployments, storage contracts and number of faults.                    *)
(***************************************************************************)
EXTENDS HostTransaction, TLAPS

-----------------------------------------------------------------------------
(* The inductive invariant: what each position of the supervisor may rely  *)
(* on.  The sets name the positions after a call of apply or of restore.   *)

Committing == {"healthy", "record", "commit"}
Enabled == Committing \cup {"prelaunch", "restart"}
Reloaded == Enabled \cup {"enable"}
WroteEnv == Reloaded \cup {"reload"}
WroteUnit == WroteEnv \cup {"env"}

EnabledBack == {"restart_back", "clear"}
ReloadedBack == EnabledBack \cup {"enable_back"}
InstalledBack == ReloadedBack \cup {"reload_back"}
EnvBack == InstalledBack \cup {"installed_back"}
UnitBack == EnvBack \cup {"env_back"}
Disabled == UnitBack \cup {"unit_back"}
Stopped == (Disabled \cup {"disable"}) \ {"clear"}

Supervisor == [pc: Applying \cup Restoring \cup {"idle", "save", "rejournal"},
               plan: Versions \cup {None}, saved: Journal \cup {None}, recovering: BOOLEAN]

HostShape ==
  /\ disk \in Disk
  /\ enabled \in BOOLEAN
  /\ loaded \in Content
  /\ running \in Started \cup {None}
  /\ journal \in Journal \cup {None}

Shape ==
  /\ HostShape
  /\ sup \in Supervisor
  /\ sup.pc # "idle" => sup.plan \in Versions

\* Without a unit nothing runs and nothing is wanted at boot.
NoUnit ==
  /\ disk.unit = None => running = None /\ enabled = FALSE
  /\ journal # None /\ journal.disk.unit = None => journal.active = FALSE /\ journal.enabled = FALSE

MatchesDisk == running # None => running = [unit |-> disk.unit, env |-> disk.env]

\* Without a journal the host is settled.
Settled ==
  journal = None => loaded = disk.unit /\ MatchesDisk

\* The journal of a supervisor at work is on disk.
Held ==
  /\ sup.pc \in Applying \cup Restoring => journal # None /\ journal = sup.saved
  /\ sup.pc \in {"save", "rejournal"} => journal = None

\* The apply replaces a configuration that it may replace.
Replaceable ==
  sup.pc \in Applying =>
    IF sup.saved.disk.installed = None THEN sup.saved.disk.unit = None
    ELSE Contract(sup.saved.disk.installed) = Contract(sup.plan)

\* What the calls of apply have done so far.
Applied ==
  /\ sup.pc \in WroteUnit => disk.unit = sup.plan
  /\ sup.pc \in WroteEnv => disk.env = sup.plan
  /\ sup.pc \in Reloaded => loaded = sup.plan
  /\ sup.pc \in Enabled => enabled = TRUE
  /\ sup.pc \in Committing => MatchesDisk
  /\ sup.pc = "commit" => disk.installed = sup.plan

\* What the calls of restore have done so far.
Restored ==
  /\ sup.pc \in Stopped => running = None
  /\ sup.pc \in Disabled /\ sup.saved.enabled = FALSE => enabled = FALSE
  /\ sup.pc \in UnitBack => disk.unit = sup.saved.disk.unit
  /\ sup.pc \in EnvBack => disk.env = sup.saved.disk.env
  /\ sup.pc \in InstalledBack => disk.installed = sup.saved.disk.installed
  /\ sup.pc \in ReloadedBack => loaded = disk.unit
  /\ sup.pc \in EnabledBack => enabled = sup.saved.enabled
  /\ sup.pc = "clear" => MatchesDisk /\ (running # None => sup.saved.active = TRUE)

\* A commit whose sync failed can still be taken back.
Revocable ==
  sup.pc = "rejournal" =>
    /\ sup.saved # None
    /\ sup.saved.disk.unit = None => sup.saved.active = FALSE /\ sup.saved.enabled = FALSE
    /\ previous = ConfigOf(sup.saved.disk, sup.saved.enabled)

HostInv ==
  /\ Shape
  /\ NoUnit
  /\ Settled
  /\ Held
  /\ Replaceable
  /\ Applied
  /\ Restored
  /\ Revocable

-----------------------------------------------------------------------------
(* Lemmas about the calls.                                                 *)

\* The positions of a supervisor at work, one by one.
LEMMA Positions ==
  /\ Applying = {"unit", "env", "reload", "enable", "prelaunch", "restart", "healthy",
                 "record", "commit"}
  /\ Restoring = {"stop", "disable", "unit_back", "env_back", "installed_back",
                  "reload_back", "enable_back", "restart_back", "clear"}
BY DEF Applying, Restoring, AfterApply, AfterRestore

\* The position after each call of apply.
LEMMA ApplyOrder ==
  /\ AfterApply["unit"] = "env" /\ AfterApply["env"] = "reload"
  /\ AfterApply["reload"] = "enable" /\ AfterApply["enable"] = "prelaunch"
  /\ AfterApply["prelaunch"] = "restart" /\ AfterApply["restart"] = "healthy"
  /\ AfterApply["healthy"] = "record" /\ AfterApply["record"] = "commit"
BY DEF AfterApply

\* The position after each call of restore.
LEMMA RestoreOrder ==
  /\ AfterRestore["stop"] = "disable" /\ AfterRestore["disable"] = "unit_back"
  /\ AfterRestore["unit_back"] = "env_back" /\ AfterRestore["env_back"] = "installed_back"
  /\ AfterRestore["installed_back"] = "reload_back"
  /\ AfterRestore["reload_back"] = "enable_back"
  /\ AfterRestore["enable_back"] = "restart_back" /\ AfterRestore["restart_back"] = "clear"
BY DEF AfterRestore

\* Whether or not it is reported as done, a call of apply leaves a host that a
\* restore can start from, and only the last one touches the journal.
LEMMA ApplyCallKeeps ==
  ASSUME HostInv, ApplyCall
  PROVE  /\ HostShape' /\ NoUnit' /\ Settled'
         /\ sup.pc \in Applying
         /\ IF sup.pc = "commit" THEN journal' = None ELSE journal' = journal
<1> USE TransactionAssumption DEF HostInv, Shape, HostShape, Supervisor, Content
<1>1. CASE sup.pc \in {"unit", "env", "record"} /\ \E f \in {"unit", "env", "installed"} : Write(f, sup.plan)
  BY <1>1, Positions DEF Write, NoUnit, Settled, Held, MatchesDisk, Disk
<1>2. CASE sup.pc = "reload" /\ DaemonReload
  BY <1>2, Positions DEF DaemonReload, NoUnit, Settled, Held, MatchesDisk, Disk
<1>3. CASE sup.pc = "enable" /\ SetEnabled(TRUE)
  BY <1>3, Positions DEF SetEnabled, NoUnit, Settled, Held, MatchesDisk, Disk, Applied,
     WroteUnit, WroteEnv, Reloaded
<1>4. CASE sup.pc \in {"prelaunch", "healthy"} /\ UNCHANGED host
  BY <1>4, Positions DEF host, NoUnit, Settled, MatchesDisk
<1>5. CASE sup.pc = "restart" /\ StartService
  BY <1>5, Positions DEF StartService, NoUnit, Settled, Held, MatchesDisk, Disk, Started,
     Applied, WroteUnit, WroteEnv, Reloaded, Enabled
<1>6. CASE sup.pc = "commit" /\ RemoveJournal
  BY <1>6, Positions DEF RemoveJournal, NoUnit, Settled, Held, MatchesDisk, Disk,
     Applied, WroteUnit, WroteEnv, Reloaded, Enabled, Committing
<1> QED  BY <1>1, <1>2, <1>3, <1>4, <1>5, <1>6 DEF ApplyCall

\* The same for a call of restore.
LEMMA RestoreCallKeeps ==
  ASSUME HostInv, RestoreCall
  PROVE  /\ HostShape' /\ NoUnit' /\ Settled'
         /\ sup.pc \in Restoring
         /\ IF sup.pc = "clear" THEN journal' = None ELSE journal' = journal
<1> USE TransactionAssumption DEF HostInv, Shape, HostShape, Supervisor, Content, Journal
<1>0. sup.pc \in Restoring => sup.saved \in Journal
  BY DEF Held
<1>1. CASE sup.pc = "stop" /\ StopBefore
  BY <1>1, Positions DEF StopBefore, StopService, host, NoUnit, Settled, Held, MatchesDisk
<1>2. CASE sup.pc = "disable" /\ DisableBefore
  BY <1>2, Positions DEF DisableBefore, SetEnabled, host, NoUnit, Settled, Held, MatchesDisk
<1>3. CASE sup.pc = "unit_back" /\ Write("unit", sup.saved.disk.unit)
  BY <1>0, <1>3, Positions DEF Write, NoUnit, Settled, Held, MatchesDisk, Disk, Restored,
     Stopped, Disabled, UnitBack, EnvBack, InstalledBack, ReloadedBack, EnabledBack
<1>4. CASE sup.pc = "env_back" /\ Write("env", sup.saved.disk.env)
  BY <1>0, <1>4, Positions DEF Write, NoUnit, Settled, Held, MatchesDisk, Disk
<1>5. CASE sup.pc = "installed_back" /\ Write("installed", sup.saved.disk.installed)
  BY <1>0, <1>5, Positions DEF Write, NoUnit, Settled, Held, MatchesDisk, Disk
<1>6. CASE sup.pc = "reload_back" /\ ReloadBack
  BY <1>6, Positions DEF ReloadBack, DaemonReload, NoUnit, Settled, Held, MatchesDisk, Disk
<1>7. CASE sup.pc = "enable_back" /\ EnableBack
  BY <1>0, <1>7, Positions DEF EnableBack, SetEnabled, host, NoUnit, Settled, Held, MatchesDisk,
     Restored, Disabled, UnitBack, EnvBack, InstalledBack, ReloadedBack, EnabledBack
<1>8. CASE sup.pc = "restart_back" /\ RestartBack
  BY <1>0, <1>8, Positions DEF RestartBack, StartService, host, NoUnit, Settled, Held,
     MatchesDisk, Started, Disk,
     Restored, UnitBack, EnvBack, InstalledBack, ReloadedBack, EnabledBack
<1>9. CASE sup.pc = "clear" /\ RemoveJournal
  BY <1>9, Positions DEF RemoveJournal, NoUnit, Settled, Held, MatchesDisk,
     Restored, ReloadedBack, EnabledBack
<1> QED
  BY <1>1, <1>2, <1>3, <1>4, <1>5, <1>6, <1>7, <1>8, <1>9 DEF RestoreCall

-----------------------------------------------------------------------------
(* Every step preserves the invariant.                                     *)

\* A host before its first transaction.
LEMMA InitHolds == TransactionInit => HostInv
BY TransactionAssumption DEF TransactionInit, HostInv, Shape, HostShape, NoUnit, Settled, Held,
   Replaceable, Applied, Restored, Revocable, MatchesDisk, Supervisor, Idle, Content, Disk,
   Started, Applying, AfterApply, Restoring, AfterRestore, Stopped, Disabled, UnitBack, EnvBack,
   InstalledBack, ReloadedBack, EnabledBack, WroteUnit, WroteEnv, Reloaded, Enabled, Committing

\* Whatever happened to the host, a supervisor that gave up or begins a restore
\* relies on nothing but the journal.
LEMMA BackToJournal ==
  ASSUME HostShape', NoUnit', Settled', sup' \in Supervisor,
         \/ sup' = Idle
         \/ sup'.pc = "save" /\ sup'.plan \in Versions /\ journal' = None
         \/ /\ sup'.pc = "stop" /\ sup'.plan \in Versions
            /\ journal' # None /\ journal' = sup'.saved
  PROVE  HostInv'
BY Positions DEF HostInv, Shape, Held, Replaceable, Applied, Restored, Revocable, Idle,
   Stopped, Disabled, UnitBack, EnvBack, InstalledBack, ReloadedBack, EnabledBack,
   WroteUnit, WroteEnv, Reloaded, Enabled, Committing

\* A supervisor takes the lock and starts.
LEMMA StartKeeps ==
  ASSUME HostInv, NEW v \in Versions, Start(v)
  PROVE  HostInv'
<1>1. HostShape' /\ NoUnit' /\ Settled'
  BY DEF Start, host, HostInv, Shape, HostShape, NoUnit, Settled, MatchesDisk
<1>2. sup' \in Supervisor
  BY Positions DEF Start, HostInv, Shape, HostShape, Supervisor, Idle
<1> QED  BY <1>1, <1>2, BackToJournal, Positions DEF Start, host, Idle

\* The journal that a transaction saves describes the host as it is.
LEMMA SavedJournal ==
  ASSUME HostInv
  PROVE  LET j == [disk |-> disk, enabled |-> enabled, active |-> Active] IN
         /\ j \in Journal /\ j # None
         /\ j.disk = disk /\ j.enabled = enabled /\ (running = None => j.active = FALSE)
<1> DEFINE j == [disk |-> disk, enabled |-> enabled, active |-> Active]
<1>1. j \in Journal
  <2>1. Active \in BOOLEAN
    BY DEF Active
  <2> QED  BY <2>1 DEF Journal, HostInv, Shape, HostShape
<1>2. j # None
  BY <1>1, TransactionAssumption
<1>3. j.disk = disk /\ j.enabled = enabled /\ (running = None => j.active = FALSE)
  BY DEF Active
<1> QED  BY <1>1, <1>2, <1>3

\* The journal is written.
LEMMA SaveKeeps ==
  ASSUME HostInv, Save
  PROVE  HostInv'
<1> DEFINE j == [disk |-> disk, enabled |-> enabled, active |-> Active]
<1>1. /\ j \in Journal /\ j # None
      /\ j.disk = disk /\ j.enabled = enabled /\ (running = None => j.active = FALSE)
  BY SavedJournal
<1>3. /\ journal' = j /\ sup.pc = "save"
      /\ sup' = [sup EXCEPT !.pc = "unit", !.saved = j, !.recovering = FALSE]
      /\ UNCHANGED <<disk, enabled, loaded, running>>
  BY DEF Save
<1>5. sup' \in Supervisor /\ sup'.pc = "unit" /\ sup'.saved = j /\ sup'.plan = sup.plan
  BY <1>1, <1>3, Positions DEF HostInv, Shape, Supervisor
<1> HIDE DEF j
<1>6. Shape'
  BY <1>1, <1>3, <1>5 DEF HostInv, Shape, HostShape
<1>7. NoUnit' /\ Settled' /\ Held'
  BY <1>1, <1>3, <1>5, Positions DEF HostInv, Shape, HostShape, NoUnit, Settled, Held
<1>8. Replaceable'
  <2>1. StorageContractValid(sup.plan, FALSE)
    BY DEF Save
  <2> QED  BY <2>1, <1>1, <1>3, <1>5 DEF Replaceable, StorageContractValid
<1>9. Applied' /\ Restored' /\ Revocable'
  BY <1>5, Positions
  DEF Applied, Restored, Revocable, Stopped, Disabled, UnitBack, EnvBack, InstalledBack,
      ReloadedBack, EnabledBack, WroteUnit, WroteEnv, Reloaded, Enabled, Committing
<1> QED  BY <1>6, <1>7, <1>8, <1>9 DEF HostInv

\* The plan is refused, or the write of the journal fails with or without its effect.
LEMMA SaveRefusedKeeps ==
  ASSUME HostInv, SaveRefused
  PROVE  HostInv'
<1> DEFINE j == [disk |-> disk, enabled |-> enabled, active |-> Active]
<1>1. /\ j \in Journal /\ j # None
      /\ j.disk = disk /\ j.enabled = enabled /\ (running = None => j.active = FALSE)
  BY SavedJournal
<1>2. /\ journal' = j \/ journal' = journal
      /\ sup' = Idle
      /\ UNCHANGED <<disk, enabled, loaded, running>>
  BY DEF SaveRefused
<1> HIDE DEF j
<1>3. HostShape' /\ NoUnit' /\ Settled'
  BY <1>1, <1>2 DEF HostInv, Shape, HostShape, NoUnit, Settled, MatchesDisk, SaveRefused, Held
<1>4. sup' \in Supervisor
  BY <1>2 DEF Supervisor, Idle
<1> QED  BY <1>2, <1>3, <1>4, BackToJournal

\* A supervisor that begins a restore, or gives up, after any call of apply.
LEMMA ApplyFailsKeeps ==
  ASSUME HostInv, Unhealthy \/ ApplyFails,
         previous' = IF sup.pc = "commit" /\ journal' = None THEN config ELSE previous
  PROVE  HostInv'
<1>1. sup.pc \in Applying /\ journal # None /\ journal = sup.saved /\ sup.saved \in Journal
      /\ sup.plan \in Versions /\ sup \in Supervisor
  BY Positions, TransactionAssumption
  DEF HostInv, Held, Shape, HostShape, Unhealthy, ApplyFails, Supervisor
<1>2. CASE ApplyCall /\ ApplyFails
  <2>1. HostShape' /\ NoUnit' /\ Settled'
    BY <1>2, ApplyCallKeeps
  <2>2. CASE sup.pc # "commit"
    <3>1. journal' = journal /\ sup' = [sup EXCEPT !.pc = "stop"]
      BY <1>1, <1>2, <2>2, ApplyCallKeeps DEF ApplyFails
    <3>2. sup' \in Supervisor /\ sup'.pc = "stop" /\ sup'.plan \in Versions /\ sup'.saved = sup.saved
      BY <1>1, <3>1, Positions DEF Supervisor
    <3> QED  BY <1>1, <2>1, <3>1, <3>2, BackToJournal
  <2>3. CASE sup.pc = "commit"
    <3>1. journal' = None /\ sup' = [sup EXCEPT !.pc = "rejournal"]
      BY <1>2, <2>3, ApplyCallKeeps DEF ApplyFails
    <3>2. sup' \in Supervisor /\ sup'.pc = "rejournal" /\ sup'.plan \in Versions
          /\ sup'.saved = sup.saved
      BY <1>1, <3>1 DEF Supervisor
    <3>3. Shape' /\ Held'
      BY <2>1, <3>1, <3>2, Positions DEF Shape, Held
    <3>4. Revocable'
      BY <1>1, <2>3, <3>1, <3>2 DEF Revocable, config, ConfigOf, HostInv, NoUnit
    <3>5. Replaceable' /\ Applied' /\ Restored'
      BY <3>2, Positions
      DEF Replaceable, Applied, Restored, Stopped, Disabled, UnitBack, EnvBack, InstalledBack,
          ReloadedBack, EnabledBack, WroteUnit, WroteEnv, Reloaded, Enabled, Committing
    <3> QED  BY <2>1, <3>3, <3>4, <3>5 DEF HostInv
  <2> QED  BY <2>2, <2>3
<1>3. CASE UNCHANGED host /\ sup' = [sup EXCEPT !.pc = "stop"]
  <2>1. HostShape' /\ NoUnit' /\ Settled' /\ journal' = journal
    BY <1>3 DEF host, HostInv, Shape, HostShape, NoUnit, Settled, MatchesDisk
  <2>2. sup' \in Supervisor /\ sup'.pc = "stop" /\ sup'.plan \in Versions /\ sup'.saved = sup.saved
    BY <1>1, <1>3, Positions DEF Supervisor
  <2> QED  BY <1>1, <2>1, <2>2, BackToJournal
<1> QED  BY <1>1, <1>2, <1>3 DEF Unhealthy, ApplyFails, host

\* A call of the apply succeeds.
LEMMA ApplyKeeps ==
  ASSUME HostInv, Apply
  PROVE  HostInv'
<1>1. HostShape' /\ NoUnit' /\ Settled' /\ sup.pc \in Applying
  BY ApplyCallKeeps DEF Apply
<1>2. /\ journal # None /\ journal = sup.saved /\ sup.plan \in Versions /\ sup \in Supervisor
      /\ disk \in Disk
  BY <1>1, Positions DEF HostInv, Held, Shape, HostShape
<1>3. CASE sup.pc = "commit"
  BY <1>1, <1>3, Positions, BackToJournal DEF Apply, Supervisor, Idle
<1>4. CASE sup.pc # "commit"
  <2>1. /\ sup' = [sup EXCEPT !.pc = AfterApply[sup.pc]]
        /\ AfterApply[sup.pc] \in Applying \ {"unit"}
    BY <1>1, <1>4, ApplyOrder, Positions DEF Apply
  <2>2. /\ sup' \in Supervisor /\ sup'.pc = AfterApply[sup.pc] /\ sup'.plan = sup.plan
        /\ sup'.saved = sup.saved
    BY <1>2, <2>1 DEF Supervisor
  <2>3. journal' = journal
    BY <1>4, ApplyCallKeeps DEF Apply
  <2>4. Shape' /\ Held' /\ Replaceable' /\ Revocable'
    BY <1>1, <1>2, <2>1, <2>2, <2>3, Positions DEF HostInv, Shape, Held, Replaceable, Revocable
  <2>5. Restored'
    BY <2>1, <2>2, Positions
    DEF Restored, Stopped, Disabled, UnitBack, EnvBack, InstalledBack, ReloadedBack, EnabledBack
  <2>6. Applied'
    <3> USE <1>2, <2>2, ApplyOrder DEF HostInv, Applied, MatchesDisk, WroteUnit, WroteEnv, Reloaded,
            Enabled, Committing, Disk
    <3>1. CASE sup.pc = "unit" /\ Write("unit", sup.plan)
      BY <3>1 DEF Write
    <3>2. CASE sup.pc = "env" /\ Write("env", sup.plan)
      BY <3>2 DEF Write
    <3>3. CASE sup.pc = "reload" /\ DaemonReload
      BY <3>3 DEF DaemonReload
    <3>4. CASE sup.pc = "enable" /\ SetEnabled(TRUE)
      BY <3>4 DEF SetEnabled
    <3>5. CASE sup.pc \in {"prelaunch", "healthy"} /\ UNCHANGED host
      BY <3>5 DEF host
    <3>6. CASE sup.pc = "restart" /\ StartService
      BY <3>6 DEF StartService
    <3>7. CASE sup.pc = "record" /\ Write("installed", sup.plan)
      BY <3>7 DEF Write
    <3> QED  BY <1>4, <3>1, <3>2, <3>3, <3>4, <3>5, <3>6, <3>7 DEF Apply, ApplyCall
  <2> QED  BY <1>1, <2>4, <2>5, <2>6 DEF HostInv
<1> QED  BY <1>3, <1>4

\* A rollback writes its journal again.
LEMMA RejournalKeeps ==
  ASSUME HostInv, RejournalCall, sup' = Idle \/ sup' = [sup EXCEPT !.pc = "stop"]
  PROVE  HostInv'
<1>1. /\ sup.pc = "rejournal" /\ journal' = sup.saved /\ sup.saved # None
      /\ sup.plan \in Versions /\ sup \in Supervisor
      /\ UNCHANGED <<disk, enabled, loaded, running>>
  BY DEF RejournalCall, HostInv, Revocable, Shape
<1>2. HostShape' /\ NoUnit' /\ Settled'
  BY <1>1 DEF HostInv, Shape, HostShape, NoUnit, Settled, Revocable, Supervisor
<1>3. CASE sup' = Idle
  BY <1>2, <1>3, BackToJournal DEF Supervisor, Idle
<1>4. CASE sup' = [sup EXCEPT !.pc = "stop"]
  <2>1. sup' \in Supervisor /\ sup'.pc = "stop" /\ sup'.plan \in Versions /\ sup'.saved = sup.saved
    BY <1>1, <1>4, Positions DEF Supervisor
  <2> QED  BY <1>1, <1>2, <2>1, BackToJournal
<1> QED  BY <1>3, <1>4

\* A call of the rollback succeeds.
LEMMA RestoreKeeps ==
  ASSUME HostInv, Restore
  PROVE  HostInv'
<1>1. HostShape' /\ NoUnit' /\ Settled' /\ sup.pc \in Restoring
  BY RestoreCallKeeps DEF Restore
<1>2. /\ journal # None /\ journal = sup.saved /\ sup.plan \in Versions /\ sup \in Supervisor
      /\ disk \in Disk /\ sup.saved \in Journal /\ enabled \in BOOLEAN
  BY <1>1, Positions DEF HostInv, Held, Shape, HostShape
<1>3. CASE sup.pc = "clear"
  <2>1. journal' = None
    BY <1>3, RestoreCallKeeps DEF Restore
  <2> QED
    BY <1>1, <1>2, <1>3, <2>1, Positions, BackToJournal DEF Restore, Supervisor, Idle
<1>4. CASE sup.pc # "clear"
  <2>1. /\ sup' = [sup EXCEPT !.pc = AfterRestore[sup.pc]]
        /\ AfterRestore[sup.pc] \in Restoring \ {"stop"}
    BY <1>1, <1>4, RestoreOrder, Positions DEF Restore
  <2>2. /\ sup' \in Supervisor /\ sup'.pc = AfterRestore[sup.pc] /\ sup'.plan = sup.plan
        /\ sup'.saved = sup.saved
    BY <1>2, <2>1 DEF Supervisor
  <2>3. journal' = journal
    BY <1>4, RestoreCallKeeps DEF Restore
  <2>4. Shape' /\ Held' /\ Replaceable' /\ Revocable'
    BY <1>1, <1>2, <2>1, <2>2, <2>3, Positions DEF HostInv, Shape, Held, Replaceable, Revocable
  <2>5. Applied'
    BY <2>1, <2>2, Positions DEF Applied, WroteUnit, WroteEnv, Reloaded, Enabled, Committing
  <2>6. Restored'
    <3> USE <1>2, <2>2, RestoreOrder DEF HostInv, Restored, MatchesDisk, Stopped, Disabled, UnitBack,
            EnvBack, InstalledBack, ReloadedBack, EnabledBack, Disk, Journal
    <3>1. CASE sup.pc = "stop" /\ StopBefore
      BY <3>1 DEF StopBefore, StopService, UnitExists, NoUnit, host
    <3>2. CASE sup.pc = "disable" /\ DisableBefore
      BY <3>2 DEF DisableBefore, SetEnabled, UnitExists, NoUnit, host
    <3>3. CASE sup.pc = "unit_back" /\ Write("unit", sup.saved.disk.unit)
      BY <3>3 DEF Write
    <3>4. CASE sup.pc = "env_back" /\ Write("env", sup.saved.disk.env)
      BY <3>4 DEF Write
    <3>5. CASE sup.pc = "installed_back" /\ Write("installed", sup.saved.disk.installed)
      BY <3>5 DEF Write
    <3>6. CASE sup.pc = "reload_back" /\ ReloadBack
      BY <3>6 DEF ReloadBack, DaemonReload
    <3>7. CASE sup.pc = "enable_back" /\ EnableBack
      BY <3>7 DEF EnableBack, SetEnabled, host
    <3>8. CASE sup.pc = "restart_back" /\ RestartBack
      BY <3>8 DEF RestartBack, StartService, host
    <3> QED
      BY <1>4, <3>1, <3>2, <3>3, <3>4, <3>5, <3>6, <3>7, <3>8 DEF Restore, RestoreCall
  <2> QED  BY <1>1, <2>4, <2>5, <2>6 DEF HostInv
<1> QED  BY <1>3, <1>4

\* The supervisor is gone: its rollback failed, it crashed or the host rebooted.
LEMMA GiveUpKeeps ==
  ASSUME HostInv, RestoreFails \/ Crash \/ Reboot
  PROVE  HostInv'
<1>1. sup' = Idle /\ sup' \in Supervisor
  <2>1. sup' = Idle
    BY DEF RestoreFails, Crash, Reboot
  <2> QED  BY <2>1 DEF Supervisor, Idle
<1>2. CASE RestoreFails /\ RestoreCall
  BY <1>1, <1>2, RestoreCallKeeps, BackToJournal
<1>3. CASE RestoreFails /\ RejournalCall
  BY <1>1, <1>3, RejournalKeeps
<1>4. CASE UNCHANGED host
  <2>1. HostShape' /\ NoUnit' /\ Settled'
    BY <1>4 DEF host, HostInv, Shape, HostShape, NoUnit, Settled, MatchesDisk
  <2> QED  BY <1>1, <2>1, BackToJournal
<1>5. CASE Reboot
  <2>1. HostShape' /\ NoUnit' /\ Settled'
    BY <1>5
    DEF Reboot, UnitExists, HostInv, Shape, HostShape, NoUnit, Settled, MatchesDisk, Started, Disk
  <2> QED  BY <1>1, <2>1, BackToJournal
<1> QED  BY <1>2, <1>3, <1>4, <1>5 DEF RestoreFails, Crash, host

\* The service exits and systemd starts it again, or not.
LEMMA ServiceExitsKeeps ==
  ASSUME HostInv, ServiceExits, previous' = previous
  PROVE  HostInv'
<1>1. /\ running' \in {None, [unit |-> loaded, env |-> disk.env]}
      /\ running # None
      /\ UNCHANGED <<disk, enabled, loaded, journal, sup>>
  BY DEF ServiceExits, StartService, StopService, Active
<1>2. Shape' /\ NoUnit' /\ Held' /\ Replaceable' /\ Revocable'
  BY <1>1
  DEF HostInv, Shape, HostShape, NoUnit, Held, Replaceable, Revocable, Started, Disk
<1>3. Settled'
  BY <1>1 DEF HostInv, Settled, MatchesDisk
<1>4. Applied'
  BY <1>1 DEF HostInv, Applied, MatchesDisk, WroteUnit, WroteEnv, Reloaded, Enabled, Committing
<1>5. Restored'
  BY <1>1
  DEF HostInv, Restored, MatchesDisk, Stopped, Disabled, UnitBack, EnvBack, InstalledBack,
      ReloadedBack, EnabledBack
<1> QED  BY <1>2, <1>3, <1>4, <1>5 DEF HostInv

\* Every step keeps the invariant.
LEMMA StepKeeps ==
  ASSUME HostInv, [TransactionNext]_vars
  PROVE  HostInv'
<1>1. CASE UNCHANGED vars
  BY <1>1
  DEF vars, HostInv, Shape, HostShape, NoUnit, Settled, Held, Replaceable, Applied, Restored,
      Revocable, MatchesDisk
<1>2. CASE TransactionNext
  <2>1. previous' = IF sup.pc = "commit" /\ journal' = None THEN config ELSE previous
    BY <1>2 DEF TransactionNext
  <2>2. CASE \E v \in Versions : Start(v)
    BY <2>2, StartKeeps
  <2>3. CASE Save
    BY <2>3, SaveKeeps
  <2>4. CASE SaveRefused
    BY <2>4, SaveRefusedKeeps
  <2>5. CASE Apply
    BY <2>5, ApplyKeeps
  <2>6. CASE Unhealthy \/ ApplyFails
    BY <2>1, <2>6, ApplyFailsKeeps
  <2>7. CASE Rejournal
    BY <2>7, RejournalKeeps DEF Rejournal
  <2>8. CASE Restore
    BY <2>8, RestoreKeeps
  <2>9. CASE RestoreFails \/ Crash \/ Reboot
    BY <2>9, GiveUpKeeps
  <2>10. CASE ServiceExits
    <3>1. ~ (sup.pc = "commit" /\ journal' = None)
      BY <2>10, Positions DEF ServiceExits, StartService, StopService, HostInv, Held
    <3> QED  BY <2>1, <2>10, <3>1, ServiceExitsKeeps
  <2> QED
    BY <1>2, <2>2, <2>3, <2>4, <2>5, <2>6, <2>7, <2>8, <2>9, <2>10 DEF TransactionNext, SupervisorStep
<1> QED  BY <1>1, <1>2

-----------------------------------------------------------------------------
(* The theorems.                                                           *)

\* The inductive invariant: at every position of execute_transaction the host
\* is what the calls so far have made of it.
THEOREM HostInvariant == TransactionSpec => []HostInv
BY InitHolds, StepKeeps, PTL DEF TransactionSpec

\* A supervisor in the middle of an apply or a restore has its journal on disk.
THEOREM HostTypeCorrect == TransactionSpec => []HostTypeOK
<1>1. HostInv => HostTypeOK
  BY DEF HostInv, Shape, HostShape, Held, Supervisor, HostTypeOK
<1> QED  BY <1>1, HostInvariant, PTL

\* With nothing left to recover, a running service runs the files on disk.
THEOREM RunningMatchesHolds == TransactionSpec => []RunningMatches
<1>1. HostInv => RunningMatches
  BY DEF HostInv, Settled, MatchesDisk, RunningMatches, Quiet
<1> QED  BY <1>1, HostInvariant, PTL

\* A rollback starts no service that was stopped before the apply.
THEOREM RollbackKeepsStoppedHolds == TransactionSpec => RollbackKeepsStopped
<1> DEFINE A == sup.pc = "clear" /\ journal # None /\ journal' = None /\ running' # None
                  => journal.active
<1>1. ASSUME HostInv, [TransactionNext]_vars  PROVE [A]_vars
  <2> SUFFICES ASSUME sup.pc = "clear", journal # None, journal' = None, running' # None
               PROVE  journal.active = TRUE
    OBVIOUS
  <2>1. journal = sup.saved
    BY <1>1, Positions DEF HostInv, Held
  <2>2. running # None => sup.saved.active = TRUE
    BY <1>1 DEF HostInv, Restored
  <2>3. Restore \/ RestoreFails
    <3>1. sup.pc \notin Applying
      BY Positions
    <3> QED
      BY <1>1, <3>1
      DEF vars, host, TransactionNext, SupervisorStep, Start, Save, SaveRefused, Apply, ApplyCall,
          Unhealthy, ApplyFails, Rejournal, RejournalCall, Crash, Reboot, ServiceExits,
          StartService, StopService
  <2>4. running' = running
    BY <2>3 DEF Restore, RestoreFails, RestoreCall, RejournalCall, RemoveJournal, host
  <2> QED  BY <2>1, <2>2, <2>4
<1> QED  BY <1>1, HostInvariant, PTL DEF TransactionSpec, RollbackKeepsStopped

-----------------------------------------------------------------------------
(* Recovery.  That some apply recovers a journal in the end is liveness    *)
(* and stays with TLC; here is what it rests on: a journal never shuts out *)
(* the apply that would recover it, and nothing but a fault takes an apply *)
(* or a recovery away from its end.                                        *)

SameContract(d, o) == o # None => d # None /\ Contract(d) = Contract(o)

\* The installed record: it is one of apply's, and the journal, the record it
\* saved and the plan under way agree about the storage contract.
RecordOK ==
  /\ disk.installed \in Versions \cup {None}
  /\ journal # None => /\ journal.disk.installed \in Versions \cup {None}
                       /\ SameContract(disk.installed, journal.disk.installed)
                       /\ \E v : v \in Versions
  /\ sup.pc = "rejournal" => /\ sup.saved.disk.installed \in Versions \cup {None}
                             /\ SameContract(disk.installed, sup.saved.disk.installed)
  /\ sup.pc \in Applying \cup Restoring \cup {"rejournal"} /\ disk.installed # None =>
       Contract(disk.installed) = Contract(sup.plan)

\* A supervisor without a journal to recover only has the record to mind.
LEMMA RecordBeforeSave ==
  ASSUME HostInv, RecordOK, \/ \E v \in Versions : Start(v)
                            \/ Save \/ SaveRefused
  PROVE  RecordOK'
<1> USE Positions
<1>1. CASE \E v \in Versions : Start(v)
  <2>1. PICK v \in Versions : Start(v)
    BY <1>1
  <2>2. disk' = disk /\ journal' = journal
    BY <2>1 DEF Start, host
  <2>3. CASE journal = None
    <3>1. sup'.pc = "save"
      BY <2>1, <2>3 DEF Start, Idle
    <3> QED  BY <2>2, <3>1 DEF RecordOK
  <2>4. CASE journal # None
    <3>1. sup'.pc = "stop" /\ sup'.plan = v
      BY <2>1, <2>4 DEF Start
    <3>2. disk.installed # None => Contract(disk.installed) = Contract(v)
      BY <2>1 DEF Start, StorageContractValid
    <3> QED  BY <2>2, <3>1, <3>2 DEF RecordOK
  <2> QED  BY <2>3, <2>4
<1>2. CASE Save
  <2>1. sup \in Supervisor /\ sup.plan \in Versions
    BY <1>2 DEF Save, HostInv, Shape
  <2>2. /\ disk' = disk /\ journal'.disk = disk /\ sup'.pc = "unit" /\ sup'.plan = sup.plan
        /\ disk.installed # None => Contract(disk.installed) = Contract(sup.plan)
    BY <1>2, <2>1 DEF Save, StorageContractValid, Supervisor
  <2> QED  BY <2>1, <2>2 DEF RecordOK, SameContract
<1>3. CASE SaveRefused
  <2>1. sup.plan \in Versions
    BY <1>3 DEF SaveRefused, HostInv, Shape
  <2>2. disk' = disk /\ sup'.pc = "idle" /\ (journal' = journal \/ journal'.disk = disk)
    <3>1. disk' = disk /\ sup'.pc = "idle"
      BY <1>3 DEF SaveRefused, Idle
    <3>2. journal' = journal \/ journal' = [disk |-> disk, enabled |-> enabled, active |-> Active]
      BY <1>3 DEF SaveRefused
    <3> QED  BY <3>1, <3>2
  <2> QED  BY <2>1, <2>2 DEF RecordOK, SameContract
<1> QED  BY <1>1, <1>2, <1>3

\* The record after a call of apply: unchanged, or the plan.
LEMMA RecordApplied ==
  ASSUME HostInv, RecordOK, ApplyCall
  PROVE  /\ sup.plan \in Versions /\ sup.pc \in Applying
         /\ disk'.installed = disk.installed \/ disk'.installed = sup.plan
         /\ SameContract(disk'.installed, sup.saved.disk.installed)
         /\ disk'.installed # None => Contract(disk'.installed) = Contract(sup.plan)
         /\ sup.saved = journal /\ journal.disk.installed \in Versions \cup {None}
         /\ journal' = None \/ journal' = journal
<1>1. /\ sup.pc \in Applying
      /\ journal' = None \/ journal' = journal
  BY ApplyCallKeeps
<1>2. /\ sup.plan \in Versions /\ sup.saved = journal /\ journal # None /\ disk \in Disk
  BY <1>1, Positions DEF HostInv, Shape, HostShape, Held
<1>3. disk'.installed = disk.installed \/ disk'.installed = sup.plan
  BY <1>1, <1>2, Positions
  DEF ApplyCall, Write, DaemonReload, SetEnabled, StartService, RemoveJournal, host, Disk
<1>4. CASE disk'.installed = disk.installed
  BY <1>1, <1>2, <1>4 DEF RecordOK
<1>5. CASE disk'.installed = sup.plan
  BY <1>1, <1>2, <1>5, TransactionAssumption DEF RecordOK, SameContract, HostInv, Replaceable
<1> QED  BY <1>1, <1>2, <1>3, <1>4, <1>5 DEF RecordOK

\* Applying keeps the contract, also when it fails.
LEMMA RecordDuringApply ==
  ASSUME HostInv, RecordOK, Apply \/ Unhealthy \/ ApplyFails
  PROVE  RecordOK'
<1> USE Positions
<1>1. sup \in Supervisor /\ sup.pc \in Applying /\ sup.plan \in Versions
      /\ sup.saved = journal /\ journal # None
  <2>1. sup.pc \in Applying
    BY DEF Apply, ApplyCall, Unhealthy, ApplyFails
  <2> QED  BY <2>1 DEF HostInv, Shape, Held
<1>2. /\ sup' = Idle \/ (sup'.plan = sup.plan /\ sup'.saved = sup.saved)
      /\ sup'.pc = "idle" \/ (sup'.plan = sup.plan /\ sup'.saved = sup.saved)
  BY <1>1 DEF Apply, Unhealthy, ApplyFails, Supervisor, Idle
<1>3. CASE ApplyCall
  <2>1. /\ disk'.installed = disk.installed \/ disk'.installed = sup.plan
        /\ SameContract(disk'.installed, sup.saved.disk.installed)
        /\ disk'.installed # None => Contract(disk'.installed) = Contract(sup.plan)
        /\ sup.saved = journal /\ journal.disk.installed \in Versions \cup {None}
        /\ journal' = None \/ journal' = journal
    BY <1>3, RecordApplied
  <2> QED  BY <1>1, <1>2, <2>1 DEF RecordOK
<1>4. CASE UNCHANGED host
  <2>1. disk' = disk /\ journal' = journal /\ sup.saved = journal
    BY <1>1, <1>4 DEF host
  <2> QED  BY <1>1, <1>2, <2>1 DEF RecordOK
<1> QED  BY <1>3, <1>4 DEF Apply, Unhealthy, ApplyFails

\* Restoring keeps it, also when it fails.
LEMMA RecordDuringRestore ==
  ASSUME HostInv, RecordOK, Rejournal \/ Restore \/ RestoreFails
  PROVE  RecordOK'
<1> USE Positions
<1>1. /\ sup \in Supervisor /\ sup.plan \in Versions /\ disk \in Disk
      /\ sup.pc \in Restoring \cup {"rejournal"}
      /\ sup.pc \in Restoring => sup.saved = journal /\ journal # None
  <2>1. sup.pc \in Restoring \cup {"rejournal"}
    BY DEF Rejournal, RejournalCall, Restore, RestoreCall, RestoreFails
  <2> QED  BY <2>1 DEF HostInv, Shape, HostShape, Held
<1>2. sup'.pc \in {"idle", "save"} \/ (sup'.plan = sup.plan /\ sup'.saved = sup.saved /\ sup'.pc # "rejournal")
  <2>1. CASE Rejournal
    BY <1>1, <2>1 DEF Rejournal, Supervisor
  <2>2. CASE Restore /\ sup.pc = "clear"
    BY <2>2 DEF Restore, Idle
  <2>3. CASE Restore /\ sup.pc # "clear"
    <3>1. sup' = [sup EXCEPT !.pc = AfterRestore[sup.pc]]
      BY <2>3 DEF Restore
    <3>2. sup.pc \in Restoring \ {"clear"}
      BY <2>3 DEF Restore, RestoreCall
    <3> QED  BY <1>1, <3>1, <3>2, RestoreOrder DEF Supervisor
  <2>4. CASE RestoreFails
    BY <2>4 DEF RestoreFails, Idle
  <2> QED  BY <2>1, <2>2, <2>3, <2>4
<1>3. CASE RestoreCall
  <2>1. /\ \/ disk'.installed = disk.installed
           \/ sup.pc = "installed_back" /\ disk'.installed = sup.saved.disk.installed
        /\ journal' = journal \/ journal' = None
    BY <1>1, <1>3
    DEF RestoreCall, StopBefore, DisableBefore, EnableBack, RestartBack, ReloadBack, Write,
        DaemonReload, SetEnabled, StartService, StopService, RemoveJournal, host, Disk
  <2>2. sup.pc \in Restoring
    BY <1>3 DEF RestoreCall
  <2>3. /\ disk'.installed \in Versions \cup {None}
        /\ SameContract(disk'.installed, journal.disk.installed)
        /\ disk'.installed # None => Contract(disk'.installed) = Contract(sup.plan)
    BY <1>1, <2>1, <2>2 DEF RecordOK, SameContract
  <2>4. sup'.pc # "rejournal"
    BY <1>2
  <2> QED  BY <1>1, <1>2, <2>1, <2>2, <2>3, <2>4 DEF RecordOK
<1>4. CASE RejournalCall
  BY <1>1, <1>2, <1>4 DEF RejournalCall, RecordOK
<1>5. CASE UNCHANGED host
  BY <1>1, <1>2, <1>5 DEF host, RecordOK
<1> QED  BY <1>3, <1>4, <1>5 DEF Rejournal, Restore, RestoreFails

\* Every step keeps the record in order.
LEMMA RecordStep ==
  ASSUME HostInv, RecordOK, [TransactionNext]_vars
  PROVE  RecordOK'
<1>1. CASE UNCHANGED vars
  BY <1>1 DEF vars, RecordOK, SameContract
<1>2. CASE Crash \/ Reboot
  BY <1>2, Positions DEF Crash, Reboot, host, Idle, RecordOK, SameContract
<1>3. CASE ServiceExits
  BY <1>3 DEF ServiceExits, StartService, StopService, RecordOK, SameContract
<1> QED
  BY <1>1, <1>2, <1>3, RecordBeforeSave, RecordDuringApply, RecordDuringRestore
  DEF TransactionNext, SupervisorStep

\* A journal shuts out neither the apply that left it, nor a deployment with
\* the contract of the one it was replacing, and never all deployments.
THEOREM RecoveryOpenHolds == TransactionSpec => []RecoveryOpen
<1>1. TransactionInit => RecordOK
  BY Positions DEF TransactionInit, Idle, RecordOK, SameContract
<1>2. HostInv /\ RecordOK => RecoveryOpen
  <2> SUFFICES ASSUME HostInv, RecordOK, journal # None
               PROVE  /\ sup.pc # "idle" => StorageContractValid(sup.plan, TRUE)
                      /\ journal.disk.installed # None =>
                           \A v \in Versions : Contract(v) = Contract(journal.disk.installed)
                                                => StorageContractValid(v, TRUE)
                      /\ \E v \in Versions : StorageContractValid(v, TRUE)
    BY DEF RecoveryOpen
  <2>1. sup.pc # "idle" => sup.pc \in Applying \cup Restoring
    BY DEF HostInv, Shape, Supervisor, Held
  <2>2. sup.pc # "idle" => StorageContractValid(sup.plan, TRUE)
    BY <2>1 DEF RecordOK, StorageContractValid
  <2>3. ASSUME journal.disk.installed # None, NEW v \in Versions,
               Contract(v) = Contract(journal.disk.installed)
        PROVE  StorageContractValid(v, TRUE)
    BY <2>3 DEF RecordOK, SameContract, StorageContractValid
  <2>4. \E v \in Versions : StorageContractValid(v, TRUE)
    <3>1. CASE disk.installed = None
      BY <3>1 DEF RecordOK, StorageContractValid
    <3>2. CASE disk.installed # None
      BY <3>2 DEF RecordOK, StorageContractValid
    <3> QED  BY <3>1, <3>2
  <2> QED  BY <2>2, <2>3, <2>4
<1> QED  BY <1>1, <1>2, RecordStep, HostInvariant, PTL DEF TransactionSpec

\* All that is required of the host at every step of every apply.
THEOREM HostSafe == TransactionSpec => []HostSound
<1>1. HostTypeOK /\ RunningMatches /\ RecoveryOpen => HostSound
  BY DEF HostSound
<1> QED  BY <1>1, HostTypeCorrect, RunningMatchesHolds, RecoveryOpenHolds, PTL

\* How far a supervisor that finds, or left, a journal is from removing it.
Distance == [unit |-> 19, env |-> 18, reload |-> 17, enable |-> 16, prelaunch |-> 15,
             restart |-> 14, healthy |-> 13, record |-> 12, commit |-> 11, idle |-> 10,
             stop |-> 9, disable |-> 8, unit_back |-> 7, env_back |-> 6, installed_back |-> 5,
             reload_back |-> 4, enable_back |-> 3, restart_back |-> 2, clear |-> 1]

\* A step of the supervisor that fails, or after which it is nearer the end.
Nearer ==
  \/ faults' = faults + 1
  \/ UNCHANGED faults /\ Distance[sup'.pc] < Distance[sup.pc]

\* The distances, position by position.
LEMMA Distances ==
  /\ Distance["unit"] = 19 /\ Distance["env"] = 18 /\ Distance["reload"] = 17
  /\ Distance["enable"] = 16 /\ Distance["prelaunch"] = 15 /\ Distance["restart"] = 14
  /\ Distance["healthy"] = 13 /\ Distance["record"] = 12 /\ Distance["commit"] = 11
  /\ Distance["idle"] = 10 /\ Distance["stop"] = 9 /\ Distance["disable"] = 8
  /\ Distance["unit_back"] = 7 /\ Distance["env_back"] = 6 /\ Distance["installed_back"] = 5
  /\ Distance["reload_back"] = 4 /\ Distance["enable_back"] = 3 /\ Distance["restart_back"] = 2
  /\ Distance["clear"] = 1
BY DEF Distance

\* As long as a journal is on disk, every step of a supervisor that does not
\* fail brings it nearer to a host without one, nineteen calls at most, and
\* what the service does by itself takes nothing of that back.
THEOREM RecoveryAdvances ==
  TransactionSpec => [][journal # None /\ journal' # None => Nearer \/ ServiceExits]_vars
<1> DEFINE A == journal # None /\ journal' # None => Nearer \/ ServiceExits
<1>1. ASSUME HostInv, [TransactionNext]_vars  PROVE [A]_vars
  <2> SUFFICES ASSUME journal # None, journal' # None, TransactionNext
               PROVE  Nearer \/ ServiceExits
    BY <1>1
  <2>0. sup \in Supervisor /\ sup.pc \notin {"save", "rejournal"}
    BY <1>1 DEF HostInv, Shape, Held
  <2>1. CASE \E v \in Versions : Start(v)
    <3>1. sup.pc = "idle" /\ sup'.pc = "stop" /\ UNCHANGED faults
      BY <2>1 DEF Start
    <3> QED  BY <3>1, Distances DEF Nearer
  <2>2. CASE Apply
    <3>1. sup.pc \in Applying \ {"commit"}
      BY <2>2, Positions DEF Apply, ApplyCall, RemoveJournal
    <3>2. sup'.pc = AfterApply[sup.pc] /\ UNCHANGED faults
      BY <2>0, <2>2, <3>1 DEF Apply, Supervisor
    <3> QED  BY <3>1, <3>2, Positions, ApplyOrder, Distances DEF Nearer
  <2>3. CASE Unhealthy
    <3>1. sup.pc = "healthy" /\ sup'.pc = "stop" /\ UNCHANGED faults
      BY <2>0, <2>3 DEF Unhealthy, Supervisor
    <3> QED  BY <3>1, Distances DEF Nearer
  <2>4. CASE Restore
    <3>1. sup.pc \in Restoring \ {"clear"}
      BY <2>4, Positions DEF Restore, RestoreCall, RemoveJournal
    <3>2. sup'.pc = AfterRestore[sup.pc] /\ UNCHANGED faults
      BY <2>0, <2>4, <3>1 DEF Restore, Supervisor
    <3> QED  BY <3>1, <3>2, Positions, RestoreOrder, Distances DEF Nearer
  <2>5. CASE ApplyFails \/ RestoreFails \/ Crash \/ Reboot
    BY <2>5 DEF ApplyFails, RestoreFails, Crash, Reboot, Nearer
  <2>6. ~ (Save \/ SaveRefused \/ Rejournal)
    BY <2>0 DEF Save, SaveRefused, Rejournal, RejournalCall
  <2> QED
    BY <2>1, <2>2, <2>3, <2>4, <2>5, <2>6 DEF TransactionNext, SupervisorStep
<1> QED  BY <1>1, HostInvariant, PTL DEF TransactionSpec

-----------------------------------------------------------------------------
(* The refinement.                                                         *)

\* The first configuration is one the contract starts from.
LEMMA InitRefines == TransactionInit => Contracted!Init
<1> SUFFICES ASSUME TransactionInit PROVE Contracted!Init
  OBVIOUS
<1>1. PICK unit \in {None, Foreign}, e \in BOOLEAN :
        /\ unit = None => ~e
        /\ disk = [unit |-> unit, env |-> None, installed |-> None]
        /\ enabled = e
        /\ previous = [unit |-> unit, env |-> None, installed |-> None, enabled |-> e]
  BY DEF TransactionInit
<1>2. config = Contracted!Untouched(unit, e) /\ previous = config
  BY <1>1 DEF TransactionInit, config, ConfigOf, Contracted!Untouched
<1>3. CASE unit = Foreign
  BY <1>2, <1>3 DEF Contracted!Init
<1>4. CASE unit = None
  <2>1. e = FALSE
    BY <1>1, <1>4
  <2> QED  BY <1>2, <1>4, <2>1 DEF Contracted!Init
<1> QED  BY <1>1, <1>3, <1>4

\* Removing the journal of an apply installs the plan.
LEMMA CommitRefines ==
  ASSUME HostInv, sup.pc = "commit", RemoveJournal, previous' = config
  PROVE  Contracted!Install(sup.plan)
<1>1. /\ journal # None /\ journal = sup.saved
      /\ disk.unit = sup.plan /\ disk.env = sup.plan /\ disk.installed = sup.plan /\ enabled = TRUE
  BY Positions
  DEF HostInv, Held, Applied, WroteUnit, WroteEnv, Reloaded, Enabled, Committing
<1>2. Contracted!MayInstall(config, sup.plan)
  BY <1>1, Positions DEF HostInv, Replaceable, Contracted!MayInstall, config, ConfigOf
<1>3. config' = Contracted!InstalledConfig(sup.plan)
  BY <1>1 DEF RemoveJournal, Contracted!InstalledConfig, config, ConfigOf
<1> QED  BY <1>2, <1>3 DEF Contracted!Install

\* Putting it back reverts the installation.
LEMMA RejournalRefines ==
  ASSUME HostInv, RejournalCall, previous' = previous
  PROVE  Contracted!Revert
BY DEF HostInv, Revocable, RejournalCall, Contracted!Revert, config, ConfigOf

\* Every other call leaves the configuration alone.
LEMMA ApplyCallStutters ==
  ASSUME HostInv, ApplyCall, sup.pc # "commit"
  PROVE  config' = config
<1>1. journal' = journal /\ sup.pc \in Applying
  BY ApplyCallKeeps
<1>2. journal # None
  BY <1>1 DEF HostInv, Held
<1> QED  BY <1>1, <1>2 DEF config, ConfigOf

\* A call of the rollback does not change what the host will come back to.
LEMMA RestoreCallStutters ==
  ASSUME HostInv, RestoreCall
  PROVE  config' = config
<1>1. sup.pc \in Restoring /\ journal # None /\ journal = sup.saved
  BY RestoreCallKeeps DEF HostInv, Held
<1>2. CASE sup.pc # "clear"
  BY <1>1, <1>2, RestoreCallKeeps DEF config, ConfigOf
<1>3. CASE sup.pc = "clear"
  <2>1. journal' = None /\ UNCHANGED <<disk, enabled>>
    BY <1>3 DEF RestoreCall, RemoveJournal
  <2>2. /\ disk.unit = journal.disk.unit /\ disk.env = journal.disk.env
        /\ disk.installed = journal.disk.installed /\ enabled = journal.enabled
    BY <1>1, <1>3
    DEF HostInv, Restored, UnitBack, EnvBack, InstalledBack, ReloadedBack, EnabledBack
  <2> QED  BY <1>1, <2>1, <2>2 DEF config, ConfigOf
<1> QED  BY <1>2, <1>3

\* Nor does writing the journal, whether or not it succeeds.
LEMMA SaveStutters ==
  ASSUME HostInv, Save \/ SaveRefused
  PROVE  config' = config
<1>1. journal = None /\ UNCHANGED <<disk, enabled>>
  BY DEF HostInv, Held, Save, SaveRefused
<1>2. journal' = [disk |-> disk, enabled |-> enabled, active |-> Active] \/ journal' = journal
  BY DEF Save, SaveRefused
<1> QED  BY <1>1, <1>2, SavedJournal DEF config, ConfigOf

\* Nor does what leaves files, enablement and journal alone.
LEMMA HostUnchangedStutters ==
  ASSUME UNCHANGED <<disk, enabled, journal>>
  PROVE  config' = config
BY DEF config, ConfigOf

\* Every step of the transaction is a step of the contract or none.
LEMMA StepRefines ==
  ASSUME HostInv, [TransactionNext]_vars
  PROVE  [Contracted!Next]_Contracted!hostVars
<1> USE DEF Contracted!hostVars
<1>1. CASE UNCHANGED vars
  BY <1>1, HostUnchangedStutters DEF vars
<1>2. CASE TransactionNext
  <2>1. previous' = IF sup.pc = "commit" /\ journal' = None THEN config ELSE previous
    BY <1>2 DEF TransactionNext
  <2>2. CASE sup.pc = "commit" /\ journal' = None
    <3>1. journal # None /\ sup.plan \in Versions
      BY <2>2, Positions DEF HostInv, Held, Shape
    <3>2. RemoveJournal
      BY <1>2, <2>2, <3>1, Positions
      DEF TransactionNext, SupervisorStep, Start, Save, SaveRefused, Apply, ApplyCall, Unhealthy,
          ApplyFails, Rejournal, RejournalCall, Restore, RestoreCall, RestoreFails, Crash, Reboot,
          ServiceExits, StartService, StopService, host
    <3> QED  BY <2>1, <2>2, <3>1, <3>2, CommitRefines DEF Contracted!Next
  <2>3. CASE ~ (sup.pc = "commit" /\ journal' = None)
    <3>1. previous' = previous
      BY <2>1, <2>3
    <3>2. CASE \/ \E v \in Versions : Start(v)
               \/ Unhealthy \/ Crash \/ Reboot \/ ServiceExits \/ UNCHANGED host
      <4>1. UNCHANGED <<disk, enabled, journal>>
        BY <3>2 DEF Start, Unhealthy, Crash, Reboot, ServiceExits, StartService, StopService, host
      <4> QED  BY <3>1, <4>1, HostUnchangedStutters
    <3>3. CASE Save \/ SaveRefused
      BY <3>1, <3>3, SaveStutters
    <3>4. CASE ApplyCall
      <4>1. sup.pc # "commit"
        BY <2>3, <3>4, ApplyCallKeeps
      <4> QED  BY <3>1, <3>4, <4>1, ApplyCallStutters
    <3>5. CASE RestoreCall
      BY <3>1, <3>5, RestoreCallStutters
    <3>6. CASE RejournalCall
      BY <3>1, <3>6, RejournalRefines DEF Contracted!Next
    <3> QED
      BY <1>2, <3>2, <3>3, <3>4, <3>5, <3>6
      DEF TransactionNext, SupervisorStep, Apply, ApplyFails, Rejournal, Restore, RestoreFails
  <2> QED  BY <2>2, <2>3
<1> QED  BY <1>1, <1>2

\* Whatever call fails and wherever the supervisor dies, the service files, the
\* installed record and the enablement change together, between versions of one
\* storage contract, or not at all.
THEOREM TransactionImplementsHostConfig == TransactionSpec => ImplementsHostConfig
BY InitRefines, StepRefines, HostInvariant, PTL
DEF TransactionSpec, ImplementsHostConfig, Contracted!Spec
=============================================================================
