-------------------------- MODULE HostTransaction --------------------------
(***************************************************************************)
(* The durable service transaction of src/single_vm_host/transaction.rs:   *)
(* one supervisor at a time (it holds the service lock) saves the service  *)
(* files in a journal, applies a plan, and restores the journal when a     *)
(* call fails; a supervisor that finds a journal restores it first.  Every *)
(* file write and every systemctl call is one step.  A call that fails may *)
(* have had its effect (a systemctl killed at its deadline, a rename whose *)
(* directory sync failed), and the supervisor may die between any two.     *)
(* The service manager and the service itself are external: the unit says  *)
(* Restart=always, so the service also restarts by itself.                 *)
(***************************************************************************)
EXTENDS Naturals

CONSTANTS
  Versions, Contract(_), Foreign, None,
  MaxFaults     \* bound on failed calls, crashes and reboots

VARIABLES
  disk,         \* the planned files and installed.json
  enabled,      \* the unit is wanted at boot
  loaded,       \* the unit file the service manager has read
  running,      \* the files the running service was started from
  journal,      \* pending.json
  sup,          \* the supervisor
  faults,
  previous      \* history: what the last committed apply replaced

host == <<disk, enabled, loaded, running, journal>>
vars == <<disk, enabled, loaded, running, journal, sup, faults, previous>>

Content == Versions \cup {Foreign, None}

Disk == [unit: Content, env: Content, installed: Content]

\* Journal: the saved files, the enablement and whether the service is active.
Journal == [disk: Disk, enabled: BOOLEAN, active: BOOLEAN]

Started == [unit: Content, env: Content]

ASSUME TransactionAssumption ==
  /\ None \notin Versions \cup {Foreign} \cup Journal \cup Started
  /\ Foreign \notin Versions
  /\ MaxFaults \in Nat

\* The step after each call of apply and of restore.
AfterApply == [unit |-> "env", env |-> "reload", reload |-> "enable", enable |-> "prelaunch",
               prelaunch |-> "restart", restart |-> "healthy", healthy |-> "record",
               record |-> "commit", commit |-> "idle"]

AfterRestore == [stop |-> "disable", disable |-> "unit_back", unit_back |-> "env_back",
                 env_back |-> "installed_back", installed_back |-> "reload_back",
                 reload_back |-> "enable_back", enable_back |-> "restart_back",
                 restart_back |-> "clear"]

Applying == DOMAIN AfterApply
Restoring == DOMAIN AfterRestore \cup {"clear"}

Idle == [pc |-> "idle", plan |-> None, saved |-> None, recovering |-> FALSE]

TransactionInit ==
  /\ \E unit \in {None, Foreign}, e \in BOOLEAN :
       /\ unit = None => ~e
       /\ disk = [unit |-> unit, env |-> None, installed |-> None]
       /\ enabled = e
       /\ loaded = unit
       /\ running \in {None} \cup IF unit = None THEN {} ELSE {[unit |-> unit, env |-> None]}
       /\ previous = [unit |-> unit, env |-> None, installed |-> None, enabled |-> e]
  /\ journal = None
  /\ sup = Idle
  /\ faults = 0

-----------------------------------------------------------------------------
(* Starting an apply.                                                      *)

\* Mutant: an unrecorded unit is refused although a journal is waiting.
StorageContractStrict(v, recovery_pending) ==
  IF disk.installed # None THEN Contract(disk.installed) = Contract(v)
  ELSE disk.unit = None

\* validate_storage_contract
StorageContractValid(v, recovery_pending) ==
  IF disk.installed # None THEN Contract(disk.installed) = Contract(v)
  ELSE recovery_pending \/ disk.unit = None

\* Mutant: a journal is left for later.
StartIgnoringJournal(v) ==
  /\ sup.pc = "idle"
  /\ StorageContractValid(v, journal # None)
  /\ sup' = [Idle EXCEPT !.pc = "save", !.plan = v]
  /\ UNCHANGED <<host, faults>>

\* prepare runs once more under the lock; a journal is recovered first.
Start(v) ==
  /\ sup.pc = "idle"
  /\ StorageContractValid(v, journal # None)
  /\ sup' = IF journal = None THEN [Idle EXCEPT !.pc = "save", !.plan = v]
            ELSE [pc |-> "stop", plan |-> v, saved |-> journal, recovering |-> TRUE]
  /\ UNCHANGED <<host, faults>>

Active == running # None

\* The contract is checked again, the files are saved and the journal written.
Save ==
  /\ sup.pc = "save"
  /\ StorageContractValid(sup.plan, FALSE)
  /\ journal' = [disk |-> disk, enabled |-> enabled, active |-> Active]
  /\ sup' = [sup EXCEPT !.pc = "unit", !.saved = journal', !.recovering = FALSE]
  /\ UNCHANGED <<disk, enabled, loaded, running, faults>>

\* The contract is refused, the service manager does not answer, or the
\* journal cannot be written (or only its directory sync failed).
SaveRefused ==
  /\ sup.pc = "save"
  /\ sup' = Idle
  /\ \/ journal' = journal
     \/ /\ StorageContractValid(sup.plan, FALSE)
        /\ journal' = [disk |-> disk, enabled |-> enabled, active |-> Active]
  /\ UNCHANGED <<disk, enabled, loaded, running, faults>>

-----------------------------------------------------------------------------
(* The calls of apply.                                                     *)

Write(file, content) ==
  /\ disk' = [disk EXCEPT ![file] = content]
  /\ UNCHANGED <<enabled, loaded, running, journal>>

SetEnabled(e) ==
  /\ enabled' = e
  /\ UNCHANGED <<disk, loaded, running, journal>>

DaemonReload ==
  /\ loaded' = disk.unit
  /\ UNCHANGED <<disk, enabled, running, journal>>

StartService ==
  /\ running' = [unit |-> loaded, env |-> disk.env]
  /\ UNCHANGED <<disk, enabled, loaded, journal>>

StopService ==
  /\ running' = None
  /\ UNCHANGED <<disk, enabled, loaded, journal>>

RemoveJournal ==
  /\ journal' = None
  /\ UNCHANGED <<disk, enabled, loaded, running>>

ApplyCall ==
  \/ sup.pc = "unit" /\ Write("unit", sup.plan)
  \/ sup.pc = "env" /\ Write("env", sup.plan)
  \/ sup.pc = "reload" /\ DaemonReload
  \/ sup.pc = "enable" /\ SetEnabled(TRUE)
  \/ sup.pc = "prelaunch" /\ UNCHANGED host
  \/ sup.pc = "restart" /\ StartService
  \/ sup.pc = "healthy" /\ Active /\ UNCHANGED host
  \/ sup.pc = "record" /\ Write("installed", sup.plan)
  \/ sup.pc = "commit" /\ RemoveJournal

Apply ==
  /\ ApplyCall
  /\ sup' = IF sup.pc = "commit" THEN Idle ELSE [sup EXCEPT !.pc = AfterApply[sup.pc]]
  /\ UNCHANGED faults

\* The runtime fails its readiness probe.
Unhealthy ==
  /\ sup.pc = "healthy"
  /\ sup' = [sup EXCEPT !.pc = "stop"]
  /\ UNCHANGED <<host, faults>>

\* Mutant: the journal is taken to be there.
ApplyFailsUnjournaled ==
  /\ sup.pc \in Applying
  /\ faults < MaxFaults
  /\ faults' = faults + 1
  /\ ApplyCall \/ UNCHANGED host
  /\ sup' = [sup EXCEPT !.pc = "stop"]

\* A call of apply fails: restore, with the journal back if it was removed.
ApplyFails ==
  /\ sup.pc \in Applying
  /\ faults < MaxFaults
  /\ faults' = faults + 1
  /\ ApplyCall \/ UNCHANGED host
  /\ sup' = [sup EXCEPT !.pc = IF journal' = None THEN "rejournal" ELSE "stop"]

RejournalCall ==
  /\ sup.pc = "rejournal"
  /\ journal' = sup.saved
  /\ UNCHANGED <<disk, enabled, loaded, running>>

Rejournal ==
  /\ RejournalCall
  /\ sup' = [sup EXCEPT !.pc = "stop"]
  /\ UNCHANGED faults

-----------------------------------------------------------------------------
(* The calls of restore.                                                   *)

UnitExists == disk.unit # None

StopBefore ==
  IF sup.saved.active \/ UnitExists THEN StopService ELSE UNCHANGED host

DisableBefore ==
  IF ~sup.saved.enabled /\ UnitExists THEN SetEnabled(FALSE) ELSE UNCHANGED host

EnableBack == IF sup.saved.enabled THEN SetEnabled(TRUE) ELSE UNCHANGED host

\* Mutant: the service is restarted whatever it was.
RestartBackAlways == StartService

RestartBack == IF sup.saved.active THEN StartService ELSE UNCHANGED host

\* Mutant: the service manager keeps the unit it read.
ReloadBackNever == UNCHANGED host

ReloadBack == DaemonReload

RestoreCall ==
  \/ sup.pc = "stop" /\ StopBefore
  \/ sup.pc = "disable" /\ DisableBefore
  \/ sup.pc = "unit_back" /\ Write("unit", sup.saved.disk.unit)
  \/ sup.pc = "env_back" /\ Write("env", sup.saved.disk.env)
  \/ sup.pc = "installed_back" /\ Write("installed", sup.saved.disk.installed)
  \/ sup.pc = "reload_back" /\ ReloadBack
  \/ sup.pc = "enable_back" /\ EnableBack
  \/ sup.pc = "restart_back" /\ RestartBack
  \/ sup.pc = "clear" /\ RemoveJournal

\* After a recovery the apply goes on; after a failed apply it is over.
Restore ==
  /\ RestoreCall
  /\ sup' = IF sup.pc # "clear" THEN [sup EXCEPT !.pc = AfterRestore[sup.pc]]
            ELSE IF sup.recovering THEN [Idle EXCEPT !.pc = "save", !.plan = sup.plan]
            ELSE Idle
  /\ UNCHANGED faults

\* A call of restore fails, or the journal cannot be put back (the apply then
\* stands): what journal there is stays for the next apply.
RestoreFails ==
  /\ sup.pc \in Restoring \cup {"rejournal"}
  /\ faults < MaxFaults
  /\ faults' = faults + 1
  /\ RestoreCall \/ RejournalCall \/ UNCHANGED host
  /\ sup' = Idle

-----------------------------------------------------------------------------
(* The world around the supervisor.                                        *)

Crash ==
  /\ sup.pc # "idle"
  /\ faults < MaxFaults
  /\ faults' = faults + 1
  /\ sup' = Idle
  /\ UNCHANGED host

\* Power comes back: an enabled unit is started from what is on disk.
Reboot ==
  /\ faults < MaxFaults
  /\ faults' = faults + 1
  /\ sup' = Idle
  /\ loaded' = disk.unit
  /\ running' = IF enabled /\ UnitExists THEN [unit |-> disk.unit, env |-> disk.env] ELSE None
  /\ UNCHANGED <<disk, enabled, journal>>

\* The service exits: Restart=always, or the service manager gives up on it.
ServiceExits ==
  /\ Active
  /\ StartService \/ StopService
  /\ UNCHANGED <<sup, faults>>

SupervisorStep ==
  \/ \E v \in Versions : Start(v)
  \/ Save \/ SaveRefused \/ Apply \/ Unhealthy \/ Rejournal \/ Restore

\* What the journal or, without one, the host holds.
ConfigOf(d, e) == [unit |-> d.unit, env |-> d.env, installed |-> d.installed, enabled |-> e]

config == IF journal = None THEN ConfigOf(disk, enabled)
          ELSE ConfigOf(journal.disk, journal.enabled)

TransactionNext ==
  /\ SupervisorStep \/ ApplyFails \/ RestoreFails \/ Crash \/ Reboot \/ ServiceExits
  /\ previous' = IF sup.pc = "commit" /\ journal' = None THEN config ELSE previous

TransactionSpec == TransactionInit /\ [][TransactionNext]_vars

\* The operator runs apply until it succeeds.
FairTransactionSpec == TransactionSpec /\ WF_vars(TransactionNext /\ SupervisorStep)

-----------------------------------------------------------------------------
(* Properties.                                                             *)

Contracted == INSTANCE HostConfig

\* Files, service and supervisor have the shape the code gives them, and a
\* supervisor in the middle of an apply or a restore has its journal on disk.
HostTypeOK ==
  /\ disk \in Disk
  /\ enabled \in BOOLEAN
  /\ loaded \in Content
  /\ running \in Started \cup {None}
  /\ journal \in Journal \cup {None}
  /\ sup.pc \in Applying \cup Restoring \cup {"idle", "save", "rejournal"}
  /\ sup.pc \in Applying \cup Restoring => journal # None /\ journal = sup.saved

\* "Failed startup/readiness restores those files and service state": whatever
\* call fails, and wherever the supervisor dies, the service files, the
\* installed record and the enablement change together or not at all.
ImplementsHostConfig == Contracted!Spec

\* Between applies, with nothing left to recover, a running service was
\* started from the files on disk and the unit the service manager holds.
Quiet == sup.pc = "idle" /\ journal = None
RunningMatches ==
  Quiet /\ running # None => running = [unit |-> disk.unit, env |-> disk.env]

\* A journal can always be recovered.  An apply that dies is accepted when it is
\* repeated (validate_storage_contract reads a record that the apply may have
\* replaced already), and so is every deployment with the storage contract of
\* the one it was replacing; whatever is on disk, some deployment is accepted.
RecoveryOpen ==
  journal # None =>
    /\ sup.pc # "idle" => StorageContractValid(sup.plan, TRUE)
    /\ journal.disk.installed # None =>
         \A v \in Versions : Contract(v) = Contract(journal.disk.installed)
                              => StorageContractValid(v, TRUE)
    /\ \E v \in Versions : StorageContractValid(v, TRUE)

\* The safety of the host: well-formed, settled between applies, recoverable.
HostSound == HostTypeOK /\ RunningMatches /\ RecoveryOpen

\* Taking an apply back leaves no service running that was not before it.
RollbackKeepsStopped ==
  [][sup.pc = "clear" /\ journal # None /\ journal' = None /\ running' # None
       => journal.active]_vars

\* "An incomplete recovery retains the journal for the next apply", and some
\* next apply does recover it.
JournalRecovered == journal # None ~> journal = None
=============================================================================
