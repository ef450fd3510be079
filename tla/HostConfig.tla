----------------------------- MODULE HostConfig -----------------------------
(***************************************************************************)
(* What the service transaction of a single-VM host promises about the     *)
(* service files, the installed record and the enablement (docs/           *)
(* home-03-host-deployment.md, "Failure, rollback and migration"): they    *)
(* change together, to a version of the same storage contract, or not at   *)
(* all, and a service nobody installed is left alone.                      *)
(***************************************************************************)
CONSTANTS
  Versions,     \* deployments: a unit, an environment file and an image
  Contract(_),  \* the storage_contract of a version
  Foreign,      \* a unit somebody else installed
  None

VARIABLES
  config,       \* the service files, the installed record and the enablement
  previous      \* what the last installation replaced

hostVars == <<config, previous>>

Untouched(unit, enabled) ==
  [unit |-> unit, env |-> None, installed |-> None, enabled |-> enabled]

InstalledConfig(v) == [unit |-> v, env |-> v, installed |-> v, enabled |-> TRUE]

\* A first installation finds no unit, a later one the same contract.
MayInstall(c, v) ==
  IF c.installed = None THEN c.unit = None ELSE Contract(c.installed) = Contract(v)

Init ==
  /\ config \in {Untouched(None, FALSE)} \cup {Untouched(Foreign, e) : e \in BOOLEAN}
  /\ previous = config

Install(v) ==
  /\ MayInstall(config, v)
  /\ config' = InstalledConfig(v)
  /\ previous' = config

\* The installation is reported as failed and taken back.
Revert ==
  /\ config' = previous
  /\ UNCHANGED previous

Next == Revert \/ \E v \in Versions : Install(v)

Spec == Init /\ [][Next]_hostVars
=============================================================================
