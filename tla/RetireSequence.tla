-------------------------- MODULE RetireSequence --------------------------
(***************************************************************************)
(* `op bundles retire` against a Kubernetes deployer: the sequence of      *)
(* src/cli/bundles_retire.rs over the Environment document of              *)
(* EnvironmentEngine, the cluster's worker Deployments and the router's    *)
(* live runtime-config, with `op env reconcile` and the other verbs of the *)
(* CLI running beside it and the retire dying and being run again.         *)
(*                                                                         *)
(* Each store call is one step (it holds the environment flock), each      *)
(* cluster call is one step, and every read of the document outside the    *)
(* lock is a snapshot that may be stale when it is used.                   *)
(***************************************************************************)
EXTENDS EnvironmentEngine

CONSTANTS
  ForceChoices,      \* the --force-drain flags a retire may be run with
  Besides,           \* what may go on beside a retire, a set of subsets of Beside
  MaxInterruptions   \* bound on crashes, timeouts and failed provider calls

\* Other verbs while a retire is asked for, a reconcile during a retire.
Beside == {"verbs", "reconcile"}

ASSUME RetireAssumption ==
  /\ ForceChoices \subseteq BOOLEAN
  /\ Besides \subseteq SUBSET Beside
  /\ MaxInterruptions \in Nat

VARIABLES
  worker,         \* the worker Deployment of each revision
  router,         \* the revisions the live runtime-config ConfigMap weights
  requested,      \* deployments somebody wants retired
  job,            \* the running `op bundles retire`
  hook,           \* its drain threads, by revision
  recon,          \* the running `op env reconcile`
  interruptions,
  beside,         \* what goes on beside the retires of this behaviour
  staged          \* the revision ids minted so far

cluster == <<worker, router>>

retireVars == <<vars, worker, router, requested, job, hook, recon, interruptions, beside, staged>>

Meddling == "verbs" \in beside

Overlap == "reconcile" \in beside

\* A scaled-down Deployment still exists; its Service has no ready endpoint.
WorkerState == {"absent", "running", "stopped"}

\* The lists of a run are sets, worked through in the order of the document
\* it loaded.
NoJob == [pc |-> "idle", d |-> None, force |-> FALSE, stamps |-> {}, drains |-> {},
          teardown |-> {}, archive |-> {}, order |-> [r \in RevisionIds |-> 0]]

NoHook == [pc |-> "none", seen |-> {}]

NoReconcile == [pc |-> "idle", seen |-> {}, up |-> {}, down |-> {}]

RetireInit ==
  /\ Init
  /\ worker = [r \in RevisionIds |-> "absent"]
  /\ router = {}
  /\ requested = {}
  /\ job = NoJob
  /\ hook = [r \in RevisionIds |-> NoHook]
  /\ recon = NoReconcile
  /\ interruptions = 0
  /\ beside \in Besides
  /\ staged = {}

-----------------------------------------------------------------------------
(* What the cluster shows and what is rendered from a loaded document.     *)

\* The revisions the document's splits give weight to.
Weighted ==
  UNION {{traffic_splits[d].entries[i].revision_id :
            i \in {j \in DOMAIN traffic_splits[d].entries :
                     traffic_splits[d].entries[j].weight_bps > 0}} :
         d \in {x \in DeploymentIds : traffic_splits[x] # None}}

Known == {r \in RevisionIds : revisions[r] # None}

\* has_cluster_presence; no document shows Warming.
HasClusterPresence(r) == revisions[r].lifecycle \in {"Warming", "Ready", "Draining"}

\* The probe of the archive gate: no pod of the worker is ready.
NoReadyEndpoints(r) == worker[r] # "running"

-----------------------------------------------------------------------------
(* The retire, run_sequence.                                               *)

\* Revision order: revisions are appended as they are staged.
RevisionOrder(S) == [r \in RevisionIds |-> IF r \in S THEN revisions[r].sequence ELSE 0]

RequestRetire(d) ==
  /\ d \notin requested
  /\ bundles[d] # None
  /\ job.pc = "idle"
  /\ requested' = requested \cup {d}
  /\ UNCHANGED <<vars, cluster, job, hook, recon, interruptions, beside, staged>>

\* An already absent deployment is reported and nothing is done.
RetireAbsent(d) ==
  /\ job.pc = "idle"
  /\ d \in requested
  /\ bundles[d] = None
  /\ requested' = requested \ {d}
  /\ UNCHANGED <<vars, cluster, job, hook, recon, interruptions, beside, staged>>

\* preflight passes on a K8s deployer; begin_retire marks and clears.
RetireBegin(d) ==
  /\ job.pc = "idle"
  /\ Overlap \/ recon.pc = "idle"
  /\ d \in requested
  /\ BeginRetire(d)
  /\ Validate'
  /\ \E force \in ForceChoices :
       job' = [NoJob EXCEPT !.pc = "load", !.d = d, !.force = force]
  /\ UNCHANGED <<cluster, requested, hook, recon, interruptions, beside, staged>>

\* Mutant: revisions an earlier run stamped are taken to be drained.
RetireLoadReadyOnly ==
  /\ job.pc = "load"
  /\ bundles[job.d] # None
  /\ LET mine == RevisionsOf(job.d)
         ready == {r \in mine : revisions[r].lifecycle = "Ready"}
     IN  job' = [job EXCEPT !.pc = "stamp",
                            !.stamps = ready,
                            !.drains = ready,
                            !.teardown = mine,
                            !.archive = {r \in mine : revisions[r].lifecycle # "Archived"},
                            !.order = RevisionOrder(mine)]
  /\ UNCHANGED <<vars, cluster, requested, hook, recon, interruptions, beside, staged>>

\* retire_steps over a second load: every later step works from this list.
RetireLoad ==
  /\ job.pc = "load"
  /\ bundles[job.d] # None
  /\ LET mine == RevisionsOf(job.d)
         ready == {r \in mine : revisions[r].lifecycle = "Ready"}
         draining == {r \in mine : revisions[r].lifecycle = "Draining"}
     IN  job' = [job EXCEPT !.pc = "stamp",
                            !.stamps = ready,
                            !.drains = ready \cup draining,
                            !.teardown = mine,
                            !.archive = {r \in mine : revisions[r].lifecycle # "Archived"},
                            !.order = RevisionOrder(mine)]
  /\ UNCHANGED <<vars, cluster, requested, hook, recon, interruptions, beside, staged>>

\* r is the next revision of a list the run works through in order.
NextOf(list, r) == r \in list /\ \A q \in list : job.order[r] <= job.order[q]

RetireStamp(r) ==
  /\ job.pc = "stamp"
  /\ NextOf(job.stamps, r)
  /\ DrainRevision(r)
  /\ Validate'
  /\ job' = [job EXCEPT !.stamps = @ \ {r}]
  /\ UNCHANGED <<cluster, requested, hook, recon, interruptions, beside, staged>>

\* Mutant: the drains start before the revisions are stamped.
RetireSpawnUnstamped ==
  /\ job.pc = "stamp"
  /\ job' = [job EXCEPT !.pc = "drain"]
  /\ hook' = [r \in RevisionIds |-> IF r \in job.drains
                                    THEN [NoHook EXCEPT !.pc = "spawned"] ELSE NoHook]
  /\ UNCHANGED <<vars, cluster, requested, recon, interruptions, beside, staged>>

\* drain_all spawns its threads: the instance stays below DRAIN_CONCURRENCY.
RetireSpawn ==
  /\ job.pc = "stamp"
  /\ job.stamps = {}
  /\ job' = [job EXCEPT !.pc = "drain"]
  /\ hook' = [r \in RevisionIds |-> IF r \in job.drains
                                    THEN [NoHook EXCEPT !.pc = "spawned"] ELSE NoHook]
  /\ UNCHANGED <<vars, cluster, requested, recon, interruptions, beside, staged>>

\* One drain thread (drain_enforced): load and refuse a routed revision ...
HookLoad(r) ==
  /\ hook[r].pc = "spawned"
  /\ hook' = [hook EXCEPT ![r] =
       IF revisions[r] = None THEN [pc |-> "failed", seen |-> {}]
       ELSE IF r \in Weighted THEN [pc |-> "undrained", seen |-> {}]
       ELSE [pc |-> "loaded", seen |-> Weighted]]
  /\ UNCHANGED <<vars, cluster, requested, job, recon, interruptions, beside, staged>>

\* ... project the loaded split into the router ...
HookPush(r) ==
  /\ hook[r].pc = "loaded"
  /\ router' = hook[r].seen
  /\ hook' = [hook EXCEPT ![r].pc = "pushed"]
  /\ UNCHANGED <<vars, worker, requested, job, recon, interruptions, beside, staged>>

\* ... read the live router back, then wait the window out ...
HookReadBack(r) ==
  /\ hook[r].pc = "pushed"
  /\ hook' = [hook EXCEPT ![r].pc = IF r \in router THEN "undrained" ELSE "waited"]
  /\ UNCHANGED <<vars, cluster, requested, job, recon, interruptions, beside, staged>>

\* Mutant: the worker is scaled down before the split is pushed.
HookScaleEarly(r) ==
  /\ hook[r].pc = "loaded"
  /\ worker' = [worker EXCEPT ![r] = IF @ = "absent" THEN @ ELSE "stopped"]
  /\ hook' = [hook EXCEPT ![r].pc = "scaled"]
  /\ UNCHANGED <<vars, router, requested, job, recon, interruptions, beside, staged>>

\* ... scale the worker to nothing (an absent one is left absent) ...
HookScale(r) ==
  /\ hook[r].pc = "waited"
  /\ worker' = [worker EXCEPT ![r] = IF @ = "absent" THEN @ ELSE "stopped"]
  /\ hook' = [hook EXCEPT ![r].pc = "scaled"]
  /\ UNCHANGED <<vars, router, requested, job, recon, interruptions, beside, staged>>

\* ... and confirm that no pod is left before the timeout.
HookConfirm(r) ==
  /\ hook[r].pc = "scaled"
  /\ hook' = [hook EXCEPT ![r].pc = IF worker[r] = "running" THEN "undrained" ELSE "drained"]
  /\ UNCHANGED <<vars, cluster, requested, job, recon, interruptions, beside, staged>>

HookStep(r) ==
  job.pc = "drain" /\ (HookLoad(r) \/ HookPush(r) \/ HookReadBack(r) \/ HookScale(r) \/ HookConfirm(r))

\* The pods outlive confirm_timeout.
HookTimeout(r) ==
  /\ job.pc = "drain"
  /\ hook[r].pc = "scaled"
  /\ interruptions < MaxInterruptions
  /\ interruptions' = interruptions + 1
  /\ hook' = [hook EXCEPT ![r].pc = "undrained"]
  /\ UNCHANGED <<vars, cluster, requested, job, recon, beside, staged>>

\* Every thread joined and none failed; --force-drain lets undrained pass.
RetireDrained ==
  /\ job.pc = "drain"
  /\ \A r \in job.drains :
       hook[r].pc = "drained" \/ (job.force /\ hook[r].pc = "undrained")
  /\ job' = [job EXCEPT !.pc = "gate"]
  /\ hook' = [r \in RevisionIds |-> NoHook]
  /\ UNCHANGED <<vars, cluster, requested, recon, interruptions, beside, staged>>

\* Mutant: the gate probes the worker and not the router.
RetireGateWorkerOnly(r) ==
  /\ job.pc = "gate"
  /\ NextOf(job.teardown, r)
  /\ revisions[r] # None
  /\ job.force \/ NoReadyEndpoints(r)
  /\ job' = [job EXCEPT !.pc = "delete"]
  /\ UNCHANGED <<vars, cluster, requested, hook, recon, interruptions, beside, staged>>

\* Mutant: a stopped worker is taken to be gone.
RetireGateSkipsStopped(r) ==
  /\ job.pc = "gate"
  /\ NextOf(job.teardown, r)
  /\ revisions[r] # None
  /\ job.force \/ (r \notin router /\ NoReadyEndpoints(r))
  /\ job' = [job EXCEPT !.pc = IF worker[r] = "stopped" THEN "archive" ELSE "delete"]
  /\ UNCHANGED <<vars, cluster, requested, hook, recon, interruptions, beside, staged>>

\* Teardown of the next revision: load, then the archive gate on the live
\* router and worker, which --force-drain skips ...
RetireGate(r) ==
  /\ job.pc = "gate"
  /\ NextOf(job.teardown, r)
  /\ revisions[r] # None
  /\ job.force \/ (r \notin router /\ NoReadyEndpoints(r))
  /\ job' = [job EXCEPT !.pc = "delete"]
  /\ UNCHANGED <<vars, cluster, requested, hook, recon, interruptions, beside, staged>>

\* ... then the provider's archive_revision deletes the worker ...
RetireDelete(r) ==
  /\ job.pc = "delete"
  /\ NextOf(job.teardown, r)
  /\ worker' = [worker EXCEPT ![r] = "absent"]
  /\ job' = [job EXCEPT !.pc = "archive"]
  /\ UNCHANGED <<vars, router, requested, hook, recon, interruptions, beside, staged>>

\* Mutant: the store archive is written without the engine's checks.
RetireArchiveUnchecked(r) ==
  /\ job.pc = "archive"
  /\ NextOf(job.teardown, r)
  /\ revisions[r] # None
  /\ SetLifecycle(r, "Archived")
  /\ job' = [job EXCEPT !.pc = "gate", !.teardown = @ \ {r}]
  /\ UNCHANGED <<bundles, traffic_splits, endpoints, minted>>
  /\ UNCHANGED <<cluster, requested, hook, recon, interruptions, beside, staged>>

\* ... and only then the store archives it, unless it already was.
RetireArchive(r) ==
  /\ job.pc = "archive"
  /\ NextOf(job.teardown, r)
  /\ IF r \in job.archive THEN ArchiveRevision(r) /\ Validate' ELSE UNCHANGED vars
  /\ job' = [job EXCEPT !.pc = "gate", !.teardown = @ \ {r}]
  /\ UNCHANGED <<cluster, requested, hook, recon, interruptions, beside, staged>>

RetireRemove(d) ==
  /\ job.pc = "gate"
  /\ job.teardown = {}
  /\ d = job.d
  /\ RemoveBundle(d)
  /\ Validate'
  /\ requested' = requested \ {d}
  /\ job' = NoJob
  /\ UNCHANGED <<cluster, hook, recon, interruptions, beside, staged>>

RetireAdvance ==
  \/ RetireLoad \/ RetireSpawn \/ RetireDrained
  \/ \E r \in RevisionIds :
       RetireStamp(r) \/ HookStep(r) \/ RetireGate(r) \/ RetireDelete(r) \/ RetireArchive(r)
  \/ \E d \in DeploymentIds : RetireRemove(d)

\* The next call of the run is one the store, the gate or a drain refuses.
RetireStuck == job.pc # "idle" /\ ~ENABLED RetireAdvance

\* Mutant: the first failed drain ends the run with its siblings unjoined.
RetireRefusedUnjoined ==
  /\ \/ RetireStuck
     \/ \E r \in job.drains : hook[r].pc = "failed" \/ (~job.force /\ hook[r].pc = "undrained")
  /\ job' = NoJob
  /\ UNCHANGED <<vars, cluster, requested, hook, recon, interruptions, beside, staged>>

\* run_sequence returns the error; a later run starts over.
RetireRefused ==
  /\ RetireStuck
  /\ job' = NoJob
  /\ hook' = [r \in RevisionIds |-> NoHook]
  /\ UNCHANGED <<vars, cluster, requested, recon, interruptions, beside, staged>>

\* The process dies, or a provider call fails for reasons of its own.
RetireInterrupted ==
  /\ job.pc # "idle"
  /\ interruptions < MaxInterruptions
  /\ interruptions' = interruptions + 1
  /\ job' = NoJob
  /\ hook' = [r \in RevisionIds |-> NoHook]
  /\ UNCHANGED <<vars, cluster, requested, recon, beside, staged>>

RetireStep ==
  \/ \E d \in DeploymentIds : RetireBegin(d) \/ RetireAbsent(d)
  \/ RetireAdvance
  \/ RetireRefused

-----------------------------------------------------------------------------
(* `op env reconcile`: no lock is held, the document is loaded once.       *)

ReconcileLoad ==
  /\ recon.pc = "idle"
  /\ Overlap \/ job.pc = "idle"
  /\ Meddling \/ requested = {}
  /\ recon' = [pc |-> "loaded", seen |-> Weighted,
               up |-> {r \in Known : HasClusterPresence(r)},
               down |-> {r \in Known : ~HasClusterPresence(r)}]
  /\ UNCHANGED <<vars, cluster, requested, job, hook, interruptions, beside, staged>>

\* The environment-level objects come first, the router's config with them.
ReconcilePush ==
  /\ recon.pc = "loaded"
  /\ router' = recon.seen
  /\ recon' = [recon EXCEPT !.pc = "workers"]
  /\ UNCHANGED <<vars, worker, requested, job, hook, interruptions, beside, staged>>

\* The worker manifest carries its replica count: applying it starts the pod.
ReconcileApply(r) ==
  /\ recon.pc = "workers"
  /\ r \in recon.up
  /\ worker' = [worker EXCEPT ![r] = "running"]
  /\ recon' = [recon EXCEPT !.up = @ \ {r}]
  /\ UNCHANGED <<vars, router, requested, job, hook, interruptions, beside, staged>>

ReconcilePrune(r) ==
  /\ recon.pc = "workers"
  /\ recon.up = {}
  /\ r \in recon.down
  /\ worker' = [worker EXCEPT ![r] = "absent"]
  /\ recon' = [recon EXCEPT !.down = @ \ {r}]
  /\ UNCHANGED <<vars, router, requested, job, hook, interruptions, beside, staged>>

\* Done, or failed on a cluster call and returning its error.
ReconcileEnd ==
  /\ recon.pc # "idle"
  /\ recon' = NoReconcile
  /\ UNCHANGED <<vars, cluster, requested, job, hook, interruptions, beside, staged>>

ReconcileStep ==
  \/ ReconcileLoad \/ ReconcilePush \/ ReconcileEnd
  \/ \E r \in RevisionIds : ReconcileApply(r) \/ ReconcilePrune(r)

\* Any verb of the engine, from another invocation of the CLI.  Here the store
\* is the local one, where `op revisions stage` mints the id of every revision.
OtherVerb ==
  /\ Meddling \/ requested = {}
  /\ Next
  /\ Known' \ Known \subseteq RevisionIds \ staged
  /\ staged' = staged \cup Known'
  /\ UNCHANGED <<cluster, requested, job, hook, recon, interruptions, beside>>

RetireNext ==
  \/ \E d \in DeploymentIds : RequestRetire(d)
  \/ RetireStep
  \/ RetireInterrupted
  \/ \E r \in RevisionIds : HookTimeout(r)
  \/ ReconcileStep
  \/ OtherVerb

RetireSpec == RetireInit /\ [][RetireNext]_retireVars

\* The operator runs an unfinished retire again and it takes its steps.
FairRetireSpec ==
  RetireSpec /\ WF_retireVars(RetireStep) /\ WF_retireVars(ReconcileEnd)

-----------------------------------------------------------------------------
(* Properties.                                                             *)

JobState == {"idle", "load", "stamp", "drain", "gate", "delete", "archive"}

HookState == {"none", "spawned", "loaded", "pushed", "waited", "scaled",
              "drained", "undrained", "failed"}

Job == [pc : JobState, d : DeploymentIds \cup {None}, force : BOOLEAN,
        stamps : SUBSET RevisionIds, drains : SUBSET RevisionIds, teardown : SUBSET RevisionIds,
        archive : SUBSET RevisionIds, order : [RevisionIds -> Nat]]

Hook == [pc : HookState, seen : SUBSET RevisionIds]

Reconcile == [pc : {"idle", "loaded", "workers"}, seen : SUBSET RevisionIds,
              up : SUBSET RevisionIds, down : SUBSET RevisionIds]

\* The sequence's own state is well-formed, and a drain thread only exists
\* inside the run that spawned it, for a revision that run set out to drain.
RetireTypeOK ==
  /\ worker \in [RevisionIds -> WorkerState]
  /\ router \subseteq RevisionIds
  /\ requested \subseteq DeploymentIds
  /\ job \in Job /\ hook \in [RevisionIds -> Hook] /\ recon \in Reconcile
  /\ interruptions \in 0 .. MaxInterruptions
  /\ beside \in Besides
  /\ Known \subseteq staged /\ staged \subseteq RevisionIds
  /\ \A r \in RevisionIds : hook[r].pc # "none" => job.pc = "drain" /\ r \in job.drains

\* The retire writes the document only through the engine's verbs, so every
\* property of the engine holds of a document a retire works on.
ImplementsEngine == Spec

\* A drain never scales down a worker the recorded split sends traffic to,
\* although the split was checked long before, outside any lock, and other
\* verbs set and roll back splits in between: the Draining stamp that came
\* first keeps the revision out of every later split (require_unrouted).  Of
\* a retire left alone the same holds of the live router, whatever the
\* sibling threads push: "nothing new can land on it".
StopUnroutedStep ==
  \A r \in RevisionIds :
    worker[r] = "running" /\ worker'[r] = "stopped" =>
      r \notin Weighted /\ (beside = {} => r \notin router)
StopUnrouted == [][StopUnroutedStep]_retireVars

\* Without --force-drain a retire deletes a worker only when neither the
\* router nor the document routes to it (the archive gate), as long as no
\* reconcile runs during a retire.
TeardownUnroutedStep ==
  \A r \in RevisionIds :
    /\ worker[r] # "absent"
    /\ worker'[r] = "absent"
    /\ job.pc = "delete"
    /\ job'.pc = "archive"
    /\ ~job.force /\ ~Overlap
    => r \notin router \cup Weighted
TeardownUnrouted == [][TeardownUnroutedStep]_retireVars

\* What the retire archives or prunes from the store has no worker left: a
\* teardown that failed leaves the revision where the next run finds it.  A
\* reconcile during the retire may start the worker again.
WorkerGoneFirstStep ==
  ~Overlap =>
    /\ \A r \in RevisionIds :
         /\ job.pc = "archive" /\ job'.pc = "gate"
         /\ revisions[r] # None /\ revisions'[r] # revisions[r]
         => worker[r] = "absent"
    /\ \A d \in DeploymentIds :
         job.pc = "gate" /\ job' = NoJob /\ bundles[d] # None /\ bundles'[d] = None
           => \A r \in RevisionsOf(d) : worker[r] = "absent"
WorkerGoneFirst == [][WorkerGoneFirstStep]_retireVars

\* No reconcile is under way, and no revision archived in the store behind the
\* cluster's back still runs or is still weighted by the live router: the
\* archive gate would refuse its teardown until a fresh reconcile.
Settled ==
  /\ recon.pc = "idle"
  /\ \A r \in RevisionIds :
       revisions[r] # None /\ revisions[r].lifecycle = "Archived"
         => worker[r] # "running" /\ r \notin router

\* "a retire interrupted anywhere is finished by running it again": once asked
\* for, and left alone by other verbs, the deployment is eventually gone,
\* wherever the earlier runs died.
RetireFinishes ==
  \A d \in DeploymentIds : (d \in requested /\ Settled /\ beside = {}) ~> bundles[d] = None
=============================================================================
