------------------------------ MODULE EnvApply ------------------------------
(***************************************************************************)
(* `op env apply` with --prune: manifests that declare bundles, the ledger *)
(* that records which deployments each manifest owns, and the retirement   *)
(* of what a manifest owns and no longer declares.  An apply is a sequence *)
(* of store verbs and reads, each under its own hold of the lock; other    *)
(* applies and operators run in between.  A deployment is its id, a bundle *)
(* has one customer.  RetireSequence models what one retirement does.      *)
(***************************************************************************)
EXTENDS Naturals, FiniteSets

CONSTANTS
  Appliers,         \* processes that run env apply
  Manifests, Bundles,
  MaxMoves          \* bound on edits, bundles added or removed by hand, aborts

ASSUME ApplyAssumption == MaxMoves \in Nat

VARIABLES
  dep,          \* bundle -> deployment id, 0 if it is not deployed
  ids,          \* ids minted so far
  owners,       \* the ownership ledger: manifest -> ids
  decl,         \* the manifest files: manifest -> bundles declared
  work,         \* the run of each applier
  moves,
  ever,         \* history variable: ids a recorded apply declared, by manifest
  last,         \* history variable: the same, of the last recorded apply
  crossed       \* history variable: an apply was started beside another one

history == <<ever, last, crossed>>
vars == <<dep, ids, owners, decl, work, moves, history>>

None == "none"

Idle == [pc |-> "idle", m |-> None, want |-> {}, plan |-> {}, prune |-> FALSE,
         env |-> {}, declared |-> {}, retire |-> {}]

Live == {dep[b] : b \in Bundles} \ {0}

ApplyInit ==
  /\ dep = [b \in Bundles |-> 0]
  /\ ids = 0
  /\ owners = [m \in Manifests |-> {}]
  /\ decl \in [Manifests -> SUBSET Bundles]
  /\ work = [a \in Appliers |-> Idle]
  /\ moves = 0
  /\ ever = [m \in Manifests |-> {}]
  /\ last = [m \in Manifests |-> {}]
  /\ crossed = FALSE

Set(a, w) == work' = [work EXCEPT ![a] = w]

Move == moves < MaxMoves /\ moves' = moves + 1

\* Mutant: a deployment gets an id that is in use.
AddBundleAgain(b) ==
  /\ dep' = [dep EXCEPT ![b] = ids + 1]
  /\ UNCHANGED ids

AddBundle(b) ==
  /\ dep' = [dep EXCEPT ![b] = ids + 1]
  /\ ids' = ids + 1

-----------------------------------------------------------------------------
(* The upsert half.                                                        *)

\* resolve_and_validate and diff: the bundles to deploy.
Start(a, m, prune) ==
  /\ work[a] = Idle
  /\ Set(a, [Idle EXCEPT !.pc = "execute", !.m = m, !.want = decl[m], !.prune = prune,
                         !.plan = {b \in decl[m] : dep[b] = 0}])
  /\ crossed' = (crossed \/ \E c \in Appliers : work[c] # Idle)
  /\ UNCHANGED <<dep, ids, owners, decl, moves, ever, last>>

\* One deploy step of execute, which adds the bundle unless it exists by now.
Execute(a, b) ==
  /\ work[a].pc = "execute" /\ b \in work[a].plan
  /\ IF dep[b] = 0 THEN AddBundle(b) ELSE UNCHANGED <<dep, ids>>
  /\ Set(a, [work[a] EXCEPT !.plan = @ \ {b}])
  /\ UNCHANGED <<owners, decl, moves, history>>

\* verify fails the apply when a declared bundle is gone.
Verify(a) ==
  /\ work[a].pc = "execute" /\ work[a].plan = {}
  /\ Set(a, IF \A b \in work[a].want : dep[b] # 0
            THEN [work[a] EXCEPT !.pc = "load"]
            ELSE Idle)
  /\ UNCHANGED <<dep, ids, owners, decl, moves, history>>

-----------------------------------------------------------------------------
(* The ledger.                                                             *)

\* declared_ids, over the document as it stands.
DeclaredIds(want) == {dep[b] : b \in want} \ {0}

\* The document is read for the record, outside its lock.
LoadApplied(a) ==
  /\ work[a].pc \in {"load", "reload"}
  /\ Set(a, [work[a] EXCEPT !.pc = IF @ = "load" THEN "record" ELSE "rerecord",
                            !.env = Live, !.declared = DeclaredIds(work[a].want)])
  /\ UNCHANGED <<dep, ids, owners, decl, moves, history>>

\* Mutant: the ledger is rewritten with the own entry only.
RecordedAlone(w) ==
  [m \in Manifests |-> IF m = w.m THEN (owners[m] \cap w.env) \cup w.declared ELSE {}]

\* ownership::record: the own entry keeps what still exists and gains what is
\* declared; the others lose what the document read before does not hold.
Recorded(w) ==
  [m \in Manifests |-> (owners[m] \cap w.env) \cup (IF m = w.m THEN w.declared ELSE {})]

Record(a) ==
  LET w == work[a] IN
  /\ w.pc \in {"record", "rerecord"}
  /\ owners' = Recorded(w)
  /\ ever' = [ever EXCEPT ![w.m] = @ \cup w.declared]
  /\ last' = [last EXCEPT ![w.m] = w.declared]
  /\ Set(a, IF w.pc = "record" /\ w.prune THEN [w EXCEPT !.pc = "plan"] ELSE Idle)
  /\ UNCHANGED <<dep, ids, decl, moves, crossed>>

-----------------------------------------------------------------------------
(* The prune half.                                                         *)

\* Mutant: what another manifest owns as well may be pruned.
PrunableShared(m) == owners[m]

\* prunable_by: own entries that no other owner claims.
Prunable(m) == owners[m] \ UNION {owners[n] : n \in Manifests \ {m}}

\* Mutant: everything that is not declared is pruned.
PrunePlanAll(w) == w.env \ w.declared

\* plan_for and prune_plan, from the document and the ledger read after it.
PrunePlan(w) == (Prunable(w.m) \cap w.env) \ w.declared

PlanEnv(a) ==
  /\ work[a].pc = "plan"
  /\ Set(a, [work[a] EXCEPT !.pc = "ledger", !.env = Live, !.declared = DeclaredIds(work[a].want)])
  /\ UNCHANGED <<dep, ids, owners, decl, moves, history>>

PlanLedger(a) ==
  /\ work[a].pc = "ledger"
  /\ LET retire == PrunePlan(work[a])
     IN  Set(a, [work[a] EXCEPT !.retire = retire, !.pc = IF retire = {} THEN "reload" ELSE "retire"])
  /\ UNCHANGED <<dep, ids, owners, decl, moves, history>>

\* Mutant: the deployment is reported as retired and stays.
RetireMarks(a, d) ==
  LET w == work[a] IN
  /\ w.pc = "retire" /\ d \in w.retire
  /\ Set(a, [w EXCEPT !.retire = @ \ {d}, !.pc = IF w.retire = {d} THEN "reload" ELSE @])
  /\ UNCHANGED <<dep, ids, owners, decl, moves, history>>

\* retire_deployment; one that is gone ends the apply.
Retire(a, d) ==
  LET w == work[a] IN
  /\ w.pc = "retire" /\ d \in w.retire
  /\ IF d \in Live
     THEN /\ dep' = [b \in Bundles |-> IF dep[b] = d THEN 0 ELSE dep[b]]
          /\ Set(a, [w EXCEPT !.retire = @ \ {d}, !.pc = IF w.retire = {d} THEN "reload" ELSE @])
     ELSE Set(a, Idle) /\ UNCHANGED dep
  /\ UNCHANGED <<ids, owners, decl, moves, history>>

-----------------------------------------------------------------------------
(* The operators.                                                          *)

\* Death, a step that fails, a refusal, or a ledger that cannot be written.
Abort(a) ==
  /\ work[a] # Idle
  /\ Move
  /\ Set(a, Idle)
  /\ UNCHANGED <<dep, ids, owners, decl, history>>

Edit(m, bundles) ==
  /\ bundles # decl[m]
  /\ Move
  /\ decl' = [decl EXCEPT ![m] = bundles]
  /\ UNCHANGED <<dep, ids, owners, work, history>>

\* `op bundles add`, `op bundles retire`
ByHand(b) ==
  /\ Move
  /\ IF dep[b] = 0
     THEN AddBundle(b)
     ELSE dep' = [dep EXCEPT ![b] = 0] /\ UNCHANGED ids
  /\ UNCHANGED <<owners, decl, work, history>>

Step(a) ==
  \/ \E b \in Bundles : Execute(a, b)
  \/ Verify(a) \/ LoadApplied(a) \/ Record(a) \/ PlanEnv(a) \/ PlanLedger(a)
  \/ \E d \in work[a].retire : Retire(a, d)

ApplyNext ==
  \/ \E a \in Appliers :
       \/ \E m \in Manifests, prune \in BOOLEAN : Start(a, m, prune)
       \/ Step(a) \/ Abort(a)
  \/ \E m \in Manifests, bundles \in SUBSET Bundles : Edit(m, bundles)
  \/ \E b \in Bundles : ByHand(b)

ApplySpec == ApplyInit /\ [][ApplyNext]_vars

\* An apply that runs goes on; a pruning apply of each manifest is repeated.
Fairness ==
  /\ \A a \in Appliers : WF_vars(Step(a))
  /\ \A m \in Manifests : SF_vars(\E a \in Appliers : Start(a, m, TRUE))

ApplyFairSpec == ApplySpec /\ Fairness

-----------------------------------------------------------------------------
(* Properties.                                                             *)

\* Ids are distinct and the ledger, the manifests and the runs range over
\* bundles and ids that were minted.
ApplyTypeOK ==
  /\ dep \in [Bundles -> 0 .. ids]
  /\ \A b, c \in Bundles : b # c /\ dep[b] # 0 => dep[b] # dep[c]
  /\ owners \in [Manifests -> SUBSET (1 .. ids)]
  /\ decl \in [Manifests -> SUBSET Bundles]
  /\ \A a \in Appliers : work[a].plan \subseteq work[a].want
       /\ (work[a].env \cup work[a].retire) \subseteq 1 .. ids

\* "A deployment `owned` does not name is never touched": whatever runs beside
\* it, a prune is about to retire only deployments that an apply of its own
\* manifest declared, and none of a bundle it declares now.
RetireOwn ==
  \A a \in Appliers :
    /\ work[a].retire \subseteq (IF work[a] = Idle THEN {} ELSE ever[work[a].m])
    /\ \A b \in work[a].want : dep[b] \notin work[a].retire

\* "Two manifests applied to one env cannot prune each other's bundles": no
\* deployment that still exists is about to be retired while the last apply of
\* another manifest declared it.  Applies that run side by side are excepted:
\* the ledger read by a prune may be older than the record of the other.
NeverPrunesDeclared ==
  ~ crossed => \A a \in Appliers : \A d \in work[a].retire \cap Live :
    \A m \in Manifests \ {work[a].m} : d \notin last[m]

\* "Other owners' entries are pruned of deployments that no longer exist and
\* are otherwise untouched": the record of one manifest drops no claim of
\* another on a deployment that exists, unless two applies ran side by side.
ClaimKept ==
  [][~ crossed => \A a \in Appliers : owners' # owners /\ work'[a] # work[a] =>
       \A m \in Manifests \ {work[a].m} : (owners[m] \ owners'[m]) \cap Live = {}]_vars

\* A deployment that is owned by one manifest only, and no longer declared by
\* it, does not stay.
PruneConverges ==
  \A m \in Manifests : \A b \in Bundles :
    [](dep[b] # 0 /\ dep[b] \in Prunable(m) /\ b \notin decl[m]
       => <>(dep[b] = 0 \/ dep[b] \notin Prunable(m) \/ b \in decl[m]))

\* A prune takes only what is its own to take, at every step of every apply.
ApplySound ==
  /\ ApplyTypeOK
  /\ RetireOwn
  /\ NeverPrunesDeclared
=============================================================================
