---------------------------- MODULE UpdateChannel ----------------------------
(***************************************************************************)
(* The update channel of one environment: `op updates get`, `apply` and    *)
(* `recover` (src/cli/updates.rs) over the staging tree of the external    *)
(* greentic-update crate, and the snapshot and restore of the environment  *)
(* (src/environment/snapshot.rs) that roll a failed apply back.            *)
(*                                                                         *)
(* Operators run commands concurrently.  The staging lock is held for one  *)
(* marker change at a time, the environment's lock for the snapshot, for   *)
(* each verb of the manifest apply and for the restore, and neither across *)
(* them; in between, other operators edit the environment.  Calls may      *)
(* fail and commands may die, MaxFaults times in all.                      *)
(***************************************************************************)
EXTENDS Naturals, FiniteSets

CONSTANTS
  Operators, Plans, None,
  Channels,     \* the environment's own channel and the broadcast one
  Chan,         \* the channel a plan is addressed to
  Seq,          \* its sequence number
  Requires,     \* the plans it must come after
  MaxEdits,     \* bound on the edits of others
  MaxFaults     \* bound on failed calls and crashes

ASSUME ChannelAssumption ==
  /\ Chan \in [Plans -> Channels]
  /\ Seq \in [Plans -> Nat]
  /\ Requires \in [Plans -> SUBSET Plans]
  /\ MaxEdits \in Nat /\ MaxFaults \in Nat
  /\ None \notin Plans

VARIABLES
  stage,        \* the marker of each plan, "absent" before it is admitted
  content,      \* the environment
  backups,      \* edits with a copy under backups/
  edits,        \* how many edits were made
  pc, plan, snap, tries,   \* the commands
  report,       \* what the last command to end told its operator
  faults,
  last,         \* history: the plan that became applied last
  recovered,    \* history: plans failed by `recover`
  overridden,   \* history: those whose apply was alive at that moment
  unrestored    \* history: plans whose rollback failed

command == <<pc, plan, snap, tries, report>>
history == <<last, recovered, overridden, unrestored>>
vars == <<stage, content, backups, edits, command, faults, history>>

Stages == {"absent", "downloading", "inbox", "staged", "applying", "applied",
           "failed", "rejected"}

\* What the environment holds: the plan whose manifest was last applied in
\* full, plans applied in part, and the edits made by other verbs.
Content == [plan: Plans \cup {None}, half: SUBSET Plans, edits: SUBSET (1 .. MaxEdits)]

ChannelInit ==
  /\ stage = [p \in Plans |-> "absent"]
  /\ content = [plan |-> None, half |-> {}, edits |-> {}]
  /\ backups = {}
  /\ edits = 0
  /\ pc = [o \in Operators |-> "idle"]
  /\ plan = [o \in Operators |-> None]
  /\ snap = [o \in Operators |-> None]
  /\ tries = [o \in Operators |-> 0]
  /\ report = "none"
  /\ faults = 0
  /\ last = None
  /\ recovered = {}
  /\ overridden = {}
  /\ unrestored = {}

-----------------------------------------------------------------------------
(* The staging tree.                                                       *)

\* The legal edges between markers.
Edge(from, to) ==
  <<from, to>> \in {<<"downloading", "inbox">>, <<"inbox", "staged">>,
                    <<"downloading", "rejected">>, <<"inbox", "rejected">>,
                    <<"staged", "rejected">>, <<"staged", "applying">>,
                    <<"applying", "applied">>, <<"applying", "failed">>}

Mark(p, to) == stage' = [stage EXCEPT ![p] = to]

Applied == {p \in Plans : stage[p] = "applied"}

\* ensure_not_downgrade and check_compat against the applied plans.
AdmitPlan(p) ==
  /\ \A q \in Applied : Chan[q] = Chan[p] => Seq[p] > Seq[q]
  /\ Requires[p] \subseteq Applied

Fault == faults < MaxFaults /\ faults' = faults + 1

Goto(o, step) == pc' = [pc EXCEPT ![o] = step] /\ UNCHANGED <<plan, snap, tries, report>>

\* The command is over.
Done(o, res) ==
  /\ pc' = [pc EXCEPT ![o] = "idle"]
  /\ plan' = [plan EXCEPT ![o] = None]
  /\ snap' = [snap EXCEPT ![o] = None]
  /\ tries' = [tries EXCEPT ![o] = 0]
  /\ report' = res

Begin(o, p, step) ==
  /\ pc[o] = "idle"
  /\ pc' = [pc EXCEPT ![o] = step]
  /\ plan' = [plan EXCEPT ![o] = p]
  /\ report' = "none"
  /\ UNCHANGED <<snap, tries>>

env == <<content, backups, edits>>

-----------------------------------------------------------------------------
(* op updates get.                                                         *)

\* The plan verifies and is addressed to this environment.
StartGet(o, p) ==
  /\ Begin(o, p, "admit_or_resume")
  /\ UNCHANGED <<stage, env, faults, history>>

\* begin_checked: the gates and the first marker under one lock.
BeginChecked(o) ==
  /\ pc[o] = "admit_or_resume" /\ stage[plan[o]] = "absent"
  /\ \/ AdmitPlan(plan[o]) /\ Mark(plan[o], "downloading") /\ Goto(o, "download")
     \/ ~AdmitPlan(plan[o]) /\ Done(o, "conflict") /\ UNCHANGED stage
  /\ UNCHANGED <<env, faults, history>>

\* A plan that was admitted before: resumed, returned as it is, or refused.
\* The gates are repeated without the lock.
Resume(o) ==
  /\ pc[o] = "admit_or_resume"
  /\ \/ /\ stage[plan[o]] \in {"failed", "rejected"}
        /\ Done(o, "not_resuming")
     \/ /\ stage[plan[o]] \in {"downloading", "inbox"}
        /\ IF AdmitPlan(plan[o]) THEN Goto(o, "download") ELSE Done(o, "conflict")
     \/ /\ stage[plan[o]] \in {"staged", "applying", "applied"}
        /\ Done(o, "ok")
  /\ UNCHANGED <<stage, env, faults, history>>

\* download_and_stage: fetched while downloading, otherwise left alone.
Download(o) ==
  /\ pc[o] = "download"
  /\ \/ stage[plan[o]] \in {"downloading", "inbox"} /\ Goto(o, "advance")
     \/ stage[plan[o]] \notin {"downloading", "inbox"} /\ Done(o, "ok")
  /\ UNCHANGED <<stage, env, faults, history>>

\* Every try of a fetch failed, or a digest did not match.
DownloadFails(o) ==
  /\ pc[o] = "download" /\ stage[plan[o]] = "downloading"
  /\ Fault
  /\ Done(o, "error")
  /\ UNCHANGED <<stage, env, history>>

NextStage == [s \in {"downloading", "inbox"} |-> IF s = "downloading" THEN "inbox" ELSE "staged"]

\* One transition; the marker is read again under the lock.
AdvanceToStaged(o) ==
  /\ pc[o] = "advance"
  /\ IF stage[plan[o]] \in DOMAIN NextStage
     THEN Mark(plan[o], NextStage[stage[plan[o]]]) /\ Goto(o, "advance")
     ELSE Done(o, "ok") /\ UNCHANGED stage
  /\ UNCHANGED <<env, faults, history>>

-----------------------------------------------------------------------------
(* op updates apply.                                                       *)

\* The stage gate.
StartApply(o, p) ==
  /\ \/ stage[p] = "staged" /\ Begin(o, p, "reverify")
     \/ stage[p] # "staged" /\ pc[o] = "idle"
          /\ Done(o, IF stage[p] = "applying" THEN "conflict" ELSE "error")
  /\ UNCHANGED <<stage, env, faults, history>>

ReverifyStaged(o) ==
  /\ pc[o] = "reverify"
  /\ Goto(o, "begin")
  /\ UNCHANGED <<stage, env, faults, history>>

\* Bytes changed on disk, a revoked key, a manifest that cannot be applied.
ReverifyFails(o) ==
  /\ pc[o] = "reverify"
  /\ Goto(o, "reject")
  /\ UNCHANGED <<stage, env, faults, history>>

\* transition(Rejected), its failure ignored.
Reject(o) ==
  /\ pc[o] = "reject"
  /\ IF Edge(stage[plan[o]], "rejected") THEN Mark(plan[o], "rejected") ELSE UNCHANGED stage
  /\ Done(o, "rejected")
  /\ UNCHANGED <<env, faults, history>>

\* Mutant: the gates of `get` are trusted.
BeginApplyUngated(o) ==
  /\ pc[o] = "begin" /\ stage[plan[o]] = "staged"
  /\ \A q \in Plans : stage[q] # "applying"
  /\ Mark(plan[o], "applying")
  /\ Goto(o, "snapshot")
  /\ UNCHANGED <<env, faults, history>>

\* Mutant: plans of different ids apply side by side.
BeginApplyParallel(o) ==
  /\ pc[o] = "begin" /\ stage[plan[o]] = "staged"
  /\ AdmitPlan(plan[o])
  /\ Mark(plan[o], "applying")
  /\ Goto(o, "snapshot")
  /\ UNCHANGED <<env, faults, history>>

\* begin_apply_checked: gates, single flight and marker under one lock.
BeginApply(o) ==
  /\ pc[o] = "begin" /\ stage[plan[o]] = "staged"
  /\ \A q \in Plans : stage[q] # "applying"
  /\ AdmitPlan(plan[o])
  /\ Mark(plan[o], "applying")
  /\ Goto(o, "snapshot")
  /\ UNCHANGED <<env, faults, history>>

\* A newer plan was applied meanwhile: this one is dead.
BeginApplyRejected(o) ==
  /\ pc[o] = "begin" /\ stage[plan[o]] = "staged"
  /\ ~AdmitPlan(plan[o])
  /\ Goto(o, "reject")
  /\ UNCHANGED <<stage, env, faults, history>>

\* Another plan is applying, or this one left `staged`.
BeginApplyConflict(o) ==
  /\ pc[o] = "begin"
  /\ stage[plan[o]] # "staged" \/ \E q \in Plans : stage[q] = "applying"
  /\ Done(o, "conflict")
  /\ UNCHANGED <<stage, env, faults, history>>

\* The marker is written and its audit line is not: an error, and the plan
\* stays in `applying`.
BeginApplyUnaudited(o) ==
  /\ pc[o] = "begin" /\ stage[plan[o]] = "staged"
  /\ \A q \in Plans : stage[q] # "applying"
  /\ AdmitPlan(plan[o])
  /\ Fault
  /\ Mark(plan[o], "applying")
  /\ Done(o, "error")
  /\ UNCHANGED <<env, history>>

SnapshotEnvironment(o) ==
  /\ pc[o] = "snapshot"
  /\ snap' = [snap EXCEPT ![o] = content]
  /\ pc' = [pc EXCEPT ![o] = "apply"]
  /\ UNCHANGED <<stage, env, plan, tries, report, faults, history>>

SnapshotFails(o) ==
  /\ pc[o] = "snapshot"
  /\ Fault
  /\ Goto(o, "fail")
  /\ UNCHANGED <<stage, env, history>>

\* run_manifest_apply: verbs one after the other, each under its own lock.
ApplyVerb(o) ==
  /\ pc[o] = "apply"
  /\ content' = [content EXCEPT !.half = @ \cup {plan[o]}]
  /\ UNCHANGED <<stage, backups, edits, command, faults, history>>

ApplySucceeds(o) ==
  /\ pc[o] = "apply"
  /\ content' = [content EXCEPT !.plan = plan[o], !.half = @ \ {plan[o]}]
  /\ Goto(o, "applied")
  /\ UNCHANGED <<stage, backups, edits, faults, history>>

ApplyFails(o) ==
  /\ pc[o] = "apply"
  /\ Goto(o, "restore")
  /\ UNCHANGED <<stage, env, faults, history>>

\* applying -> applied; a marker that somebody failed meanwhile refuses.
TransitionApplied(o) ==
  /\ pc[o] = "applied" /\ tries[o] < 2 /\ stage[plan[o]] = "applying"
  /\ Mark(plan[o], "applied")
  /\ last' = plan[o]
  /\ Done(o, "ok")
  /\ UNCHANGED <<env, faults, recovered, overridden, unrestored>>

\* Mutant: one try too many.
TransitionAppliedAgain(o) ==
  /\ pc[o] = "applied" /\ tries[o] <= 2
  /\ stage[plan[o]] # "applying" /\ UNCHANGED <<stage, last, faults>>
  /\ tries' = [tries EXCEPT ![o] = @ + 1]
  /\ UNCHANGED <<env, pc, plan, snap, report, recovered, overridden, unrestored>>

\* The transition is refused, or fails before or after the marker is written.
TransitionAppliedFails(o) ==
  /\ pc[o] = "applied" /\ tries[o] < 2
  /\ \/ stage[plan[o]] # "applying" /\ UNCHANGED <<stage, last, faults>>
     \/ Fault /\ UNCHANGED <<stage, last>>
     \/ Fault /\ stage[plan[o]] = "applying" /\ Mark(plan[o], "applied") /\ last' = plan[o]
  /\ tries' = [tries EXCEPT ![o] = @ + 1]
  /\ UNCHANGED <<env, pc, plan, snap, report, recovered, overridden, unrestored>>

\* Mutant: a marker that did not advance rolls the environment back.
TransitionRollsBack(o) ==
  /\ pc[o] = "applied" /\ tries[o] = 2
  /\ Goto(o, "restore")
  /\ UNCHANGED <<stage, env, faults, history>>

\* After two tries the marker is read again: applied after all, or stuck.
TransitionReread(o) ==
  /\ pc[o] = "applied" /\ tries[o] = 2
  /\ Done(o, IF stage[plan[o]] = "applied" THEN "ok" ELSE "stuck")
  /\ UNCHANGED <<stage, env, faults, history>>

\* Mutant: the live files are overwritten without a copy.
RestoreUnbacked(o) ==
  /\ pc[o] = "restore"
  /\ content' = snap[o]
  /\ Goto(o, "fail")
  /\ UNCHANGED <<stage, backups, edits, faults, history>>

\* Mutant: the snapshot is only restored when nothing was edited since.
RestoreUnlessEdited(o) ==
  /\ pc[o] = "restore"
  /\ content' = IF content.edits = snap[o].edits THEN snap[o] ELSE content
  /\ Goto(o, "fail")
  /\ UNCHANGED <<stage, backups, edits, faults, history>>

\* Every captured file is put back, the live ones copied to backups/ first.
RestoreEnvironment(o) ==
  /\ pc[o] = "restore"
  /\ backups' = backups \cup content.edits
  /\ content' = snap[o]
  /\ Goto(o, "fail")
  /\ UNCHANGED <<stage, edits, faults, history>>

\* Not transactional across files: none or most of them are back.
RestoreFails(o) ==
  /\ pc[o] = "restore"
  /\ Fault
  /\ \/ UNCHANGED <<content, backups>>
     \/ /\ backups' = backups \cup content.edits
        /\ content' = [snap[o] EXCEPT !.half = @ \cup {plan[o]}]
  /\ unrestored' = unrestored \cup {plan[o]}
  /\ Goto(o, "fail")
  /\ UNCHANGED <<stage, edits, last, recovered, overridden>>

\* transition(Failed), its failure ignored.
Fail(o) ==
  /\ pc[o] = "fail"
  /\ \/ /\ IF Edge(stage[plan[o]], "failed") THEN Mark(plan[o], "failed") ELSE UNCHANGED stage
        /\ UNCHANGED faults
     \/ Fault /\ UNCHANGED stage
  /\ Done(o, "failed")
  /\ UNCHANGED <<env, history>>

-----------------------------------------------------------------------------
(* op updates recover --force.                                             *)

InFlight == {"snapshot", "apply", "applied", "restore", "fail"}

Alive(p) == \E o \in Operators : plan[o] = p /\ pc[o] \in InFlight

StartRecover(o, p) ==
  /\ stage[p] = "applying"
  /\ Begin(o, p, "recover")
  /\ UNCHANGED <<stage, env, faults, history>>

\* Mutant: the marker is left as it is.
RecoverReporting(o) ==
  /\ pc[o] = "recover"
  /\ Done(o, IF stage[plan[o]] = "applying" THEN "ok" ELSE "error")
  /\ UNCHANGED <<stage, env, faults, history>>

\* The edge is checked again under the staging lock; whether the apply is
\* alive is the operator's word.
Recover(o) ==
  /\ pc[o] = "recover"
  /\ \/ /\ stage[plan[o]] = "applying"
        /\ Mark(plan[o], "failed")
        /\ recovered' = recovered \cup {plan[o]}
        /\ overridden' = IF Alive(plan[o]) THEN overridden \cup {plan[o]} ELSE overridden
        /\ Done(o, "ok")
        /\ UNCHANGED faults
     \/ stage[plan[o]] # "applying" /\ Done(o, "error") /\ UNCHANGED <<stage, recovered, overridden, faults>>
     \/ Fault /\ Done(o, "error") /\ UNCHANGED <<stage, recovered, overridden>>
  /\ UNCHANGED <<env, last, unrestored>>

-----------------------------------------------------------------------------

\* A verb of somebody else, under the environment's lock.
Edit ==
  /\ edits < MaxEdits
  /\ edits' = edits + 1
  /\ content' = [content EXCEPT !.edits = @ \cup {edits + 1}]
  /\ UNCHANGED <<stage, backups, command, faults, history>>

\* The process of a command dies.
Crash(o) ==
  /\ pc[o] # "idle"
  /\ Fault
  /\ Done(o, "none")
  /\ UNCHANGED <<stage, env, history>>

Step(o) ==
  \/ BeginChecked(o) \/ Resume(o) \/ Download(o) \/ DownloadFails(o) \/ AdvanceToStaged(o)
  \/ ReverifyStaged(o) \/ ReverifyFails(o) \/ Reject(o)
  \/ BeginApply(o) \/ BeginApplyRejected(o) \/ BeginApplyConflict(o) \/ BeginApplyUnaudited(o)
  \/ SnapshotEnvironment(o) \/ SnapshotFails(o)
  \/ ApplySucceeds(o) \/ ApplyFails(o)
  \/ TransitionApplied(o) \/ TransitionAppliedFails(o) \/ TransitionReread(o)
  \/ RestoreEnvironment(o) \/ RestoreFails(o) \/ Fail(o) \/ Recover(o)

ChannelNext ==
  \/ Edit
  \/ \E o \in Operators :
       \/ Step(o) \/ ApplyVerb(o) \/ Crash(o)
       \/ \E p \in Plans : StartGet(o, p) \/ StartApply(o, p) \/ StartRecover(o, p)

ChannelSpec == ChannelInit /\ [][ChannelNext]_vars

\* Commands run on, and somebody forces a plan that stays in `applying`
\* after its apply is gone, as the error texts tell the operator to do.
FairChannelSpec ==
  /\ ChannelSpec
  /\ \A o \in Operators : WF_vars(Step(o))
  /\ \A p \in Plans : SF_vars(\E o \in Operators : ~Alive(p) /\ StartRecover(o, p))

-----------------------------------------------------------------------------
(* Properties.                                                             *)

Steps == {"idle", "admit_or_resume", "download", "advance", "reverify", "reject", "begin",
          "recover"} \cup InFlight

\* Markers, environment and commands have the shape the code gives them.
ChannelTypeOK ==
  /\ stage \in [Plans -> Stages]
  /\ content \in Content
  /\ backups \subseteq 1 .. edits
  /\ edits \in 0 .. MaxEdits
  /\ pc \in [Operators -> Steps]
  /\ plan \in [Operators -> Plans \cup {None}]
  /\ snap \in [Operators -> Content \cup {None}]
  /\ tries \in [Operators -> 0 .. 2]
  /\ report \in {"none", "ok", "error", "conflict", "not_resuming", "rejected", "failed", "stuck"}
  /\ faults \in 0 .. MaxFaults
  /\ last \in Plans \cup {None}
  /\ recovered \subseteq Plans
  /\ overridden \subseteq recovered
  /\ unrestored \subseteq Plans

\* "A newer applied plan invalidates it": a plan that becomes applied is
\* newer than everything applied on its channel and follows the plans it
\* requires, whatever was staged, resumed, forced or applied meanwhile
\* (admit_plan inside begin_apply_checked).
AppliedInOrder ==
  [][\A p \in Plans :
       stage[p] # "applied" /\ stage'[p] = "applied" =>
         /\ \A q \in Applied : Chan[q] = Chan[p] => Seq[p] > Seq[q]
         /\ Requires[p] \subseteq Applied]_stage

Changing == {"snapshot", "apply", "restore"}

\* "Apply is single-flight per environment": two applies change the
\* environment at the same time only when an operator forced the marker of
\* one that was alive.
SingleFlight ==
  \A o, q \in Operators :
    pc[o] \in Changing /\ pc[q] \in Changing /\ o # q =>
      plan[o] \in overridden \/ plan[q] \in overridden

\* "On ANY apply failure the pre-apply snapshot is restored and the plan is
\* marked failed": nothing of a failed plan is left in the environment,
\* unless its rollback failed or its marker was forced.
FailedLeavesNothing ==
  overridden = {} =>
    \A p \in Plans :
      stage[p] \in {"failed", "rejected"} /\ p \notin recovered \cup unrestored =>
        content.plan # p /\ p \notin content.half

\* The environment holds the plan that was applied last, or one whose marker
\* still says `applying`, or one that an operator gave up: no rollback takes
\* an applied plan away.
AppliedIsContent ==
  overridden = {} /\ last # None /\ content.plan # last =>
    content.plan # None /\ (stage[content.plan] = "applying" \/ content.plan \in recovered \cup unrestored)

\* A rollback overwrites what others edited since the snapshot; each such
\* edit is in the environment or has a copy under backups/.
EditsRecoverable == 1 .. edits \subseteq content.edits \cup backups

\* A plan in `applying` leaves it again: by its own apply, or by `recover`
\* once the apply is gone.
ApplyingSettles == \A p \in Plans : stage[p] = "applying" ~> stage[p] # "applying"

\* Markers, environment and backups agree after every step: one apply at a
\* time, a failed plan leaves nothing, an applied one stays, and no edit of
\* another operator is gone without a copy.
ChannelSound ==
  /\ ChannelTypeOK
  /\ SingleFlight
  /\ FailedLeavesNothing
  /\ AppliedIsContent
  /\ EditsRecoverable
=============================================================================
