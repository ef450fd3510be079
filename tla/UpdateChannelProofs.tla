------------------------ MODULE UpdateChannelProofs ------------------------
(***************************************************************************)
(* Proofs about UpdateChannel.  Three layers: the shape of the state       *)
(* (Shape), the marker as a lock (Flight: one plan is `applying`, and      *)
(* whoever applies it still holds that marker unless an operator forced    *)
(* it), and, while nobody was forced, what an apply knows of the           *)
(* environment it changes and of its snapshot (Calm).                      *)
(***************************************************************************)
EXTENDS UpdateChannel, TLAPS

Snapped == {"apply", "applied", "restore"}

\* A command has a plan, and an apply past its snapshot has the snapshot.
CommandShape(o) ==
  /\ pc[o] # "idle" => plan[o] \in Plans
  /\ pc[o] \in Snapped => snap[o] \in Content /\ snap[o].edits \subseteq 1 .. edits

Shape ==
  /\ ChannelTypeOK
  /\ content.edits \subseteq 1 .. edits
  /\ \A o \in Operators : CommandShape(o)

Settled == {"applying", "applied", "failed"}

\* One plan is `applying`, the gates passed for it and hold until it settles;
\* a forced plan has failed.
Markers ==
  /\ \A p, q \in Plans : stage[p] = "applying" /\ stage[q] = "applying" => p = q
  /\ \A p \in Plans : stage[p] = "applying" => AdmitPlan(p)
  /\ \A p \in recovered : stage[p] = "failed"
  /\ \A p \in unrestored : stage[p] \in Settled

\* An apply under way holds the marker, has just given it up by success, or
\* was forced.
HoldsMarker(o) ==
  pc[o] \in InFlight =>
    \/ stage[plan[o]] = "applying"
    \/ pc[o] = "applied" /\ stage[plan[o]] = "applied"
    \/ plan[o] \in overridden

Flight ==
  /\ Markers
  /\ \A o \in Operators : HoldsMarker(o)
  /\ \A o, q \in Operators :
       pc[o] \in InFlight /\ pc[q] \in InFlight /\ plan[o] = plan[q] => o = q

Holds(c, p) == c.plan = p \/ p \in c.half

\* Every plan of which c holds something is being applied, was applied, or was
\* given up by an operator or by a rollback that failed.
Accounted(c) ==
  \A p \in Plans : Holds(c, p) => stage[p] \in {"applying", "applied"} \/ p \in recovered \cup unrestored

\* The plan of c is the one applied last, or it was superseded knowingly.
Latest(c) ==
  last # None /\ c.plan # last =>
    c.plan # None /\ (stage[c.plan] = "applying" \/ c.plan \in recovered \cup unrestored)

\* What an apply knows of the environment and of its snapshot.
Knows(o) ==
  /\ pc[o] = "snapshot" => ~Holds(content, plan[o])
  /\ pc[o] \in {"apply", "restore"} =>
       ~Holds(snap[o], plan[o]) /\ Accounted(snap[o]) /\ Latest(snap[o])
  /\ pc[o] = "fail" /\ Holds(content, plan[o]) => plan[o] \in unrestored
  /\ pc[o] = "applied" /\ stage[plan[o]] = "applying" => content.plan = plan[o]

Calm ==
  overridden = {} =>
    /\ Accounted(content) /\ Latest(content)
    /\ \A o \in Operators : Knows(o)

ChannelInv == Shape /\ Flight /\ Calm /\ EditsRecoverable

-----------------------------------------------------------------------------
(* The shape of the state.                                                 *)

Reports == {"none", "ok", "error", "conflict", "not_resuming", "rejected", "failed", "stuck"}

\* The part of Shape that is about the commands.
Commands ==
  /\ pc \in [Operators -> Steps]
  /\ plan \in [Operators -> Plans \cup {None}]
  /\ snap \in [Operators -> Content \cup {None}]
  /\ tries \in [Operators -> 0 .. 2]
  /\ report \in Reports
  /\ \A o \in Operators : CommandShape(o)

\* The part that is about the markers, the environment and the history.
Tree ==
  /\ stage \in [Plans -> Stages]
  /\ content \in Content /\ content.edits \subseteq 1 .. edits
  /\ backups \subseteq 1 .. edits
  /\ edits \in 0 .. MaxEdits
  /\ faults \in 0 .. MaxFaults
  /\ last \in Plans \cup {None}
  /\ recovered \subseteq Plans /\ overridden \subseteq recovered /\ unrestored \subseteq Plans

\* A command that ends.
LEMMA DoneCommands ==
  ASSUME Commands, NEW o \in Operators, NEW res \in Reports, Done(o, res), edits' = edits
  PROVE  Commands'
<1>1. pc' \in [Operators -> Steps]
  BY DEF Commands, Done, Steps
<1>2. /\ plan' \in [Operators -> Plans \cup {None}]
      /\ snap' \in [Operators -> Content \cup {None}]
      /\ tries' \in [Operators -> 0 .. 2]
      /\ report' \in Reports
  BY DEF Commands, Done
<1>3. ASSUME NEW q \in Operators PROVE CommandShape(q)'
  <2>1. CASE q = o
    BY <2>1 DEF Commands, Done, CommandShape, Snapped
  <2>2. CASE q # o
    BY <2>2 DEF Commands, Done, CommandShape
  <2> QED  BY <2>1, <2>2
<1> QED  BY <1>1, <1>2, <1>3 DEF Commands

\* A command that moves on.
LEMMA GotoCommands ==
  ASSUME Commands, NEW o \in Operators, NEW step \in Steps, Goto(o, step), edits' = edits,
         pc[o] # "idle", step \in Snapped => pc[o] \in Snapped
  PROVE  Commands'
<1>1. pc' \in [Operators -> Steps]
  BY DEF Commands, Goto
<1>2. ASSUME NEW q \in Operators PROVE CommandShape(q)'
  <2>1. CASE q = o
    BY <2>1 DEF Commands, Goto, CommandShape
  <2>2. CASE q # o
    BY <2>2 DEF Commands, Goto, CommandShape
  <2> QED  BY <2>1, <2>2
<1> QED  BY <1>1, <1>2 DEF Commands, Goto

\* A command that starts.
LEMMA BeginCommands ==
  ASSUME Commands, NEW o \in Operators, NEW p \in Plans, NEW step \in Steps \ Snapped,
         Begin(o, p, step), edits' = edits
  PROVE  Commands'
<1>1. pc' \in [Operators -> Steps] /\ plan' \in [Operators -> Plans \cup {None}]
  BY DEF Commands, Begin
<1>2. ASSUME NEW q \in Operators PROVE CommandShape(q)'
  <2>1. CASE q = o
    BY <2>1 DEF Commands, Begin, CommandShape
  <2>2. CASE q # o
    BY <2>2 DEF Commands, Begin, CommandShape
  <2> QED  BY <2>1, <2>2
<1>3. report' \in Reports
  BY DEF Begin, Reports
<1> QED  BY <1>1, <1>2, <1>3 DEF Commands, Begin

\* No command moves, and there are only more edits.
LEMMA IdleCommands ==
  ASSUME Commands, UNCHANGED command, 1 .. edits \subseteq 1 .. edits'
  PROVE  Commands'
BY DEF Commands, command, CommandShape

\* The snapshot is taken.
LEMMA SnapshotCommands ==
  ASSUME Commands, Tree, NEW o \in Operators, SnapshotEnvironment(o)
  PROVE  Commands'
<1>1. pc' \in [Operators -> Steps] /\ snap' \in [Operators -> Content \cup {None}]
  BY DEF Commands, Tree, SnapshotEnvironment, Steps, InFlight
<1>2. ASSUME NEW q \in Operators PROVE CommandShape(q)'
  <2>1. CASE q = o
    BY <2>1 DEF Commands, Tree, SnapshotEnvironment, CommandShape, env
  <2>2. CASE q # o
    BY <2>2 DEF Commands, SnapshotEnvironment, CommandShape, env
  <2> QED  BY <2>1, <2>2
<1> QED  BY <1>1, <1>2 DEF Commands, SnapshotEnvironment

\* A fault is counted up to its bound.
LEMMA FaultCounted ==
  ASSUME faults \in 0 .. MaxFaults, Fault PROVE faults' \in 0 .. MaxFaults
BY ChannelAssumption DEF Fault

\* A marker is written.
LEMMA MarkStage ==
  ASSUME stage \in [Plans -> Stages], NEW p \in Plans, NEW to \in Stages, Mark(p, to)
  PROVE  stage' \in [Plans -> Stages]
BY DEF Mark

\* Tree when nothing of it but the markers and the faults moves.
LEMMA TreeMarked ==
  ASSUME Tree, UNCHANGED <<env, history>>, stage' \in [Plans -> Stages], faults' \in 0 .. MaxFaults
  PROVE  Tree'
BY DEF Tree, env, history

\* The plan of a command under way.
LEMMA PlanOf ==
  ASSUME Commands, NEW o \in Operators, pc[o] # "idle" PROVE plan[o] \in Plans
BY DEF Commands, CommandShape

\* The shape is kept by every step.
LEMMA ShapeStep == Shape /\ [ChannelNext]_vars => Shape'
<1> SUFFICES ASSUME Commands, Tree, [ChannelNext]_vars PROVE Commands' /\ Tree'
  BY DEF Shape, ChannelTypeOK, Commands, Tree, Reports
<1>0. CASE UNCHANGED vars
  BY <1>0, IdleCommands DEF vars, command, history, env, Tree
<1>1. CASE Edit
  <2>1. edits' \in 0 .. MaxEdits /\ 1 .. edits \subseteq 1 .. edits' /\ edits + 1 \in 1 .. edits'
    BY <1>1, ChannelAssumption DEF Edit, Tree
  <2>2. content' \in Content /\ content'.edits \subseteq 1 .. edits'
    <3>1. PICK n : n = edits + 1
      OBVIOUS
    <3>2. content' = [content EXCEPT !.edits = @ \cup {n}] /\ n \in 1 .. edits' /\ n \in 1 .. MaxEdits
      BY <3>1, <2>1, <1>1, ChannelAssumption DEF Edit, Tree
    <3> QED  BY <3>2, <2>1 DEF Tree, Content
  <2> QED  BY <2>1, <2>2, <1>1, IdleCommands DEF Edit, Tree, history
<1>2. ASSUME NEW o \in Operators, NEW p \in Plans, StartGet(o, p) PROVE Commands' /\ Tree'
  BY <1>2, BeginCommands, TreeMarked DEF StartGet, env, Steps, Snapped, Tree
<1>3. ASSUME NEW o \in Operators, NEW p \in Plans, StartApply(o, p) PROVE Commands' /\ Tree'
  BY <1>3, BeginCommands, DoneCommands, TreeMarked DEF StartApply, env, Steps, Snapped, Tree, Reports
<1>4. ASSUME NEW o \in Operators, NEW p \in Plans, StartRecover(o, p) PROVE Commands' /\ Tree'
  BY <1>4, BeginCommands, TreeMarked DEF StartRecover, env, Steps, Snapped, Tree
<1>5. ASSUME NEW o \in Operators, Crash(o) PROVE Commands' /\ Tree'
  BY <1>5, DoneCommands, TreeMarked, FaultCounted DEF Crash, env, Tree, Reports
<1>6. ASSUME NEW o \in Operators, ApplyVerb(o) PROVE Commands' /\ Tree'
  <2>1. plan[o] \in Plans
    BY <1>6, PlanOf DEF ApplyVerb
  <2>2. content' \in Content /\ content'.edits = content.edits
    BY <2>1, <1>6 DEF ApplyVerb, Tree, Content
  <2> QED  BY <2>2, <1>6, IdleCommands DEF ApplyVerb, Tree, history
<1>7. ASSUME NEW o \in Operators, Step(o) PROVE Commands' /\ Tree'
  <2> USE DEF Tree
  <2>1. CASE BeginChecked(o)
    <3>1. plan[o] \in Plans /\ stage' \in [Plans -> Stages]
      BY <2>1, PlanOf, MarkStage DEF BeginChecked, Stages
    <3> QED  BY <3>1, <2>1, GotoCommands, DoneCommands, TreeMarked DEF BeginChecked, env, Steps, Snapped, Reports, InFlight
  <2>2. CASE Resume(o)
    BY <2>2, GotoCommands, DoneCommands, TreeMarked DEF Resume, env, Steps, Snapped, Reports
  <2>3. CASE Download(o)
    BY <2>3, GotoCommands, DoneCommands, TreeMarked DEF Download, env, Steps, Snapped, Reports
  <2>4. CASE DownloadFails(o)
    BY <2>4, DoneCommands, TreeMarked, FaultCounted DEF DownloadFails, env, Reports
  <2>5. CASE AdvanceToStaged(o)
    <3>1. plan[o] \in Plans /\ stage' \in [Plans -> Stages]
      BY <2>5, PlanOf, MarkStage DEF AdvanceToStaged, Stages, NextStage
    <3> QED  BY <3>1, <2>5, GotoCommands, DoneCommands, TreeMarked DEF AdvanceToStaged, env, Steps, Snapped, Reports
  <2>6. CASE ReverifyStaged(o)
    BY <2>6, GotoCommands, TreeMarked DEF ReverifyStaged, env, Steps, Snapped
  <2>7. CASE ReverifyFails(o)
    BY <2>7, GotoCommands, TreeMarked DEF ReverifyFails, env, Steps, Snapped
  <2>8. CASE Reject(o)
    <3>1. plan[o] \in Plans /\ stage' \in [Plans -> Stages]
      BY <2>8, PlanOf, MarkStage DEF Reject, Stages
    <3> QED  BY <3>1, <2>8, DoneCommands, TreeMarked DEF Reject, env, Reports
  <2>9. CASE BeginApply(o)
    <3>1. plan[o] \in Plans /\ stage' \in [Plans -> Stages]
      BY <2>9, PlanOf, MarkStage DEF BeginApply, Stages
    <3> QED  BY <3>1, <2>9, GotoCommands, TreeMarked DEF BeginApply, env, Steps, Snapped, InFlight
  <2>10. CASE BeginApplyRejected(o)
    BY <2>10, GotoCommands, TreeMarked DEF BeginApplyRejected, env, Steps, Snapped
  <2>11. CASE BeginApplyConflict(o)
    BY <2>11, DoneCommands, TreeMarked DEF BeginApplyConflict, env, Reports
  <2>12. CASE BeginApplyUnaudited(o)
    <3>1. plan[o] \in Plans /\ stage' \in [Plans -> Stages]
      BY <2>12, PlanOf, MarkStage DEF BeginApplyUnaudited, Stages
    <3> QED  BY <3>1, <2>12, DoneCommands, TreeMarked, FaultCounted DEF BeginApplyUnaudited, env, Reports
  <2>13. CASE SnapshotEnvironment(o)
    BY <2>13, SnapshotCommands, TreeMarked DEF SnapshotEnvironment
  <2>14. CASE SnapshotFails(o)
    BY <2>14, GotoCommands, TreeMarked, FaultCounted DEF SnapshotFails, env, Steps, Snapped, InFlight
  <2>15. CASE ApplySucceeds(o)
    <3>1. plan[o] \in Plans
      BY <2>15, PlanOf DEF ApplySucceeds
    <3>2. content' \in Content /\ content'.edits = content.edits
      BY <3>1, <2>15 DEF ApplySucceeds, Content
    <3> QED  BY <3>2, <2>15, GotoCommands DEF ApplySucceeds, history, Steps, Snapped, InFlight
  <2>16. CASE ApplyFails(o)
    BY <2>16, GotoCommands, TreeMarked DEF ApplyFails, env, Steps, Snapped, InFlight
  <2>17. CASE TransitionApplied(o)
    <3>1. plan[o] \in Plans /\ stage' \in [Plans -> Stages]
      BY <2>17, PlanOf, MarkStage DEF TransitionApplied, Stages
    <3> QED  BY <3>1, <2>17, DoneCommands DEF TransitionApplied, env, Reports
  <2>18. CASE TransitionAppliedFails(o)
    <3>1. plan[o] \in Plans /\ tries[o] \in 0 .. 2 /\ tries[o] < 2
      BY <2>18, PlanOf DEF TransitionAppliedFails, Commands
    <3>2. stage' \in [Plans -> Stages] /\ last' \in Plans \cup {None} /\ faults' \in 0 .. MaxFaults
      BY <3>1, <2>18, MarkStage, FaultCounted DEF TransitionAppliedFails, Stages
    <3>3. tries' \in [Operators -> 0 .. 2]
      <4>1. PICK n \in 0 .. 2 : n = tries[o] + 1
        BY <3>1
      <4>2. tries' = [tries EXCEPT ![o] = n]
        BY <4>1, <2>18 DEF TransitionAppliedFails
      <4> QED  BY <4>2 DEF Commands
    <3>4. Commands'
      BY <3>3, <2>18 DEF TransitionAppliedFails, Commands, CommandShape, env
    <3> QED  BY <3>2, <3>4, <2>18 DEF TransitionAppliedFails, env
  <2>19. CASE TransitionReread(o)
    BY <2>19, DoneCommands, TreeMarked DEF TransitionReread, env, Reports
  <2>20. CASE RestoreEnvironment(o)
    <3>1. snap[o] \in Content /\ snap[o].edits \subseteq 1 .. edits
      BY <2>20 DEF RestoreEnvironment, Commands, CommandShape, Snapped
    <3> QED  BY <3>1, <2>20, GotoCommands DEF RestoreEnvironment, history, Steps, Snapped, InFlight
  <2>21. CASE RestoreFails(o)
    <3>1. snap[o] \in Content /\ snap[o].edits \subseteq 1 .. edits /\ plan[o] \in Plans
      BY <2>21, PlanOf DEF RestoreFails, Commands, CommandShape, Snapped
    <3>2. content' \in Content /\ content'.edits \subseteq 1 .. edits /\ backups' \subseteq 1 .. edits
      BY <3>1, <2>21 DEF RestoreFails, Content
    <3>3. Commands'
      BY <2>21, GotoCommands DEF RestoreFails, Steps, Snapped, InFlight
    <3> QED  BY <3>1, <3>2, <3>3, <2>21, FaultCounted DEF RestoreFails
  <2>22. CASE Fail(o)
    <3>1. plan[o] \in Plans /\ stage' \in [Plans -> Stages]
      BY <2>22, PlanOf, MarkStage DEF Fail, Stages
    <3> QED  BY <3>1, <2>22, DoneCommands, TreeMarked, FaultCounted DEF Fail, env, Reports
  <2>23. CASE Recover(o)
    <3>1. plan[o] \in Plans /\ stage' \in [Plans -> Stages] /\ faults' \in 0 .. MaxFaults
      BY <2>23, PlanOf, MarkStage, FaultCounted DEF Recover, Stages
    <3>2. recovered' \subseteq Plans /\ overridden' \subseteq recovered'
      BY <3>1, <2>23 DEF Recover
    <3>3. Commands'
      BY <2>23, DoneCommands DEF Recover, env, Reports
    <3> QED  BY <3>1, <3>2, <3>3, <2>23 DEF Recover, env
  <2> QED
    BY <1>7, <2>1, <2>2, <2>3, <2>4, <2>5, <2>6, <2>7, <2>8, <2>9, <2>10, <2>11, <2>12, <2>13,
       <2>14, <2>15, <2>16, <2>17, <2>18, <2>19, <2>20, <2>21, <2>22, <2>23 DEF Step
<1> QED  BY <1>0, <1>1, <1>2, <1>3, <1>4, <1>5, <1>6, <1>7 DEF ChannelNext

-----------------------------------------------------------------------------
(* Steps that leave alone what the applies under way rely on.              *)

\* Only markers before `applying` move, the environment holds the same plans,
\* and no command enters an apply.
Quiet ==
  /\ \A p \in Plans : stage'[p] = stage[p] \/ (stage[p] \notin Settled /\ stage'[p] \notin Settled)
  /\ UNCHANGED history
  /\ content'.plan = content.plan /\ content'.half = content.half
  /\ \A q \in Operators :
       pc'[q] \in InFlight => pc'[q] = pc[q] /\ plan'[q] = plan[q] /\ snap'[q] = snap[q]

\* An apply under way has a plan.
LEMMA FlightPlan ==
  ASSUME Shape, NEW o \in Operators, pc[o] \in InFlight PROVE plan[o] \in Plans
BY DEF Shape, CommandShape, InFlight

\* The marker as a lock survives them.
LEMMA QuietFlight ==
  ASSUME Shape, Flight, Quiet PROVE Flight'
<1>1. Applied' = Applied
  BY DEF Applied, Quiet, Settled
<1>2. Markers'
  <2>1. \A p \in Plans : AdmitPlan(p) => AdmitPlan(p)'
    BY <1>1 DEF AdmitPlan
  <2>2. \A p \in Plans : stage[p] \in Settled \/ stage'[p] \in Settled => stage'[p] = stage[p]
    BY DEF Quiet
  <2> QED  BY <2>1, <2>2 DEF Flight, Markers, Quiet, history, Settled, Shape, ChannelTypeOK
<1>3. ASSUME NEW q \in Operators PROVE HoldsMarker(q)'
  <2>1. CASE pc'[q] \in InFlight
    <3>1. pc'[q] = pc[q] /\ plan'[q] = plan[q] /\ pc[q] \in InFlight /\ plan[q] \in Plans
      BY <2>1, FlightPlan DEF Quiet
    <3> QED  BY <3>1 DEF Quiet, Flight, HoldsMarker, history, Settled
  <2>2. CASE pc'[q] \notin InFlight
    BY <2>2 DEF HoldsMarker
  <2> QED  BY <2>1, <2>2
<1>4. \A o, q \in Operators :
        pc'[o] \in InFlight /\ pc'[q] \in InFlight /\ plan'[o] = plan'[q] => o = q
  BY DEF Quiet, Flight
<1> QED  BY <1>2, <1>3, <1>4 DEF Flight

\* So does what is known of an environment.
LEMMA QuietContent ==
  ASSUME Shape, Flight, Quiet, NEW c \in Content, Accounted(c), Latest(c)
  PROVE  Accounted(c)' /\ Latest(c)'
<1>1. \A p \in Plans : stage[p] \in Settled => stage'[p] = stage[p]
  BY DEF Quiet
<1>2. UNCHANGED <<last, recovered, unrestored>>
  BY DEF Quiet, history
<1>3. Accounted(c)'
  BY <1>1, <1>2 DEF Accounted, Holds, Settled
<1>4. Latest(c)'
  BY <1>1, <1>2 DEF Latest, Content, Settled
<1> QED  BY <1>3, <1>4

\* And what an apply knows.
LEMMA QuietCalm ==
  ASSUME Shape, Flight, Calm, Quiet PROVE Calm'
<1> SUFFICES ASSUME overridden' = {} PROVE Calm'
  BY DEF Calm
<1>1. overridden = {} /\ content \in Content
  BY DEF Quiet, history, Shape, ChannelTypeOK
<1>2. Accounted(content)' /\ Latest(content)'
  <2>1. PICK c \in Content : c = content
    BY <1>1
  <2>2. Accounted(c) /\ Latest(c)
    BY <1>1, <2>1 DEF Calm
  <2>3. Accounted(c)' /\ Latest(c)'
    BY <2>2, QuietContent
  <2>4. c.plan = content'.plan /\ c.half = content'.half
    BY <2>1 DEF Quiet
  <2> QED  BY <2>3, <2>4 DEF Accounted, Latest, Holds
<1>3. ASSUME NEW q \in Operators, pc'[q] \in InFlight PROVE Knows(q)'
  <2>1. /\ pc'[q] = pc[q] /\ plan'[q] = plan[q] /\ snap'[q] = snap[q] /\ plan[q] \in Plans
        /\ content'.plan = content.plan /\ content'.half = content.half
        /\ UNCHANGED unrestored
    BY <1>3, FlightPlan DEF Quiet, history
  <2>2. Knows(q)
    BY <1>1 DEF Calm
  <2>3. pc[q] = "snapshot" => ~Holds(content, plan[q])'
    BY <2>1, <2>2 DEF Knows, Holds
  <2>4. ASSUME pc[q] \in {"apply", "restore"}
        PROVE  ~Holds(snap[q], plan[q])' /\ Accounted(snap[q])' /\ Latest(snap[q])'
    <3>1. PICK c \in Content : c = snap[q]
      BY <2>4 DEF Shape, CommandShape, Snapped
    <3>2. ~Holds(c, plan[q]) /\ Accounted(c) /\ Latest(c)
      BY <3>1, <2>2, <2>4 DEF Knows
    <3>3. Accounted(c)' /\ Latest(c)'
      BY <3>2, QuietContent
    <3>4. c = snap'[q]
      BY <3>1, <2>1
    <3> QED  BY <3>2, <3>3, <3>4, <2>1 DEF Holds, Accounted, Latest
  <2>5. pc[q] = "fail" /\ Holds(content, plan[q])' => plan[q] \in unrestored
    BY <2>1, <2>2 DEF Knows, Holds
  <2>6. pc[q] = "applied" /\ stage'[plan[q]] = "applying" => content'.plan = plan[q]
    BY <2>1, <2>2 DEF Knows, Quiet, Settled
  <2> QED  BY <2>1, <2>3, <2>4, <2>5, <2>6 DEF Knows
<1>4. \A q \in Operators : Knows(q)'
  BY <1>3 DEF Knows, InFlight
<1> QED  BY <1>2, <1>4 DEF Calm

-----------------------------------------------------------------------------
(* Steps of an apply under way.                                            *)

\* The apply has advanced its marker and has only its report left to give.
Landed(q) == pc[q] \in InFlight => pc[q] = "applied" /\ stage[plan[q]] = "applied"

\* While nobody was forced, an apply that does not hold the one `applying`
\* plan has landed.
LEMMA OthersLanded ==
  ASSUME Shape, Flight, overridden = {}, NEW p, NEW q \in Operators,
         \A r \in Plans : stage[r] = "applying" => r = p,
         pc[q] \in InFlight => plan[q] # p
  PROVE  Landed(q)
BY FlightPlan DEF Flight, HoldsMarker, Landed

\* What such an apply knows stays true whatever happens to the environment.
LEMMA LandedKnows ==
  ASSUME Shape, NEW q \in Operators, Landed(q), pc'[q] = pc[q], plan'[q] = plan[q],
         pc[q] \in InFlight => stage'[plan[q]] = stage[plan[q]]
  PROVE  Knows(q)'
BY DEF Landed, Knows, InFlight

\* Steps of o's apply that leave the markers alone.
Working(o) ==
  /\ pc[o] \in InFlight \ {"applied"} /\ pc'[o] \in InFlight
  /\ UNCHANGED <<stage, plan, last, recovered, overridden>>
  /\ unrestored' \subseteq unrestored \cup {plan[o]} /\ unrestored \subseteq unrestored'
  /\ \A q \in Operators \ {o} : pc'[q] = pc[q]

\* They keep the marker as a lock.
LEMMA WorkingFlight ==
  ASSUME Shape, Flight, NEW o \in Operators, Working(o) PROVE Flight'
<1>1. plan[o] \in Plans /\ stage[plan[o]] \in Settled
  BY FlightPlan DEF Working, Flight, HoldsMarker, Markers, Shape, ChannelTypeOK, Settled
<1>2. Applied' = Applied
  BY DEF Working, Applied
<1>3. Markers'
  BY <1>1, <1>2 DEF Working, Flight, Markers, AdmitPlan
<1>4. ASSUME NEW q \in Operators PROVE HoldsMarker(q)' /\ (pc'[q] \in InFlight => pc[q] \in InFlight)
  BY DEF Working, Flight, HoldsMarker
<1> QED  BY <1>3, <1>4 DEF Flight, Working

\* While nobody was forced, only o's own knowledge is at stake.
LEMMA WorkingCalm ==
  ASSUME Shape, Flight, Calm, NEW o \in Operators, Working(o),
         /\ overridden = {} /\ stage[plan[o]] = "applying" /\ plan[o] \in Plans
         /\ Accounted(content) /\ Latest(content) /\ Knows(o)
         => Accounted(content)' /\ Latest(content)' /\ Knows(o)'
  PROVE  Calm'
<1> SUFFICES ASSUME overridden' = {} PROVE Calm'
  BY DEF Calm
<1>1. overridden = {}
  BY DEF Working
<1>2. stage[plan[o]] = "applying" /\ plan[o] \in Plans
  BY <1>1, FlightPlan DEF Working, Flight, HoldsMarker
<1>3. Accounted(content)' /\ Latest(content)' /\ Knows(o)'
  BY <1>1, <1>2 DEF Calm
<1>4. ASSUME NEW q \in Operators, q # o PROVE Knows(q)'
  <2>1. Landed(q)
    <3>1. pc[q] \in InFlight => plan[q] # plan[o]
      BY <1>4 DEF Flight, Working
    <3>2. \A r \in Plans : stage[r] = "applying" => r = plan[o]
      BY <1>2 DEF Flight, Markers
    <3> QED  BY <3>1, <3>2, <1>1, OthersLanded
  <2> QED  BY <2>1, <1>4, LandedKnows DEF Working
<1> QED  BY <1>3, <1>4 DEF Calm

-----------------------------------------------------------------------------
(* Steps that move the marker of an apply.                                 *)

Others(o) == \A q \in Operators \ {o} : pc'[q] = pc[q] /\ plan'[q] = plan[q]

\* staged -> applying.
LEMMA MarkApplying ==
  ASSUME Shape, Flight, Calm, NEW o \in Operators, NEW p \in Plans, pc[o] \notin InFlight,
         stage[p] = "staged", \A q \in Plans : stage[q] # "applying", AdmitPlan(p),
         Mark(p, "applying"), UNCHANGED <<env, history>>, Others(o),
         pc'[o] = "idle" \/ (pc'[o] = "snapshot" /\ plan'[o] = p)
  PROVE  Flight' /\ Calm'
<1>1. \A q \in Plans : stage'[q] = IF q = p THEN "applying" ELSE stage[q]
  BY DEF Mark, Shape, ChannelTypeOK
<1>2. UNCHANGED <<last, recovered, overridden, unrestored, content>>
      /\ recovered \subseteq Plans /\ unrestored \subseteq Plans /\ overridden \subseteq recovered
  BY DEF history, env, Shape, ChannelTypeOK
<1>3. Applied' = Applied
  BY <1>1 DEF Applied
<1>4. Markers'
  <2>1. AdmitPlan(p)'
    BY <1>3 DEF AdmitPlan
  <2> QED  BY <1>1, <1>2, <2>1 DEF Flight, Markers, Settled
<1>5. ASSUME NEW q \in Operators, q # o, pc[q] \in InFlight
      PROVE  plan[q] \in Plans /\ plan[q] # p
  BY <1>2, <1>5, FlightPlan DEF Flight, Markers, HoldsMarker
<1>6. Flight'
  <2>1. ASSUME NEW q \in Operators PROVE HoldsMarker(q)'
    <3>1. CASE q = o
      BY <3>1, <1>1 DEF HoldsMarker, InFlight
    <3>2. CASE q # o
      BY <3>2, <1>1, <1>2, <1>5 DEF HoldsMarker, Flight, Others
    <3> QED  BY <3>1, <3>2
  <2>2. \A r, q \in Operators :
          pc'[r] \in InFlight /\ pc'[q] \in InFlight /\ plan'[r] = plan'[q] => r = q
    BY <1>5 DEF Flight, Others, InFlight
  <2> QED  BY <1>4, <2>1, <2>2 DEF Flight
<1>7. Calm'
  <2> SUFFICES ASSUME overridden = {} PROVE Calm'
    BY <1>2 DEF Calm
  <2>1. Accounted(content) /\ Latest(content)
    BY DEF Calm
  <2>2. ~Holds(content, p)
    BY <2>1 DEF Accounted, Flight, Markers, Settled
  <2>3. Accounted(content)' /\ Latest(content)'
    BY <2>1, <2>2, <1>1, <1>2 DEF Accounted, Latest, Holds, Shape, ChannelTypeOK, Content
  <2>4. Knows(o)'
    BY <2>2, <1>2 DEF Knows, Holds
  <2>5. ASSUME NEW q \in Operators, q # o PROVE Knows(q)'
    <3>1. Landed(q)
      BY OthersLanded, <1>5, <2>5
    <3> QED  BY <3>1, <2>5, <1>1, <1>5, LandedKnows DEF Others
  <2> QED  BY <2>3, <2>4, <2>5 DEF Calm
<1> QED  BY <1>6, <1>7

\* applying -> applied, the command ending or its answer being lost.
LEMMA MarkApplied ==
  ASSUME Shape, Flight, Calm, NEW o \in Operators, NEW p \in Plans,
         pc[o] = "applied", plan[o] = p, stage[p] = "applying",
         Mark(p, "applied"), last' = p, UNCHANGED <<env, recovered, overridden, unrestored>>,
         Others(o), pc'[o] = "idle" \/ (pc'[o] = "applied" /\ plan'[o] = p)
  PROVE  Flight' /\ Calm'
<1>1. \A q \in Plans : stage'[q] = IF q = p THEN "applied" ELSE stage[q]
  BY DEF Mark, Shape, ChannelTypeOK
<1>2. UNCHANGED content /\ recovered \subseteq Plans /\ unrestored \subseteq Plans
      /\ overridden \subseteq recovered
  BY DEF env, Shape, ChannelTypeOK
<1>3. Markers'
  <2>1. \A q \in Plans : stage'[q] # "applying"
    BY <1>1 DEF Flight, Markers
  <2> QED  BY <1>1, <1>2, <2>1 DEF Flight, Markers, Settled
<1>4. ASSUME NEW q \in Operators, q # o, pc[q] \in InFlight
      PROVE  plan[q] \in Plans /\ plan[q] # p
  BY <1>4, FlightPlan DEF Flight, InFlight
<1>5. Flight'
  <2>1. ASSUME NEW q \in Operators PROVE HoldsMarker(q)'
    <3>1. CASE q = o
      BY <3>1, <1>1 DEF HoldsMarker, InFlight
    <3>2. CASE q # o
      BY <3>2, <1>1, <1>2, <1>4 DEF HoldsMarker, Flight, Others
    <3> QED  BY <3>1, <3>2
  <2>2. \A r, q \in Operators :
          pc'[r] \in InFlight /\ pc'[q] \in InFlight /\ plan'[r] = plan'[q] => r = q
    BY <1>4 DEF Flight, Others, InFlight
  <2> QED  BY <1>3, <2>1, <2>2 DEF Flight
<1>6. Calm'
  <2> SUFFICES ASSUME overridden = {} PROVE Calm'
    BY <1>2 DEF Calm
  <2>1. Accounted(content) /\ content.plan = p
    BY DEF Calm, Knows
  <2>2. Accounted(content)' /\ Latest(content)'
    BY <2>1, <1>1, <1>2 DEF Accounted, Latest, Holds
  <2>3. Knows(o)'
    BY <1>1 DEF Knows
  <2>4. ASSUME NEW q \in Operators, q # o PROVE Knows(q)'
    <3>1. \A r \in Plans : stage[r] = "applying" => r = p
      BY DEF Flight, Markers
    <3>2. Landed(q)
      BY <3>1, OthersLanded, <1>4, <2>4
    <3> QED  BY <3>2, <2>4, <1>1, <1>4, LandedKnows DEF Others
  <2> QED  BY <2>2, <2>3, <2>4 DEF Calm
<1> QED  BY <1>5, <1>6

\* applying -> failed, by the apply itself or by an operator's force: any
\* other apply of p is overridden, and what p left is accounted for.
LEMMA MarkFailed ==
  ASSUME Shape, Flight, Calm, NEW o \in Operators, NEW p \in Plans, stage[p] = "applying",
         Mark(p, "failed"), UNCHANGED <<env, last, unrestored>>, Others(o), pc'[o] = "idle",
         recovered \subseteq recovered', recovered' \subseteq recovered \cup {p},
         overridden \subseteq overridden',
         \A q \in Operators \ {o} : pc[q] \in InFlight /\ plan[q] = p => p \in overridden',
         overridden' = {} /\ Holds(content, p) => p \in recovered' \cup unrestored
  PROVE  Flight' /\ Calm'
<1>1. \A q \in Plans : stage'[q] = IF q = p THEN "failed" ELSE stage[q]
  BY DEF Mark, Shape, ChannelTypeOK
<1>2. UNCHANGED content /\ recovered \subseteq Plans /\ unrestored \subseteq Plans
  BY DEF env, Shape, ChannelTypeOK
<1>3. Markers'
  <2>1. \A q \in Plans : stage'[q] # "applying"
    BY <1>1 DEF Flight, Markers
  <2> QED  BY <1>1, <1>2, <2>1 DEF Flight, Markers, Settled
<1>4. Flight'
  <2>1. ASSUME NEW q \in Operators PROVE HoldsMarker(q)'
    <3>1. CASE q = o
      BY <3>1 DEF HoldsMarker, InFlight
    <3>2. CASE q # o
      BY <3>2, <1>1, FlightPlan DEF HoldsMarker, Flight, Others
    <3> QED  BY <3>1, <3>2
  <2>2. \A r, q \in Operators :
          pc'[r] \in InFlight /\ pc'[q] \in InFlight /\ plan'[r] = plan'[q] => r = q
    BY DEF Flight, Others, InFlight
  <2> QED  BY <1>3, <2>1, <2>2 DEF Flight
<1>5. Calm'
  <2> SUFFICES ASSUME overridden' = {} PROVE Calm'
    BY DEF Calm
  <2>1. overridden = {} /\ Accounted(content) /\ Latest(content)
    BY DEF Calm
  <2>2. Accounted(content)' /\ Latest(content)'
    BY <2>1, <1>1, <1>2 DEF Accounted, Latest, Holds, Shape, ChannelTypeOK, Content
  <2>3. Knows(o)'
    BY DEF Knows
  <2>4. ASSUME NEW q \in Operators, q # o PROVE Knows(q)'
    <3>1. \A r \in Plans : stage[r] = "applying" => r = p
      BY DEF Flight, Markers
    <3>2. pc[q] \in InFlight => plan[q] # p /\ plan[q] \in Plans
      BY <2>4, FlightPlan
    <3>3. Landed(q)
      BY <2>1, <3>1, <3>2, OthersLanded
    <3> QED  BY <3>3, <3>2, <2>4, <1>1, LandedKnows DEF Others
  <2> QED  BY <2>2, <2>3, <2>4 DEF Calm
<1> QED  BY <1>4, <1>5

-----------------------------------------------------------------------------
(* Every step is one of these.                                             *)

\* The command of o leaves or stays out of the apply, and no other moves.
StaysOut(o) ==
  /\ pc'[o] \notin InFlight
  /\ \A q \in Operators \ {o} : pc'[q] = pc[q] /\ plan'[q] = plan[q] /\ snap'[q] = snap[q]

\* A command that ends does.
LEMMA DoneStaysOut ==
  ASSUME Shape, NEW o \in Operators, NEW res, Done(o, res)
  PROVE  StaysOut(o) /\ Others(o) /\ pc'[o] = "idle"
BY DEF Done, StaysOut, Others, InFlight, Shape, ChannelTypeOK

\* And one that moves on to a step outside the apply.
LEMMA GotoStaysOut ==
  ASSUME Shape, NEW o \in Operators, NEW step, step \notin InFlight, Goto(o, step)
  PROVE  StaysOut(o)
BY DEF Goto, StaysOut, Shape, ChannelTypeOK

\* And one that starts.
LEMMA BeginStaysOut ==
  ASSUME Shape, NEW o \in Operators, NEW p, NEW step, step \notin InFlight, Begin(o, p, step)
  PROVE  StaysOut(o)
BY DEF Begin, StaysOut, Shape, ChannelTypeOK

\* With markers that only move before `applying`, such a step keeps the lock
\* and the knowledge.
LEMMA OutKeeps ==
  ASSUME Shape, Flight, Calm, NEW o \in Operators, StaysOut(o), UNCHANGED <<env, history>>,
         \/ stage' = stage
         \/ \E p \in Plans, to \in Stages \ Settled : Mark(p, to) /\ stage[p] \notin Settled
  PROVE  Flight' /\ Calm'
<1>1. \A p \in Plans : stage'[p] = stage[p] \/ (stage[p] \notin Settled /\ stage'[p] \notin Settled)
  BY DEF Mark, Shape, ChannelTypeOK
<1>2. Quiet
  BY <1>1 DEF Quiet, StaysOut, env
<1> QED  BY <1>2, QuietFlight, QuietCalm

\* The marker as a lock, and what an apply knows, are kept by every step.
LEMMA FlightCalmStep ==
  ASSUME Shape, Flight, Calm, [ChannelNext]_vars PROVE Flight' /\ Calm'
<1> USE DEF Settled
<1>0. CASE UNCHANGED vars
  BY <1>0, QuietFlight, QuietCalm DEF Quiet, vars, command
<1>1. CASE Edit
  <2>1. PICK n : n = edits + 1
    OBVIOUS
  <2>2. content' = [content EXCEPT !.edits = @ \cup {n}]
    BY <2>1, <1>1 DEF Edit
  <2>3. content'.plan = content.plan /\ content'.half = content.half
    BY <2>2 DEF Shape, ChannelTypeOK, Content
  <2> QED  BY <2>3, <1>1, QuietFlight, QuietCalm DEF Quiet, Edit, command
<1>2. ASSUME NEW o \in Operators, NEW p \in Plans,
             StartGet(o, p) \/ StartApply(o, p) \/ StartRecover(o, p)
      PROVE  Flight' /\ Calm'
  <2>1. StaysOut(o)
    BY <1>2, BeginStaysOut, DoneStaysOut DEF StartGet, StartApply, StartRecover, InFlight
  <2> QED  BY <2>1, <1>2, OutKeeps DEF StartGet, StartApply, StartRecover
<1>3. ASSUME NEW o \in Operators, Crash(o) PROVE Flight' /\ Calm'
  BY <1>3, DoneStaysOut, OutKeeps DEF Crash
<1>4. ASSUME NEW o \in Operators, ApplyVerb(o) PROVE Flight' /\ Calm'
  <2>1. Working(o)
    BY <1>4 DEF ApplyVerb, Working, command, history, InFlight
  <2>2. content'.plan = content.plan /\ content'.half = content.half \cup {plan[o]}
    BY <1>4 DEF ApplyVerb, Shape, ChannelTypeOK, Content
  <2>3. UNCHANGED <<stage, pc, plan, snap, last, recovered, unrestored>> /\ pc[o] = "apply"
    BY <1>4 DEF ApplyVerb, command, history
  <2>4. Calm'
    <3>1. Accounted(content) /\ stage[plan[o]] = "applying" => Accounted(content)'
      BY <2>2, <2>3 DEF Accounted, Holds
    <3>2. Latest(content) => Latest(content)'
      BY <2>2, <2>3 DEF Latest
    <3>3. Knows(o) => Knows(o)'
      BY <2>3 DEF Knows, Holds, Accounted, Latest
    <3> QED  BY <2>1, <3>1, <3>2, <3>3, WorkingCalm
  <2> QED  BY <2>1, <2>4, WorkingFlight
<1>5. ASSUME NEW o \in Operators, Step(o) PROVE Flight' /\ Calm'
  <2>p. pc[o] # "idle" => plan[o] \in Plans
    BY DEF Shape, CommandShape
  <2>1. CASE BeginChecked(o)
    BY <2>1, <2>p, GotoStaysOut, DoneStaysOut, OutKeeps DEF BeginChecked, InFlight, Stages
  <2>2. CASE Resume(o)
    BY <2>2, GotoStaysOut, DoneStaysOut, OutKeeps DEF Resume, InFlight
  <2>3. CASE Download(o)
    BY <2>3, GotoStaysOut, DoneStaysOut, OutKeeps DEF Download, InFlight
  <2>4. CASE DownloadFails(o)
    BY <2>4, DoneStaysOut, OutKeeps DEF DownloadFails
  <2>5. CASE AdvanceToStaged(o)
    BY <2>5, <2>p, GotoStaysOut, DoneStaysOut, OutKeeps DEF AdvanceToStaged, InFlight, NextStage, Stages
  <2>6. CASE ReverifyStaged(o) \/ ReverifyFails(o) \/ BeginApplyRejected(o)
    BY <2>6, GotoStaysOut, OutKeeps DEF ReverifyStaged, ReverifyFails, BeginApplyRejected, InFlight
  <2>7. CASE Reject(o)
    <3>1. StaysOut(o) /\ UNCHANGED <<env, history>>
      BY <2>7, DoneStaysOut DEF Reject
    <3>2. stage' = stage \/ (Mark(plan[o], "rejected") /\ stage[plan[o]] \notin Settled)
      BY <2>7 DEF Reject, Edge
    <3> QED  BY <3>1, <3>2, <2>7, <2>p, OutKeeps DEF Reject, Stages
  <2>8. CASE BeginApplyConflict(o) \/ TransitionReread(o)
    BY <2>8, DoneStaysOut, OutKeeps DEF BeginApplyConflict, TransitionReread
  <2>9. CASE BeginApply(o)
    <3>1. Others(o) /\ pc'[o] = "snapshot" /\ plan'[o] = plan[o]
      BY <2>9 DEF BeginApply, Goto, Others, Shape, ChannelTypeOK
    <3> QED  BY <3>1, <2>9, <2>p, MarkApplying DEF BeginApply, InFlight
  <2>10. CASE BeginApplyUnaudited(o)
    BY <2>10, <2>p, DoneStaysOut, MarkApplying DEF BeginApplyUnaudited, InFlight
  <2>11. CASE SnapshotEnvironment(o)
    <3>1. Working(o) /\ snap'[o] = content /\ content' = content /\ pc[o] = "snapshot" /\ pc'[o] = "apply"
          /\ plan'[o] = plan[o] /\ UNCHANGED <<stage, last, recovered, unrestored>>
      BY <2>11 DEF SnapshotEnvironment, Working, history, env, InFlight, Shape, ChannelTypeOK
    <3>2. Accounted(content) /\ Latest(content) /\ Knows(o)
          => Accounted(content)' /\ Latest(content)' /\ Knows(o)'
      BY <3>1 DEF Knows, Accounted, Latest, Holds
    <3> QED  BY <3>1, <3>2, WorkingFlight, WorkingCalm
  <2>12. CASE SnapshotFails(o)
    <3>1. Working(o) /\ content' = content /\ pc[o] = "snapshot" /\ pc'[o] = "fail"
          /\ plan'[o] = plan[o] /\ UNCHANGED <<stage, last, recovered, unrestored>>
      BY <2>12 DEF SnapshotFails, Goto, Working, history, env, InFlight, Shape, ChannelTypeOK
    <3>2. Accounted(content) /\ Latest(content) /\ Knows(o)
          => Accounted(content)' /\ Latest(content)' /\ Knows(o)'
      BY <3>1 DEF Knows, Accounted, Latest, Holds
    <3> QED  BY <3>1, <3>2, WorkingFlight, WorkingCalm
  <2>13. CASE ApplySucceeds(o)
    <3>1. Working(o) /\ pc'[o] = "applied"
          /\ plan'[o] = plan[o] /\ UNCHANGED <<stage, last, recovered, unrestored>>
      BY <2>13 DEF ApplySucceeds, Goto, Working, history, InFlight, Shape, ChannelTypeOK
    <3>2. content'.plan = plan[o] /\ content'.half \subseteq content.half
      BY <2>13 DEF ApplySucceeds, Shape, ChannelTypeOK, Content
    <3>3. Accounted(content) /\ stage[plan[o]] = "applying" => Accounted(content)'
      BY <3>1, <3>2 DEF Accounted, Holds
    <3>4. stage[plan[o]] = "applying" /\ plan[o] \in Plans => Latest(content)'
      BY <3>1, <3>2, ChannelAssumption DEF Latest
    <3>5. Knows(o)'
      BY <3>1, <3>2 DEF Knows
    <3> QED  BY <3>1, <3>3, <3>4, <3>5, WorkingFlight, WorkingCalm
  <2>14. CASE ApplyFails(o)
    <3>1. Working(o) /\ content' = content /\ pc[o] = "apply" /\ pc'[o] = "restore" /\ snap'[o] = snap[o]
          /\ plan'[o] = plan[o] /\ UNCHANGED <<stage, last, recovered, unrestored>>
      BY <2>14 DEF ApplyFails, Goto, Working, history, env, InFlight, Shape, ChannelTypeOK
    <3>2. Accounted(content) /\ Latest(content) /\ Knows(o)
          => Accounted(content)' /\ Latest(content)' /\ Knows(o)'
      BY <3>1 DEF Knows, Accounted, Latest, Holds
    <3> QED  BY <3>1, <3>2, WorkingFlight, WorkingCalm
  <2>15. CASE TransitionApplied(o)
    BY <2>15, <2>p, DoneStaysOut, MarkApplied DEF TransitionApplied
  <2>16. CASE TransitionAppliedFails(o)
    <3>1. CASE stage' = stage /\ last' = last
      BY <3>1, <2>16, QuietFlight, QuietCalm DEF TransitionAppliedFails, Quiet, env, history
    <3>2. CASE stage[plan[o]] = "applying" /\ Mark(plan[o], "applied") /\ last' = plan[o]
      BY <3>2, <2>16, <2>p, MarkApplied DEF TransitionAppliedFails, Others
    <3> QED  BY <3>1, <3>2, <2>16 DEF TransitionAppliedFails
  <2>17. CASE RestoreEnvironment(o)
    <3>1. Working(o) /\ content' = snap[o] /\ pc[o] = "restore" /\ pc'[o] = "fail"
          /\ plan'[o] = plan[o] /\ UNCHANGED <<stage, last, recovered, unrestored>>
      BY <2>17 DEF RestoreEnvironment, Goto, Working, history, InFlight, Shape, ChannelTypeOK
    <3>2. Knows(o) => Accounted(content)' /\ Latest(content)' /\ Knows(o)'
      BY <3>1 DEF Knows, Accounted, Latest, Holds
    <3> QED  BY <3>1, <3>2, WorkingFlight, WorkingCalm
  <2>18. CASE RestoreFails(o)
    <3>1. Working(o) /\ pc[o] = "restore" /\ pc'[o] = "fail"
          /\ plan'[o] = plan[o] /\ UNCHANGED <<stage, last, recovered>>
          /\ unrestored' = unrestored \cup {plan[o]}
      BY <2>18 DEF RestoreFails, Goto, Working, history, InFlight, Shape, ChannelTypeOK
    <3>2. Knows(o)'
      BY <3>1 DEF Knows
    <3>3. CASE content' = content
      <4>1. Accounted(content) /\ Latest(content) => Accounted(content)' /\ Latest(content)'
        BY <3>1, <3>3 DEF Accounted, Latest, Holds
      <4> QED  BY <3>1, <3>2, <4>1, WorkingFlight, WorkingCalm
    <3>4. CASE content' = [snap[o] EXCEPT !.half = @ \cup {plan[o]}]
      <4>1. content'.plan = snap[o].plan /\ content'.half = snap[o].half \cup {plan[o]}
        BY <3>1, <3>4 DEF Shape, CommandShape, Snapped, Content
      <4>2. Knows(o) => Accounted(content)' /\ Latest(content)'
        BY <3>1, <4>1 DEF Knows, Accounted, Latest, Holds
      <4> QED  BY <3>1, <3>2, <4>2, WorkingFlight, WorkingCalm
    <3> QED  BY <3>3, <3>4, <2>18 DEF RestoreFails
  <2>19. CASE Fail(o)
    <3>1. Others(o) /\ StaysOut(o) /\ pc'[o] = "idle" /\ pc[o] = "fail" /\ plan[o] \in Plans
          /\ UNCHANGED <<env, history>>
      BY <2>19, <2>p, DoneStaysOut DEF Fail
    <3>2. CASE stage' = stage
      BY <3>1, <3>2, OutKeeps
    <3>3. CASE stage[plan[o]] = "applying" /\ Mark(plan[o], "failed")
      <4>1. \A q \in Operators \ {o} : pc[q] \in InFlight => plan[q] # plan[o]
        BY <3>1 DEF Flight, InFlight
      <4>2. overridden = {} /\ Holds(content, plan[o]) => plan[o] \in unrestored
        BY <3>1 DEF Calm, Knows
      <4> QED  BY <3>1, <3>3, <4>1, <4>2, MarkFailed DEF history
    <3> QED  BY <3>2, <3>3, <2>19 DEF Fail, Edge
  <2>20. CASE Recover(o)
    <3>1. Others(o) /\ StaysOut(o) /\ pc'[o] = "idle" /\ pc[o] = "recover" /\ plan[o] \in Plans
          /\ UNCHANGED <<env, last, unrestored>>
      BY <2>20, <2>p, DoneStaysOut DEF Recover
    <3>2. CASE UNCHANGED <<stage, recovered, overridden>>
      BY <3>1, <3>2, OutKeeps DEF history
    <3>3. CASE /\ stage[plan[o]] = "applying" /\ Mark(plan[o], "failed")
               /\ recovered' = recovered \cup {plan[o]}
               /\ overridden' = IF Alive(plan[o]) THEN overridden \cup {plan[o]} ELSE overridden
      <4>1. \A q \in Operators \ {o} : pc[q] \in InFlight /\ plan[q] = plan[o] => plan[o] \in overridden'
        BY <3>3 DEF Alive
      <4> QED  BY <3>1, <3>3, <4>1, MarkFailed
    <3> QED  BY <3>2, <3>3, <2>20 DEF Recover
  <2> QED
    BY <1>5, <2>1, <2>2, <2>3, <2>4, <2>5, <2>6, <2>7, <2>8, <2>9, <2>10, <2>11, <2>12, <2>13,
       <2>14, <2>15, <2>16, <2>17, <2>18, <2>19, <2>20 DEF Step
<1> QED  BY <1>0, <1>1, <1>2, <1>3, <1>4, <1>5 DEF ChannelNext

\* No step loses an edit: the restore copies what it overwrites.
LEMMA EditsStep ==
  ASSUME Shape, EditsRecoverable, [ChannelNext]_vars PROVE EditsRecoverable'
<1> USE DEF EditsRecoverable
<1>0. CASE UNCHANGED env
  BY <1>0 DEF env
<1>1. CASE Edit
  <2>1. edits \in Nat /\ edits' = edits + 1 /\ backups' = backups
    BY <1>1 DEF Edit, Shape, ChannelTypeOK
  <2>2. content'.edits = content.edits \cup {edits'}
    <3>1. PICK n : n = edits'
      OBVIOUS
    <3>2. content' = [content EXCEPT !.edits = @ \cup {n}]
      BY <3>1, <1>1 DEF Edit
    <3> QED  BY <3>1, <3>2 DEF Shape, ChannelTypeOK, Content
  <2>3. 1 .. edits' = 1 .. edits \cup {edits'}
    BY <2>1
  <2> QED  BY <2>1, <2>2, <2>3
<1>2. ASSUME NEW o \in Operators, ApplyVerb(o) \/ ApplySucceeds(o) PROVE EditsRecoverable'
  <2>1. content'.edits = content.edits /\ UNCHANGED <<edits, backups>>
    BY <1>2 DEF ApplyVerb, ApplySucceeds, Shape, ChannelTypeOK, Content
  <2> QED  BY <2>1
<1>3. ASSUME NEW o \in Operators, RestoreEnvironment(o) \/ RestoreFails(o) PROVE EditsRecoverable'
  BY <1>3 DEF RestoreEnvironment, RestoreFails
<1>4. ASSUME NEW o \in Operators, Step(o), ~ApplySucceeds(o), ~RestoreEnvironment(o), ~RestoreFails(o)
      PROVE  UNCHANGED env
  BY <1>4 DEF Step, BeginChecked, Resume, Download, DownloadFails, AdvanceToStaged, ReverifyStaged,
     ReverifyFails, Reject, BeginApply, BeginApplyRejected, BeginApplyConflict, BeginApplyUnaudited,
     SnapshotEnvironment, SnapshotFails, ApplyFails, TransitionApplied, TransitionAppliedFails,
     TransitionReread, Fail, Recover
<1>5. ASSUME NEW o \in Operators, NEW p \in Plans,
             StartGet(o, p) \/ StartApply(o, p) \/ StartRecover(o, p)
      PROVE  UNCHANGED env
  BY <1>5 DEF StartGet, StartApply, StartRecover
<1>6. ASSUME NEW o \in Operators, Crash(o) PROVE UNCHANGED env
  BY <1>6 DEF Crash
<1>7. UNCHANGED vars => UNCHANGED env
  BY DEF vars, env
<1> QED  BY <1>0, <1>1, <1>2, <1>3, <1>4, <1>5, <1>6, <1>7 DEF ChannelNext

\* The invariant holds when nothing was admitted yet.
LEMMA InitChannelInv == ChannelInit => ChannelInv
<1> SUFFICES ASSUME ChannelInit PROVE ChannelInv
  OBVIOUS
<1> USE ChannelAssumption DEF ChannelInit
<1>1. Shape
  BY DEF Shape, ChannelTypeOK, CommandShape, Stages, Content, Steps, Snapped
<1>2. Flight
  BY DEF Flight, Markers, HoldsMarker, InFlight
<1>3. Calm
  BY DEF Calm, Accounted, Latest, Knows, Holds
<1>4. EditsRecoverable
  BY DEF EditsRecoverable
<1> QED  BY <1>1, <1>2, <1>3, <1>4 DEF ChannelInv

\* The inductive invariant: whatever the commands, edits, faults, crashes and
\* forced markers, the marker is a lock, and while nobody was forced each
\* apply's snapshot and environment are accounted for.
THEOREM ChannelInvariant == ChannelSpec => []ChannelInv
<1>1. ChannelInv /\ [ChannelNext]_vars => ChannelInv'
  BY ShapeStep, FlightCalmStep, EditsStep DEF ChannelInv
<1> QED  BY <1>1, InitChannelInv, PTL DEF ChannelSpec

\* Two applies that change the environment would both hold the one
\* `applying` marker, unless one was forced; a failed plan holds nothing of
\* the environment, and its plan is the one applied last.
LEMMA InvSound == ChannelInv => ChannelSound
<1> SUFFICES ASSUME ChannelInv PROVE ChannelSound
  OBVIOUS
<1>1. ChannelTypeOK /\ EditsRecoverable
  BY DEF ChannelInv, Shape
<1>2. SingleFlight
  <2> SUFFICES ASSUME NEW o \in Operators, NEW q \in Operators, pc[o] \in Changing, pc[q] \in Changing,
                      plan[o] \notin overridden, plan[q] \notin overridden
               PROVE  o = q
    BY DEF SingleFlight
  <2>1. pc[o] \in InFlight /\ pc[q] \in InFlight /\ pc[o] # "applied" /\ pc[q] # "applied"
    BY DEF Changing, InFlight
  <2>2. stage[plan[o]] = "applying" /\ stage[plan[q]] = "applying"
    BY <2>1 DEF ChannelInv, Flight, HoldsMarker
  <2>3. plan[o] = plan[q]
    BY <2>1, <2>2, FlightPlan DEF ChannelInv, Flight, Markers
  <2> QED  BY <2>1, <2>3 DEF ChannelInv, Flight
<1>3. FailedLeavesNothing
  BY DEF FailedLeavesNothing, ChannelInv, Calm, Accounted, Holds
<1>4. AppliedIsContent
  BY DEF AppliedIsContent, ChannelInv, Calm, Latest
<1> QED  BY <1>1, <1>2, <1>3, <1>4 DEF ChannelSound

\* Markers, environment and backups agree in every reachable state, for any
\* number of operators, plans, edits and faults (updates.rs, snapshot.rs).
THEOREM ChannelSafe == ChannelSpec => []ChannelSound
BY ChannelInvariant, InvSound, PTL

\* Only a plan that is `applying` becomes applied.
LEMMA OnlyApplying ==
  ASSUME Shape, [ChannelNext]_vars, NEW p \in Plans, stage[p] # "applied", stage'[p] = "applied"
  PROVE  stage[p] = "applying"
<1>1. ASSUME NEW q \in Plans, NEW to \in Stages, Mark(q, to)
      PROVE  p = q /\ to = "applied"
  BY <1>1 DEF Mark, Shape, ChannelTypeOK
<1>2. stage' # stage
  OBVIOUS
<1>3. ASSUME NEW o \in Operators, pc[o] # "idle" PROVE plan[o] \in Plans
  BY <1>3 DEF Shape, CommandShape
<1>4. PICK o \in Operators : Step(o)
  BY <1>2 DEF ChannelNext, vars, Edit, ApplyVerb, Crash, StartGet, StartApply, StartRecover
<1>5. CASE TransitionApplied(o) \/ TransitionAppliedFails(o)
  BY <1>1, <1>2, <1>3, <1>5 DEF TransitionApplied, TransitionAppliedFails, Stages
<1>6. CASE BeginChecked(o) \/ AdvanceToStaged(o) \/ Reject(o)
  BY <1>1, <1>2, <1>3, <1>6 DEF BeginChecked, AdvanceToStaged, Reject, NextStage, Stages
<1>7. CASE BeginApply(o) \/ BeginApplyUnaudited(o) \/ Fail(o) \/ Recover(o)
  BY <1>1, <1>2, <1>3, <1>7 DEF BeginApply, BeginApplyUnaudited, Fail, Recover, Stages
<1> QED
  BY <1>2, <1>4, <1>5, <1>6, <1>7 DEF Step, Resume, Download, DownloadFails, ReverifyStaged,
     ReverifyFails, BeginApplyRejected, BeginApplyConflict, SnapshotEnvironment, SnapshotFails,
     ApplySucceeds, ApplyFails, TransitionReread, RestoreEnvironment, RestoreFails

\* A plan that becomes applied still passes the gates that begin_apply_checked
\* ran: nothing else was applied while it was `applying`.
THEOREM AppliedKeepsOrder == ChannelSpec => AppliedInOrder
<1>1. ChannelInv /\ [ChannelNext]_vars =>
        [\A p \in Plans :
           stage[p] # "applied" /\ stage'[p] = "applied" =>
             /\ \A q \in Applied : Chan[q] = Chan[p] => Seq[p] > Seq[q]
             /\ Requires[p] \subseteq Applied]_stage
  BY OnlyApplying DEF ChannelInv, Flight, Markers, AdmitPlan
<1> QED  BY <1>1, ChannelInvariant, PTL DEF ChannelSpec, AppliedInOrder

-----------------------------------------------------------------------------
(* Settling.  That a plan leaves `applying` is liveness and stays with     *)
(* TLC; here is what it rests on.                                          *)

\* The calls an apply still makes, beside the verbs of its manifest, at most.
Left(step, n) ==
  CASE step = "snapshot" -> 7
    [] step = "apply" -> 6
    [] step = "restore" -> 5
    [] step = "fail" -> 4
    [] step = "applied" -> 3 - n

Unmoved(o) == pc'[o] = pc[o] /\ plan'[o] = plan[o] /\ tries'[o] = tries[o]

\* An apply is over, stays where it is, or is nearer its end with its plan.
Proceeds(o) ==
  \/ pc'[o] \notin InFlight
  \/ Unmoved(o)
  \/ plan'[o] = plan[o] /\ Left(pc'[o], tries'[o]) < Left(pc[o], tries[o])

\* What a command does to itself.
LEMMA OwnMoves ==
  ASSUME Shape, NEW o \in Operators,
         \/ Step(o) \/ ApplyVerb(o) \/ Crash(o)
         \/ \E p \in Plans : StartGet(o, p) \/ StartApply(o, p) \/ StartRecover(o, p)
  PROVE  \/ pc'[o] \notin InFlight
         \/ pc[o] \in InFlight /\ plan'[o] = plan[o] /\ Proceeds(o)
         \/ /\ pc[o] \notin InFlight /\ plan'[o] = plan[o] /\ stage[plan[o]] = "staged"
<1>1. /\ pc \in [Operators -> Steps] /\ plan \in [Operators -> Plans \cup {None}]
      /\ tries \in [Operators -> 0 .. 2]
  BY DEF Shape, ChannelTypeOK
<1>2. ASSUME NEW res, Done(o, res) PROVE pc'[o] \notin InFlight
  BY <1>1, <1>2 DEF Done, InFlight
<1>3. ASSUME NEW step \in Steps \ InFlight, Goto(o, step) PROVE pc'[o] \notin InFlight
  BY <1>1, <1>3 DEF Goto
<1>4. ASSUME NEW step \in Steps \ InFlight, NEW p \in Plans, Begin(o, p, step) PROVE pc'[o] \notin InFlight
  BY <1>1, <1>4 DEF Begin
<1>5. ASSUME NEW from \in InFlight, NEW to \in InFlight, pc[o] = from,
             pc' = [pc EXCEPT ![o] = to], plan' = plan, tries' = tries,
             Left(to, tries[o]) < Left(from, tries[o])
      PROVE  pc[o] \in InFlight /\ plan'[o] = plan[o] /\ Proceeds(o)
  BY <1>1, <1>5 DEF Proceeds
<1>6. /\ tries[o] \in 0 .. 2
      /\ {"idle", "admit_or_resume", "download", "advance", "reverify", "reject", "begin", "recover"}
           = Steps \ InFlight
  BY <1>1 DEF Steps, InFlight
<1>7. CASE BeginApply(o)
  BY <1>1, <1>7 DEF BeginApply, Goto, InFlight
<1>8. CASE SnapshotEnvironment(o)
  <2>1. Left("apply", tries[o]) < Left("snapshot", tries[o])
    BY DEF Left
  <2> QED  BY <1>5, <1>8, <2>1 DEF SnapshotEnvironment, InFlight
<1>9. CASE SnapshotFails(o)
  <2>1. Left("fail", tries[o]) < Left("snapshot", tries[o])
    BY DEF Left
  <2> QED  BY <1>5, <1>9, <2>1 DEF SnapshotFails, Goto, InFlight
<1>10. CASE ApplySucceeds(o)
  <2>1. Left("applied", tries[o]) < Left("apply", tries[o])
    BY <1>6 DEF Left
  <2> QED  BY <1>5, <1>10, <2>1 DEF ApplySucceeds, Goto, InFlight
<1>11. CASE ApplyFails(o)
  <2>1. Left("restore", tries[o]) < Left("apply", tries[o])
    BY DEF Left
  <2> QED  BY <1>5, <1>11, <2>1 DEF ApplyFails, Goto, InFlight
<1>12. CASE RestoreEnvironment(o) \/ RestoreFails(o)
  <2>1. Left("fail", tries[o]) < Left("restore", tries[o])
    BY DEF Left
  <2> QED  BY <1>5, <1>12, <2>1 DEF RestoreEnvironment, RestoreFails, Goto, InFlight
<1>13. CASE TransitionAppliedFails(o)
  <2>1. /\ pc[o] = "applied" /\ pc'[o] = "applied" /\ plan'[o] = plan[o]
        /\ tries'[o] = tries[o] + 1
    BY <1>1, <1>13 DEF TransitionAppliedFails
  <2>2. Left("applied", tries[o] + 1) < Left("applied", tries[o])
    BY <1>6 DEF Left
  <2> QED  BY <2>1, <2>2 DEF Proceeds, InFlight
<1>14. CASE ApplyVerb(o)
  BY <1>14 DEF ApplyVerb, command, Proceeds, Unmoved, InFlight
<1>15. CASE \/ BeginChecked(o) \/ Resume(o) \/ Download(o) \/ DownloadFails(o) \/ AdvanceToStaged(o)
            \/ ReverifyStaged(o) \/ ReverifyFails(o) \/ Reject(o) \/ BeginApplyRejected(o)
            \/ BeginApplyConflict(o) \/ BeginApplyUnaudited(o) \/ TransitionApplied(o)
            \/ TransitionReread(o) \/ Fail(o) \/ Recover(o) \/ Crash(o)
  <2>1. \/ \E res : Done(o, res)
        \/ \E step \in Steps \ InFlight : Goto(o, step)
    BY <1>6, <1>15
    DEF BeginChecked, Resume, Download, DownloadFails, AdvanceToStaged, ReverifyStaged, ReverifyFails,
        Reject, BeginApplyRejected, BeginApplyConflict, BeginApplyUnaudited, TransitionApplied,
        TransitionReread, Fail, Recover, Crash
  <2> QED  BY <1>2, <1>3, <2>1
<1>16. CASE \E p \in Plans : StartGet(o, p) \/ StartApply(o, p) \/ StartRecover(o, p)
  <2>1. \/ \E res : Done(o, res)
        \/ \E p \in Plans, step \in Steps \ InFlight : Begin(o, p, step)
    BY <1>6, <1>16 DEF StartGet, StartApply, StartRecover
  <2> QED  BY <1>2, <1>4, <2>1
<1> QED
  BY <1>7, <1>8, <1>9, <1>10, <1>11, <1>12, <1>13, <1>14, <1>15, <1>16 DEF Step

\* A command does nothing to another.
LEMMA OthersUnmoved ==
  ASSUME Shape, NEW o \in Operators, NEW q \in Operators, o # q,
         \/ Step(o) \/ ApplyVerb(o) \/ Crash(o)
         \/ \E p \in Plans : StartGet(o, p) \/ StartApply(o, p) \/ StartRecover(o, p)
  PROVE  Unmoved(q)
<1>1. /\ pc \in [Operators -> Steps] /\ plan \in [Operators -> Plans \cup {None}]
      /\ tries \in [Operators -> 0 .. 2]
  BY DEF Shape, ChannelTypeOK
<1>2. \/ \E res : Done(o, res)
      \/ \E step : Goto(o, step)
      \/ \E p, step : Begin(o, p, step)
      \/ UNCHANGED command
      \/ SnapshotEnvironment(o)
      \/ TransitionAppliedFails(o)
  BY DEF Step, ApplyVerb, Crash, StartGet, StartApply, StartRecover, BeginChecked, Resume, Download,
         DownloadFails, AdvanceToStaged, ReverifyStaged, ReverifyFails, Reject, BeginApply,
         BeginApplyRejected, BeginApplyConflict, BeginApplyUnaudited, SnapshotFails, ApplySucceeds,
         ApplyFails, TransitionApplied, TransitionReread, RestoreEnvironment, RestoreFails, Fail, Recover
<1>3. \/ UNCHANGED <<pc, plan, tries>>
      \/ /\ \E a : pc' = [pc EXCEPT ![o] = a]
         /\ (\E b : plan' = [plan EXCEPT ![o] = b]) \/ UNCHANGED plan
         /\ (\E c : tries' = [tries EXCEPT ![o] = c]) \/ UNCHANGED tries
      \/ UNCHANGED <<pc, plan>> /\ tries' = [tries EXCEPT ![o] = @ + 1]
  BY <1>2 DEF Done, Goto, Begin, command, SnapshotEnvironment, TransitionAppliedFails
<1> QED  BY <1>1, <1>3 DEF Unmoved

\* While a plan is in `applying`, nobody takes it up who is not applying it
\* already, and its apply comes nearer its end with every call: at most seven
\* beside the verbs of its manifest until it has settled the marker or is
\* gone, after which only `op updates recover` can.
THEOREM ApplyingAdvances ==
  ChannelSpec => [][\A p \in Plans : stage[p] = "applying" =>
                      /\ Alive(p)' => Alive(p)
                      /\ \A o \in Operators : plan[o] = p /\ pc[o] \in InFlight => Proceeds(o)]_vars
<1> DEFINE A == \A p \in Plans : stage[p] = "applying" =>
                  /\ Alive(p)' => Alive(p)
                  /\ \A o \in Operators : plan[o] = p /\ pc[o] \in InFlight => Proceeds(o)
<1>1. ASSUME Shape, [ChannelNext]_vars  PROVE [A]_vars
  <2> SUFFICES ASSUME ChannelNext, NEW p \in Plans, stage[p] = "applying"
               PROVE  /\ Alive(p)' => Alive(p)
                      /\ \A o \in Operators : plan[o] = p /\ pc[o] \in InFlight => Proceeds(o)
    BY <1>1
  <2>1. ASSUME NEW o \in Operators
        PROVE  \/ Unmoved(o)
               \/ pc'[o] \notin InFlight
               \/ pc[o] \in InFlight /\ plan'[o] = plan[o] /\ Proceeds(o)
               \/ pc[o] \notin InFlight /\ plan'[o] = plan[o] /\ stage[plan[o]] = "staged"
    <3>1. CASE Edit
      BY <3>1 DEF Edit, command, Unmoved
    <3>2. ASSUME NEW q \in Operators,
                 \/ Step(q) \/ ApplyVerb(q) \/ Crash(q)
                 \/ \E r \in Plans : StartGet(q, r) \/ StartApply(q, r) \/ StartRecover(q, r)
          PROVE  \/ Unmoved(o)
                 \/ pc'[o] \notin InFlight
                 \/ pc[o] \in InFlight /\ plan'[o] = plan[o] /\ Proceeds(o)
                 \/ pc[o] \notin InFlight /\ plan'[o] = plan[o] /\ stage[plan[o]] = "staged"
      <4>1. CASE q = o
        BY <1>1, <3>2, <4>1, OwnMoves
      <4>2. CASE q # o
        BY <1>1, <3>2, <4>2, OthersUnmoved
      <4> QED  BY <4>1, <4>2
    <3> QED  BY <3>1, <3>2 DEF ChannelNext
  <2>2. Alive(p)' => Alive(p)
    BY <2>1 DEF Alive, Unmoved
  <2>3. ASSUME NEW o \in Operators, plan[o] = p, pc[o] \in InFlight PROVE Proceeds(o)
    BY <2>1, <2>3 DEF Proceeds
  <2> QED  BY <2>2, <2>3
<1>2. ChannelInv => Shape
  BY DEF ChannelInv
<1> QED  BY <1>1, <1>2, ChannelInvariant, PTL DEF ChannelSpec
=============================================================================
