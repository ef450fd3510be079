---------------------------- MODULE CommandProofs ----------------------------
(***************************************************************************)
(* Proofs about the two commands that write to an environment from what    *)
(* they read of it before: `op env apply` (EnvApply) and `op deploy`       *)
(* (RemoteDeploy).                                                         *)
(*                                                                         *)
(* An apply works from a document and a ledger it read before; ids are     *)
(* never minted twice, so that what it read can only lose deployments,     *)
(* never confuse them (Sees).  Between applies that do not run side by     *)
(* side the ledger covers what the last apply of every manifest declared   *)
(* (Covered).                                                              *)
(*                                                                         *)
(* A deploy works from an ETag.  An ETag names the generation of the split *)
(* it was taken at; once a key cut over, every ETag that a request or a    *)
(* stored response of the key still carries is older than the split        *)
(* (SentAt, ReplyAt).                                                      *)
(***************************************************************************)
EXTENDS EnvApply, RemoteDeploy, SequenceTheorems, TLAPS

Ids == 1 .. ids

Run == [pc : {"idle", "execute", "load", "record", "plan", "ledger", "retire", "reload", "rerecord"},
        m : Manifests \cup {None}, want : SUBSET Bundles, plan : SUBSET Bundles, prune : BOOLEAN,
        env : SUBSET Nat, declared : SUBSET Nat, retire : SUBSET Nat]

\* Ids are distinct, and everything ranges over ids that were minted.
Minted ==
  /\ ids \in Nat
  /\ dep \in [Bundles -> 0 .. ids]
  /\ \A b, c \in Bundles : b # c /\ dep[b] # 0 => dep[b] # dep[c]
  /\ owners \in [Manifests -> SUBSET Ids]
  /\ ever \in [Manifests -> SUBSET Ids]
  /\ last \in [Manifests -> SUBSET Ids]
  /\ decl \in [Manifests -> SUBSET Bundles]

\* The ledger names only what its manifest declared at some time.
Ledger == \A m \in Manifests : owners[m] \subseteq ever[m]

\* It names everything that exists of what the last apply declared.
Covered == \A m \in Manifests : last[m] \cap Live \subseteq owners[m]

Running(w) == w.pc # "idle"

\* What a run works with.
RunOK(w) ==
  /\ Running(w) => w.m \in Manifests
  /\ ~Running(w) => w = Idle
  /\ w.plan \subseteq w.want
  /\ w.env \cup w.retire \subseteq Ids
  /\ w.declared \subseteq w.env
  /\ w.pc # "retire" => w.retire = {}

\* No bundle that a run declares has an id among those the run may retire.
Sees(w) ==
  /\ w.pc = "ledger" => \A b \in w.want : dep[b] \in w.env => dep[b] \in w.declared
  /\ w.pc = "retire" => w.retire \subseteq ever[w.m] /\ \A b \in w.want : dep[b] \notin w.retire

\* The run about to write the ledger has seen everything in it that exists.
SeesLedger(w) ==
  w.pc \in {"record", "rerecord"} =>
    \A m \in Manifests : (owners[m] \cup last[m]) \cap Live \subseteq w.env

\* A run about to retire spares what the last applies of others declared.
Spares(w) ==
  w.pc = "retire" => \A m \in Manifests \ {w.m} : w.retire \cap Live \cap last[m] = {}

\* As long as no two applies ran side by side.
Uncrossed ==
  /\ \A a, c \in Appliers : Running(work[a]) /\ Running(work[c]) => a = c
  /\ Covered
  /\ \A a \in Appliers : SeesLedger(work[a]) /\ Spares(work[a])

ApplyInv ==
  /\ Minted /\ Ledger
  /\ work \in [Appliers -> Run]
  /\ \A a \in Appliers : RunOK(work[a]) /\ Sees(work[a])
  /\ ~crossed => Uncrossed

-----------------------------------------------------------------------------
(* What stays true of a run while the rest of the system moves.            *)

\* A run that has ended.
LEMMA IdleRun == Idle \in Run /\ ~Running(Idle) /\ Idle.retire = {} /\ Idle.plan = {}
BY DEF Idle, Run, Running, None

\* Deployments go, and new ones come with ids that were never seen before.
DepMoves ==
  /\ ids' \in Nat /\ ids <= ids' /\ dep' \in [Bundles -> 0 .. ids']
  /\ \A b \in Bundles : dep'[b] = dep[b] \/ dep'[b] = 0 \/ dep'[b] > ids
  /\ \A b, c \in Bundles : b # c /\ dep'[b] # 0 => dep'[b] # dep'[c]

\* What was read of the document, and the ledger, stay true of the ids known.
LEMMA MovesKeep ==
  ASSUME Minted, DepMoves, UNCHANGED <<owners, ever, last, decl>>
  PROVE  /\ Minted'
         /\ Ledger => Ledger'
         /\ Covered => Covered'
         /\ \A w \in Run : RunOK(w) /\ Sees(w) => RunOK(w)' /\ Sees(w)'
         /\ \A w \in Run : RunOK(w) /\ SeesLedger(w) => SeesLedger(w)'
         /\ \A w \in Run : RunOK(w) /\ Spares(w) => Spares(w)'
<1>1. Minted'
  BY DEF Minted, DepMoves, Ids
<1>2. Live' \cap Ids \subseteq Live /\ Ids \subseteq Ids'
  BY DEF Minted, DepMoves, Live, Ids
<1>3. (Ledger => Ledger') /\ (Covered => Covered')
  BY <1>2 DEF Ledger, Covered, Minted
<1>4. ASSUME NEW w \in Run, RunOK(w), Sees(w) PROVE RunOK(w)' /\ Sees(w)'
  <2>1. RunOK(w)'
    BY <1>2, <1>4 DEF RunOK, Running
  <2>2. ASSUME NEW b \in w.want, NEW S, S \subseteq Ids, dep'[b] \in S PROVE dep[b] \in S /\ dep'[b] = dep[b]
    BY <2>2 DEF Run, DepMoves, Minted, Ids
  <2>3. Sees(w)'
    BY <2>2, <1>4 DEF Sees, RunOK
  <2> QED  BY <2>1, <2>3
<1>5. ASSUME NEW w \in Run, RunOK(w), SeesLedger(w) PROVE SeesLedger(w)'
  BY <1>2, <1>5 DEF SeesLedger, Minted
<1>6. ASSUME NEW w \in Run, RunOK(w), Spares(w) PROVE Spares(w)'
  BY <1>2, <1>6 DEF Spares, Minted
<1> QED  BY <1>1, <1>3, <1>4, <1>5, <1>6

\* A bundle that is not deployed is added, or a deployment goes.
LEMMA AddMoves ==
  ASSUME Minted, NEW b \in Bundles,
         (dep[b] = 0 /\ AddBundle(b)) \/ (dep' = [dep EXCEPT ![b] = 0] /\ UNCHANGED ids)
  PROVE  DepMoves
BY DEF Minted, AddBundle, DepMoves

\* A step of one run is enough to look at.
LEMMA OneRun ==
  ASSUME ApplyInv, NEW a \in Appliers, NEW v \in Run, Set(a, v),
         Minted', Ledger',
         \A w \in Run : RunOK(w) /\ Sees(w) => RunOK(w)' /\ Sees(w)',
         RunOK(v)', Sees(v)',
         ~crossed' => \A c \in Appliers : c # a => ~Running(work[c]),
         ~crossed' => Covered' /\ SeesLedger(v)' /\ Spares(v)'
  PROVE  ApplyInv'
<1>1. work' \in [Appliers -> Run]
      /\ \A c \in Appliers : work'[c] = IF c = a THEN v ELSE work[c]
  BY DEF ApplyInv, Set
<1>2. ASSUME NEW c \in Appliers, NEW u \in Run, u = work'[c]
      PROVE  /\ RunOK(u)' /\ Sees(u)'
             /\ ~crossed' => SeesLedger(u)' /\ Spares(u)'
  <2>1. CASE c = a
    BY <1>1, <1>2, <2>1
  <2>2. CASE c # a
    <3>1. u = work[c] /\ RunOK(u) /\ Sees(u)
      BY <1>1, <1>2, <2>2 DEF ApplyInv
    <3>2. RunOK(u)' /\ Sees(u)'
      BY <3>1
    <3>3. ASSUME ~crossed' PROVE SeesLedger(u)' /\ Spares(u)'
      <4>1. u.pc = "idle"
        BY <2>2, <3>1, <3>3 DEF Running
      <4> QED  BY <4>1 DEF SeesLedger, Spares
    <3> QED  BY <3>2, <3>3
  <2> QED  BY <2>1, <2>2
<1>3. \A c \in Appliers : RunOK(work[c])' /\ Sees(work[c])'
  BY <1>1, <1>2 DEF RunOK, Sees, Running
<1>4. ASSUME ~crossed' PROVE Uncrossed'
  <2>1. \A c \in Appliers : SeesLedger(work[c])' /\ Spares(work[c])'
    BY <1>1, <1>2, <1>4 DEF SeesLedger, Spares
  <2>2. \A c, d \in Appliers : Running(work'[c]) /\ Running(work'[d]) => c = d
    BY <1>1, <1>4
  <2> QED  BY <1>4, <2>1, <2>2 DEF Uncrossed, Running
<1> QED  BY <1>1, <1>3, <1>4 DEF ApplyInv

\* A step of a running apply, alone if no two ever ran side by side, that
\* leaves the ledger alone.
LEMMA RunStep ==
  ASSUME ApplyInv, NEW a \in Appliers, NEW v \in Run, Set(a, v), DepMoves,
         UNCHANGED <<owners, ever, last, decl, crossed>>, Running(work[a]),
         RunOK(v)', Sees(v)', ~crossed => SeesLedger(v)' /\ Spares(v)'
  PROVE  ApplyInv'
<1>1. /\ Minted' /\ Ledger'
      /\ \A w \in Run : RunOK(w) /\ Sees(w) => RunOK(w)' /\ Sees(w)'
      /\ Covered => Covered'
  BY MovesKeep DEF ApplyInv
<1>2. ~crossed' => Covered' /\ \A c \in Appliers : c # a => ~Running(work[c])
  BY <1>1 DEF ApplyInv, Uncrossed
<1> QED  BY <1>1, <1>2, OneRun

\* The document is left alone.
LEMMA StayMoves ==
  ASSUME Minted, UNCHANGED <<dep, ids>>
  PROVE  DepMoves /\ Live' = Live
BY DEF Minted, DepMoves, Live

\* A run that ends knows nothing that could be wrong.
LEMMA EndRun ==
  /\ RunOK(Idle)' /\ Sees(Idle)' /\ SeesLedger(Idle)' /\ Spares(Idle)'
BY DEF Idle, RunOK, Running, Sees, SeesLedger, Spares

\* An apply starts, alone or not.
LEMMA StartStep ==
  ASSUME ApplyInv, NEW a \in Appliers, NEW m \in Manifests, NEW prune \in BOOLEAN,
         Start(a, m, prune)
  PROVE  ApplyInv'
<1>0. Minted /\ Ledger /\ UNCHANGED <<dep, ids, owners, decl, ever, last>>
  BY DEF ApplyInv, Start
<1>1. PICK v : v = [Idle EXCEPT !.pc = "execute", !.m = m, !.want = decl[m], !.prune = prune,
                                !.plan = {b \in decl[m] : dep[b] = 0}]
  OBVIOUS
<1>2. Set(a, v) /\ (crossed' = (crossed \/ \E c \in Appliers : work[c] # Idle))
  BY <1>1 DEF Start
<1>3. v = [pc |-> "execute", m |-> m, want |-> decl[m], plan |-> {b \in decl[m] : dep[b] = 0},
           prune |-> prune, env |-> {}, declared |-> {}, retire |-> {}]
  BY <1>1 DEF Idle
<1>4. v \in Run /\ v.pc = "execute" /\ v.m = m /\ v.plan \subseteq v.want
      /\ v.env = {} /\ v.retire = {} /\ v.declared = {}
  BY <1>0, <1>3 DEF Run, Minted
<1>5. RunOK(v)' /\ Sees(v)' /\ SeesLedger(v)' /\ Spares(v)'
  BY <1>4 DEF RunOK, Running, Sees, SeesLedger, Spares
<1>6. /\ Minted' /\ Ledger'
      /\ \A w \in Run : RunOK(w) /\ Sees(w) => RunOK(w)' /\ Sees(w)'
      /\ Covered => Covered'
  BY <1>0, StayMoves, MovesKeep
<1>7. ~crossed' => Covered' /\ \A c \in Appliers : c # a => ~Running(work[c])
  BY <1>2, <1>6, IdleRun DEF ApplyInv, Uncrossed
<1> QED  BY <1>2, <1>4, <1>5, <1>6, <1>7, OneRun

\* The upsert half, the reads and an abort.
LEMMA UpsertStep ==
  ASSUME ApplyInv, NEW a \in Appliers,
         \/ \E b \in Bundles : Execute(a, b)
         \/ Verify(a) \/ LoadApplied(a) \/ PlanEnv(a) \/ Abort(a)
  PROVE  ApplyInv'
<1>0. Minted
  BY DEF ApplyInv
<1>1. PICK w \in Run : w = work[a] /\ RunOK(w) /\ Sees(w)
  BY DEF ApplyInv
<1>2. ASSUME Set(a, Idle), Running(w), UNCHANGED <<dep, ids, owners, ever, last, decl, crossed>>
      PROVE  ApplyInv'
  BY <1>0, <1>1, <1>2, IdleRun, EndRun, StayMoves, RunStep
<1>3. ASSUME NEW b \in Bundles, Execute(a, b) PROVE ApplyInv'
  <2>1. PICK v : v = [w EXCEPT !.plan = @ \ {b}]
    OBVIOUS
  <2>2. v \in Run /\ v.pc = "execute" /\ v.m = w.m /\ v.plan \subseteq v.want
        /\ v.env = w.env /\ v.declared = w.declared /\ v.retire = w.retire
    BY <1>1, <1>3, <2>1 DEF Execute, RunOK, Run
  <2>3. DepMoves
    BY <1>0, <1>3, AddMoves, StayMoves DEF Execute
  <2>4. UNCHANGED <<owners, ever, last, decl, crossed>> /\ Set(a, v) /\ Running(w)
        /\ w.pc = "execute"
    BY <1>1, <1>3, <2>1 DEF Execute, history, Running
  <2>5. RunOK(w)'
    BY <1>0, <1>1, <2>3, <2>4, MovesKeep
  <2>6. RunOK(v)' /\ Sees(v)' /\ SeesLedger(v)' /\ Spares(v)'
    BY <2>2, <2>4, <2>5 DEF RunOK, Running, Sees, SeesLedger, Spares
  <2> QED  BY <1>1, <2>2, <2>3, <2>4, <2>6, RunStep
<1>4. CASE Verify(a)
  <2>1. CASE Set(a, Idle)
    BY <1>1, <1>2, <1>4, <2>1 DEF Verify, history, Running
  <2>2. CASE Set(a, [w EXCEPT !.pc = "load"])
    <3>1. PICK v : v = [w EXCEPT !.pc = "load"]
      OBVIOUS
    <3>2. v \in Run /\ v.pc = "load" /\ v.m = w.m /\ v.plan = w.plan /\ v.want = w.want
          /\ v.env = w.env /\ v.declared = w.declared /\ v.retire = w.retire
      BY <3>1 DEF Run
    <3>3. UNCHANGED <<dep, ids, owners, ever, last, decl, crossed>> /\ Running(w) /\ w.pc = "execute"
      BY <1>1, <1>4 DEF Verify, history, Running
    <3>4. RunOK(w)' /\ DepMoves
      BY <1>0, <1>1, <3>3, StayMoves, MovesKeep
    <3>5. RunOK(v)' /\ Sees(v)' /\ SeesLedger(v)' /\ Spares(v)'
      BY <3>2, <3>3, <3>4 DEF RunOK, Running, Sees, SeesLedger, Spares
    <3> QED  BY <1>1, <2>2, <3>1, <3>2, <3>3, <3>4, <3>5, RunStep
  <2> QED  BY <1>1, <1>4, <2>1, <2>2 DEF Verify
<1>5. CASE LoadApplied(a) \/ PlanEnv(a)
  <2> DEFINE step == IF w.pc = "load" THEN "record" ELSE IF w.pc = "reload" THEN "rerecord" ELSE "ledger"
  <2>1. PICK v : v = [w EXCEPT !.pc = step, !.env = Live, !.declared = DeclaredIds(w.want)]
    OBVIOUS
  <2>2. UNCHANGED <<dep, ids, owners, ever, last, decl, crossed>>
        /\ Running(w) /\ w.pc \in {"load", "reload", "plan"}
    BY <1>1, <1>5 DEF LoadApplied, PlanEnv, history, Running
  <2>3. Set(a, v)
    BY <1>1, <1>5, <2>1 DEF LoadApplied, PlanEnv
  <2>4. DeclaredIds(w.want) \subseteq Live /\ Live \subseteq Ids /\ Ids \subseteq Nat
    <3>1. w.want \subseteq Bundles
      BY DEF Run
    <3> QED  BY <1>0, <3>1 DEF DeclaredIds, Live, Minted, Ids
  <2>5. v \in Run /\ v.pc = step /\ v.m = w.m /\ v.plan = w.plan /\ v.want = w.want
        /\ v.env = Live /\ v.declared = DeclaredIds(w.want) /\ v.retire = w.retire
    BY <2>1, <2>4 DEF Run
  <2>6. DepMoves /\ Live' = Live /\ Ids' = Ids /\ RunOK(w)'
    BY <1>0, <1>1, <2>2, StayMoves, MovesKeep DEF Ids
  <2>7. RunOK(v)' /\ SeesLedger(v)' /\ Spares(v)'
    BY <2>2, <2>4, <2>5, <2>6 DEF RunOK, Running, SeesLedger, Spares
  <2>8. Sees(v)'
    BY <1>0, <2>2, <2>4, <2>5, <2>6 DEF Sees, DeclaredIds, Live, Minted
  <2> QED  BY <1>1, <2>2, <2>3, <2>5, <2>6, <2>7, <2>8, RunStep
<1>6. CASE Abort(a)
  BY <1>1, <1>2, <1>6 DEF Abort, history, RunOK
<1> QED  BY <1>3, <1>4, <1>5, <1>6

\* The record of one manifest: other runs keep what they saw, and the ledger
\* covers what the last applies declared.
LEMMA RecordStep ==
  ASSUME ApplyInv, NEW a \in Appliers, Record(a)
  PROVE  ApplyInv'
<1>0. Minted /\ Ledger /\ UNCHANGED <<dep, ids, decl, crossed>>
  BY DEF ApplyInv, Record
<1>1. PICK w \in Run : w = work[a] /\ RunOK(w) /\ Sees(w)
  BY DEF ApplyInv
<1>2. /\ w.pc \in {"record", "rerecord"} /\ w.m \in Manifests /\ w.declared \subseteq w.env
      /\ w.env \subseteq Ids /\ Running(w)
  BY <1>1 DEF Record, RunOK, Running
<1>3. /\ owners' = Recorded(w)
      /\ ever' = [ever EXCEPT ![w.m] = @ \cup w.declared]
      /\ last' = [last EXCEPT ![w.m] = w.declared]
  BY <1>1 DEF Record
<1>4. PICK v \in Run : /\ Set(a, v)
                       /\ v = Idle \/ v = [w EXCEPT !.pc = "plan"]
  BY <1>1, IdleRun DEF Record, Run
<1>5. Live' = Live /\ Ids' = Ids
  BY <1>0 DEF Live, Ids
<1>6. Minted' /\ Ledger'
  BY <1>0, <1>2, <1>3, <1>5 DEF Minted, Ledger, Recorded
<1>7. \A u \in Run : RunOK(u) /\ Sees(u) => RunOK(u)' /\ Sees(u)'
  <2> SUFFICES ASSUME NEW u \in Run, RunOK(u), Sees(u) PROVE RunOK(u)' /\ Sees(u)'
    OBVIOUS
  <2>1. RunOK(u)'
    BY <1>5 DEF RunOK, Running
  <2>2. \A m \in Manifests : ever[m] \subseteq ever'[m]
    BY <1>0, <1>3 DEF Minted
  <2>3. Sees(u)'
    BY <1>0, <2>2 DEF Sees, RunOK, Running
  <2> QED  BY <2>1, <2>3
<1>8. RunOK(v)' /\ Sees(v)' /\ SeesLedger(v)' /\ Spares(v)'
  <2>1. CASE v = Idle
    BY <2>1, EndRun
  <2>2. CASE v = [w EXCEPT !.pc = "plan"]
    <3>1. v.pc = "plan" /\ v.m = w.m /\ v.plan = w.plan /\ v.want = w.want
          /\ v.env = w.env /\ v.declared = w.declared /\ v.retire = w.retire
      BY <2>2 DEF Run
    <3> QED  BY <1>1, <1>2, <1>5, <3>1 DEF RunOK, Running, Sees, SeesLedger, Spares
  <2> QED  BY <1>4, <2>1, <2>2
<1>9. ASSUME ~crossed
      PROVE  Covered' /\ \A c \in Appliers : c # a => ~Running(work[c])
  <2>1. Covered /\ SeesLedger(w) /\ \A c \in Appliers : c # a => ~Running(work[c])
    BY <1>1, <1>2, <1>9 DEF ApplyInv, Uncrossed
  <2>2. \A m \in Manifests : m # w.m => last'[m] \cap Live \subseteq owners[m] \cap w.env
    BY <1>0, <1>2, <1>3, <2>1 DEF Covered, SeesLedger, Minted
  <2>3. Covered'
    BY <1>0, <1>2, <1>3, <1>5, <2>2 DEF Covered, Recorded, Minted
  <2> QED  BY <2>1, <2>3
<1> QED  BY <1>0, <1>4, <1>6, <1>7, <1>8, <1>9, OneRun

\* The prune half: what is planned is the manifest's own, is declared no more
\* and is claimed by nobody else; what is retired was planned.
LEMMA PruneStep ==
  ASSUME ApplyInv, NEW a \in Appliers, PlanLedger(a) \/ \E d \in work[a].retire : Retire(a, d)
  PROVE  ApplyInv'
<1>0. Minted /\ Ledger
  BY DEF ApplyInv
<1>1. PICK w \in Run : w = work[a] /\ RunOK(w) /\ Sees(w)
                       /\ (~crossed => Covered /\ SeesLedger(w) /\ Spares(w))
  BY DEF ApplyInv, Uncrossed
<1>2. CASE PlanLedger(a)
  <2> DEFINE R == PrunePlan(w)
  <2>0. UNCHANGED <<dep, ids, owners, ever, last, decl, crossed>> /\ w.pc = "ledger" /\ Running(w)
        /\ w.m \in Manifests
    BY <1>1, <1>2 DEF PlanLedger, history, Running, RunOK
  <2>1. PICK v : v = [w EXCEPT !.retire = R, !.pc = IF R = {} THEN "reload" ELSE "retire"]
    OBVIOUS
  <2>2. Set(a, v)
    BY <1>1, <1>2, <2>1 DEF PlanLedger
  <2>3. R \subseteq w.env /\ R \cap w.declared = {} /\ R \subseteq owners[w.m]
        /\ \A m \in Manifests \ {w.m} : R \cap owners[m] = {}
    BY DEF PrunePlan, Prunable
  <2> HIDE DEF R
  <2>4. v \in Run /\ (v.pc = IF R = {} THEN "reload" ELSE "retire") /\ v.m = w.m /\ v.plan = w.plan
        /\ v.want = w.want /\ v.env = w.env /\ v.declared = w.declared /\ v.retire = R
    BY <2>1, <2>3 DEF Run
  <2>5. DepMoves /\ Live' = Live /\ Ids' = Ids /\ RunOK(w)'
    BY <1>0, <1>1, <2>0, StayMoves, MovesKeep DEF Ids
  <2>6. RunOK(v)'
    BY <2>3, <2>4, <2>5, <2>0 DEF RunOK, Running
  <2>7. Sees(v)'
    BY <1>0, <1>1, <2>0, <2>3, <2>4 DEF Sees, Ledger
  <2>8. ~crossed => SeesLedger(v)' /\ Spares(v)'
    BY <1>1, <2>0, <2>3, <2>4, <2>5 DEF SeesLedger, Spares, Covered
  <2> QED  BY <1>1, <2>0, <2>2, <2>4, <2>5, <2>6, <2>7, <2>8, RunStep
<1>3. ASSUME NEW d \in work[a].retire, Retire(a, d) PROVE ApplyInv'
  <2>0. UNCHANGED <<ids, owners, ever, last, decl, crossed>> /\ w.pc = "retire" /\ Running(w)
    BY <1>1, <1>3 DEF Retire, history, Running
  <2>1. CASE d \notin Live
    <3>1. Set(a, Idle) /\ UNCHANGED dep
      BY <1>3, <2>1 DEF Retire
    <3> QED  BY <1>0, <1>1, <2>0, <3>1, IdleRun, EndRun, StayMoves, RunStep
  <2>2. CASE d \in Live
    <3>1. PICK v : v = [w EXCEPT !.retire = @ \ {d}, !.pc = IF w.retire = {d} THEN "reload" ELSE @]
      OBVIOUS
    <3>2. Set(a, v) /\ dep' = [b \in Bundles |-> IF dep[b] = d THEN 0 ELSE dep[b]]
      BY <1>1, <1>3, <2>2, <3>1 DEF Retire
    <3>3. v \in Run /\ (v.pc = IF w.retire = {d} THEN "reload" ELSE "retire") /\ v.m = w.m
          /\ v.plan = w.plan /\ v.want = w.want /\ v.env = w.env /\ v.declared = w.declared
          /\ v.retire = w.retire \ {d}
      BY <2>0, <3>1 DEF Run
    <3>4. DepMoves
      BY <1>0, <2>0, <3>2 DEF DepMoves, Minted
    <3>5. RunOK(w)' /\ Sees(w)' /\ (~crossed => Spares(w)')
      BY <1>0, <1>1, <2>0, <3>4, MovesKeep
    <3>6. RunOK(v)'
      BY <2>0, <3>3, <3>5 DEF RunOK, Running
    <3>7. Sees(v)'
      BY <2>0, <3>3, <3>5 DEF Sees
    <3>8. ~crossed => SeesLedger(v)' /\ Spares(v)'
      BY <2>0, <3>3, <3>5 DEF SeesLedger, Spares
    <3> QED  BY <1>1, <2>0, <3>2, <3>3, <3>4, <3>6, <3>7, <3>8, RunStep
  <2> QED  BY <2>1, <2>2
<1> QED  BY <1>2, <1>3

\* The operators: a manifest is edited, a bundle is added or retired by hand.
LEMMA OperatorStep ==
  ASSUME ApplyInv,
         \/ \E m \in Manifests, bundles \in SUBSET Bundles : Edit(m, bundles)
         \/ \E b \in Bundles : ByHand(b)
         \/ UNCHANGED vars
  PROVE  ApplyInv'
<1>0. Minted /\ UNCHANGED <<owners, ever, last, work, crossed>>
  BY DEF ApplyInv, Edit, ByHand, history, vars
<1>1. CASE UNCHANGED <<dep, ids>> /\ decl' \in [Manifests -> SUBSET Bundles]
  <2>1. Minted' /\ Ledger' /\ Live' = Live /\ Ids' = Ids
    BY <1>0, <1>1 DEF ApplyInv, Minted, Ledger, Live, Ids
  <2>2. \A a \in Appliers : RunOK(work[a])' /\ Sees(work[a])'
    BY <1>0, <1>1, <2>1 DEF ApplyInv, RunOK, Sees, Running
  <2>3. Uncrossed => Uncrossed'
    BY <1>0, <1>1, <2>1 DEF Uncrossed, Covered, SeesLedger, Spares, Running
  <2> QED  BY <1>0, <2>1, <2>2, <2>3 DEF ApplyInv
<1>2. CASE DepMoves /\ UNCHANGED decl
  <2>1. /\ Minted' /\ Ledger'
        /\ Covered => Covered'
        /\ \A w \in Run : RunOK(w) /\ Sees(w) => RunOK(w)' /\ Sees(w)'
        /\ \A w \in Run : RunOK(w) /\ SeesLedger(w) => SeesLedger(w)'
        /\ \A w \in Run : RunOK(w) /\ Spares(w) => Spares(w)'
    BY <1>0, <1>2, MovesKeep DEF ApplyInv
  <2>2. ASSUME NEW a \in Appliers, NEW w \in Run, w = work[a]
        PROVE  /\ RunOK(w)' /\ Sees(w)'
               /\ Uncrossed => SeesLedger(w)' /\ Spares(w)'
    BY <2>1, <2>2 DEF ApplyInv, Uncrossed
  <2>3. \A a \in Appliers : RunOK(work[a])' /\ Sees(work[a])'
    BY <1>0, <2>2 DEF ApplyInv, RunOK, Sees, Running
  <2>4. Uncrossed => \A a \in Appliers : SeesLedger(work[a])' /\ Spares(work[a])'
    BY <1>0, <2>2 DEF ApplyInv, SeesLedger, Spares
  <2> QED  BY <1>0, <2>1, <2>3, <2>4 DEF ApplyInv, Uncrossed, Running
<1>3. ASSUME NEW m \in Manifests, NEW bundles \in SUBSET Bundles, Edit(m, bundles) PROVE ApplyInv'
  BY <1>0, <1>1, <1>3 DEF Edit, Minted
<1>4. ASSUME NEW b \in Bundles, ByHand(b) PROVE ApplyInv'
  BY <1>0, <1>2, <1>4, AddMoves DEF ByHand
<1>5. CASE UNCHANGED vars
  BY <1>0, <1>1, <1>5 DEF vars, Minted
<1> QED  BY <1>3, <1>4, <1>5

\* The invariant holds of every behaviour.
THEOREM ApplyInvariant == ApplySpec => []ApplyInv
<1>1. ApplyInit => ApplyInv
  <2> SUFFICES ASSUME ApplyInit PROVE ApplyInv
    OBVIOUS
  <2>1. Minted /\ Ledger /\ Covered
    BY DEF ApplyInit, Minted, Ledger, Covered, Ids
  <2>2. work \in [Appliers -> Run] /\ \A a \in Appliers : work[a] = Idle
    BY IdleRun DEF ApplyInit
  <2>3. RunOK(Idle) /\ Sees(Idle) /\ SeesLedger(Idle) /\ Spares(Idle)
    BY DEF Idle, RunOK, Running, Sees, SeesLedger, Spares
  <2> QED  BY <2>1, <2>2, <2>3, IdleRun DEF ApplyInit, ApplyInv, Uncrossed
<1>2. ApplyInv /\ [ApplyNext]_vars => ApplyInv'
  BY StartStep, UpsertStep, RecordStep, PruneStep, OperatorStep DEF ApplyNext, Step
<1> QED
  BY <1>1, <1>2, PTL DEF ApplySpec

\* With any number of applies, manifests and bundles: a prune retires only
\* deployments that an apply of its manifest declared and none of a bundle it
\* declares now, and, while applies do not run side by side, none that the
\* last apply of another manifest declared.
THEOREM ApplySafe == ApplySpec => []ApplySound
<1>1. ApplyInv => ApplySound
  <2> SUFFICES ASSUME ApplyInv PROVE ApplySound
    OBVIOUS
  <2>1. ApplyTypeOK
    BY DEF ApplyInv, Minted, Ids, RunOK, ApplyTypeOK
  <2>2. RetireOwn
    <3> SUFFICES ASSUME NEW a \in Appliers
                 PROVE  /\ work[a].retire \subseteq (IF work[a] = Idle THEN {} ELSE ever[work[a].m])
                        /\ \A b \in work[a].want : dep[b] \notin work[a].retire
      BY DEF RetireOwn
    <3>1. RunOK(work[a]) /\ Sees(work[a])
      BY DEF ApplyInv
    <3>2. CASE work[a].pc = "retire"
      BY <3>1, <3>2, IdleRun DEF Sees, Running
    <3>3. CASE work[a].pc # "retire"
      BY <3>1, <3>3 DEF RunOK
    <3> QED  BY <3>2, <3>3
  <2>3. NeverPrunesDeclared
    BY DEF ApplyInv, Uncrossed, Spares, RunOK, NeverPrunesDeclared
  <2> QED  BY <2>1, <2>2, <2>3 DEF ApplySound
<1> QED
  BY <1>1, ApplyInvariant, PTL

\* Only a record writes the ledger.
LEMMA LedgerWriter ==
  ASSUME ApplyNext, owners' # owners
  PROVE  \E a \in Appliers : Record(a)
BY DEF ApplyNext, Start, Step, Execute, Verify, LoadApplied, PlanEnv, PlanLedger, Retire, Abort,
       Edit, ByHand

\* With any number of applies, manifests and bundles: the record of one
\* manifest drops no claim of another on a deployment that exists, while
\* applies do not run side by side.
THEOREM ClaimsAreKept == ApplySpec => ClaimKept
<1>1. ApplyInv /\ [ApplyNext]_vars
        => [~ crossed => \A a \in Appliers : owners' # owners /\ work'[a] # work[a] =>
              \A m \in Manifests \ {work[a].m} : (owners[m] \ owners'[m]) \cap Live = {}]_vars
  <2> SUFFICES ASSUME ApplyInv, ApplyNext, ~crossed, NEW a \in Appliers,
                      owners' # owners, work'[a] # work[a], NEW m \in Manifests \ {work[a].m}
               PROVE  (owners[m] \ owners'[m]) \cap Live = {}
    OBVIOUS
  <2>1. PICK c \in Appliers : Record(c)
    BY LedgerWriter
  <2>2. a = c
    BY <2>1 DEF ApplyInv, Record, Set
  <2>3. owners' = Recorded(work[a]) /\ work[a].pc \in {"record", "rerecord"}
    BY <2>1, <2>2 DEF Record
  <2>4. owners[m] \cap Live \subseteq work[a].env
    BY <2>3 DEF ApplyInv, Uncrossed, SeesLedger
  <2> QED  BY <2>3, <2>4 DEF Recorded
<1> QED
  BY <1>1, ApplyInvariant, PTL DEF ApplySpec, ClaimKept

-----------------------------------------------------------------------------
(* The rollout of `op deploy`.                                             *)

Split == [key : Keys \cup {Nothing}, rev : Keys \cup {Nothing}, generation : Nat]

Document == [deployed : BOOLEAN, overrides : Overriding \cup {Nothing}, setting : BOOLEAN,
             revs : [Keys -> Lifecycles], split : Split]

NoRequest == [key |-> Nothing, op |-> Nothing]

Reply == [id : Request \cup {NoRequest}, etag : Document]

Sent == [pc : {"sent"}, key : Keys, op : Ops, reused : BOOLEAN,
         superseded : Keys \cup {Nothing}, etag : Document, replayed : BOOLEAN]

Gen(c) == c.split.generation

\* A request: what its command knew of the split, and how old its ETag is, when
\* the document is e and the cut-overs are c.
SentAt(w, e, c) ==
  /\ w \in Sent
  /\ w.op = "override" => w.key \in Overriding
  /\ w.op # "add" => e.deployed
  /\ Gen(w.etag) <= Gen(e)
  /\ ~ w.replayed => w.superseded = w.etag.split.rev
  /\ c[w.key] # 0 /\ w.op \notin {"add", "stage"} => Gen(w.etag) < Gen(e)

\* A stored response.
ReplyAt(x, e, c) ==
  /\ x \in Reply
  /\ Gen(x.etag) <= Gen(e)
  /\ x.id # NoRequest => e.deployed
  /\ x.id # NoRequest /\ c[x.id.key] # 0 /\ x.id.op # "traffic" => Gen(x.etag) < Gen(e)

\* A key that cut over has a revision that cannot be staged again.
CutAt(k, e, c) ==
  c[k] \in {0, 1} /\ (c[k] # 0 => e.deployed /\ e.revs[k] \in {"ready", "archived"})

Replies ==
  /\ ledger \in Seq(Reply) /\ Len(ledger) <= LedgerCap
  /\ \A i \in 1 .. Len(ledger) : ReplyAt(ledger[i], env, cuts)
  /\ \A i, j \in 1 .. Len(ledger) : i # j /\ ledger[i].id = ledger[j].id => ledger[i].id = NoRequest

Commands ==
  /\ command \in [Callers -> Sent \cup {NoCommand}]
  /\ \A p \in Callers : command[p] # NoCommand => SentAt(command[p], env, cuts)

DeployInv ==
  /\ env \in Document
  /\ Commands
  /\ \A w \in late : SentAt(w, env, cuts)
  /\ Replies
  /\ cuts \in [Keys -> Nat] /\ \A k \in Keys : CutAt(k, env, cuts)

\* What every step does to the document and to the count of cut-overs.
Advances(e, c, f, d) ==
  /\ f \in Document
  /\ e.deployed => f.deployed
  /\ Gen(e) <= Gen(f)
  /\ \A k \in Keys : e.revs[k] \in {"ready", "archived"} => f.revs[k] \in {"ready", "archived"}
  /\ d \in [Keys -> Nat]
  /\ \A k \in Keys : d[k] # 0 => c[k] # 0 \/ Gen(e) < Gen(f)

\* Generations are numbers.
LEMMA GenType == \A c \in Document : Gen(c) \in Nat
BY DEF Document, Split, Gen

\* A request stays what it is while the document advances: its ETag only ages.
LEMMA SentAdvances ==
  ASSUME NEW e \in Document, NEW c, NEW f, NEW d, Advances(e, c, f, d), NEW w, SentAt(w, e, c)
  PROVE  SentAt(w, f, d)
<1>1. Gen(e) \in Nat /\ Gen(f) \in Nat /\ Gen(w.etag) \in Nat /\ w.key \in Keys
  BY GenType DEF Advances, SentAt, Sent
<1> HIDE DEF Gen
<1>2. Gen(w.etag) <= Gen(f)
  BY <1>1 DEF Advances, SentAt
<1>3. d[w.key] # 0 /\ w.op \notin {"add", "stage"} => Gen(w.etag) < Gen(f)
  BY <1>1 DEF Advances, SentAt
<1> QED  BY <1>2, <1>3 DEF Advances, SentAt

\* So does a stored response.
LEMMA ReplyAdvances ==
  ASSUME NEW e \in Document, NEW c, NEW f, NEW d, Advances(e, c, f, d), NEW x, ReplyAt(x, e, c)
  PROVE  ReplyAt(x, f, d)
<1>1. Gen(e) \in Nat /\ Gen(f) \in Nat /\ Gen(x.etag) \in Nat
  BY GenType DEF Advances, ReplyAt, Reply
<1>2. x.id # NoRequest => x.id.key \in Keys
  BY DEF ReplyAt, Reply, Request
<1>3. Gen(x.etag) <= Gen(f)
  <2>1. Gen(x.etag) <= Gen(e) /\ Gen(e) <= Gen(f)
    BY DEF Advances, ReplyAt
  <2> QED  BY <1>1, <2>1
<1>4. ASSUME x.id # NoRequest, d[x.id.key] # 0, x.id.op # "traffic" PROVE Gen(x.etag) < Gen(f)
  <2>1. c[x.id.key] # 0 \/ Gen(e) < Gen(f)
    BY <1>2, <1>4 DEF Advances
  <2>2. Gen(x.etag) < Gen(e) \/ Gen(e) < Gen(f)
    BY <2>1, <1>4 DEF ReplyAt
  <2>3. Gen(x.etag) <= Gen(e) /\ Gen(e) <= Gen(f)
    BY DEF Advances, ReplyAt
  <2> QED  BY <1>1, <2>2, <2>3
<1> QED  BY <1>3, <1>4 DEF Advances, ReplyAt

\* Journaling adds one row and drops the oldest over the cap.
LEMMA JournaledReplies ==
  ASSUME env \in Document, Replies, Advances(env, cuts, env', cuts'), NEW id, NEW etag,
         ReplyAt([id |-> id, etag |-> etag], env', cuts'),
         id # NoRequest => \A i \in 1 .. Len(ledger) : ledger[i].id # id,
         ledger' = Journaled(id, etag)
  PROVE  Replies'
<1> DEFINE x == [id |-> id, etag |-> etag]
           s == Append(ledger, x)
           n == Len(ledger)
<1>0. n \in Nat /\ LedgerCap \in Nat /\ n <= LedgerCap /\ x \in Reply /\ x.id = id /\ ledger \in Seq(Reply)
      /\ LedgerCap # 0 /\ ReplyAt(x, env', cuts')
  BY DeployAssumption, LenProperties DEF Replies, ReplyAt
<1> HIDE DEF x
<1>1. /\ s \in Seq(Reply) /\ Len(s) = n + 1 /\ s[n + 1] = x
      /\ \A i \in 1 .. n : s[i] = ledger[i]
  BY <1>0, AppendProperties
<1>2. \A i \in 1 .. n + 1 : ReplyAt(s[i], env', cuts')
  <2> SUFFICES ASSUME NEW i \in 1 .. n + 1 PROVE ReplyAt(s[i], env', cuts')
    OBVIOUS
  <2>1. CASE i = n + 1
    BY <1>0, <1>1, <2>1
  <2>2. CASE i # n + 1
    <3>1. i \in 1 .. n
      BY <1>0, <2>2
    <3>2. ReplyAt(ledger[i], env', cuts')
      BY <3>1, ReplyAdvances DEF Replies
    <3> QED  BY <1>1, <3>1, <3>2
  <2> QED  BY <2>1, <2>2
<1>3. \A i, j \in 1 .. n + 1 : i # j /\ s[i].id = s[j].id => s[i].id = NoRequest
  <2> SUFFICES ASSUME NEW i \in 1 .. n + 1, NEW j \in 1 .. n + 1, i # j, s[i].id = s[j].id
               PROVE  s[i].id = NoRequest
    OBVIOUS
  <2>1. CASE i \in 1 .. n /\ j \in 1 .. n
    BY <1>1, <2>1 DEF Replies
  <2>2. CASE i = n + 1 \/ j = n + 1
    BY <1>0, <1>1, <2>2
  <2> QED  BY <1>0, <2>1, <2>2
<1>4. ledger' = IF Len(s) > LedgerCap THEN Tail(s) ELSE s
  BY DEF Journaled, x
<1>5. CASE Len(s) > LedgerCap
  <2>1. /\ ledger' = Tail(s) /\ s # <<>>
    BY <1>0, <1>1, <1>4, <1>5
  <2>2. /\ Tail(s) \in Seq(Reply) /\ Len(Tail(s)) = n
        /\ \A i \in 1 .. n : Tail(s)[i] = s[i + 1]
    BY <1>0, <1>1, <2>1, HeadTailProperties
  <2> HIDE DEF s, n
  <2>3. \A i \in 1 .. n : i + 1 \in 1 .. n + 1
    BY <1>0
  <2>4. \A i \in 1 .. n : ReplyAt(ledger'[i], env', cuts')
    BY <1>2, <2>1, <2>2, <2>3
  <2>5. \A i, j \in 1 .. n : i # j /\ ledger'[i].id = ledger'[j].id => ledger'[i].id = NoRequest
    <3> SUFFICES ASSUME NEW i \in 1 .. n, NEW j \in 1 .. n, i # j, ledger'[i].id = ledger'[j].id
                 PROVE  ledger'[i].id = NoRequest
      OBVIOUS
    <3>1. i + 1 # j + 1 /\ ledger'[i] = s[i + 1] /\ ledger'[j] = s[j + 1]
      BY <1>0, <2>1, <2>2
    <3> QED  BY <1>3, <2>3, <3>1
  <2> QED  BY <1>0, <2>1, <2>2, <2>4, <2>5 DEF Replies
<1>6. CASE ~ (Len(s) > LedgerCap)
  <2>1. ledger' = s /\ Len(s) <= LedgerCap
    BY <1>0, <1>1, <1>4, <1>6
  <2> HIDE DEF s, n
  <2> QED  BY <1>1, <1>2, <1>3, <2>1 DEF Replies
<1> QED  BY <1>5, <1>6

\* The next request of a command that was answered with an ETag.
LEMMA NextRequest ==
  ASSUME NEW e \in Document, NEW c, NEW w, SentAt(w, e, c), w.op # "traffic",
         e.deployed, NEW etag \in Document, NEW r \in BOOLEAN,
         Gen(etag) <= Gen(e),
         ~ (w.replayed \/ r) => w.superseded = etag.split.rev,
         c[w.key] # 0 => Gen(etag) < Gen(e)
  PROVE  SentAt([w EXCEPT !.op = NextOp(w), !.etag = etag, !.replayed = @ \/ r], e, c)
<1>1. NextOp(w) \in Ops /\ (NextOp(w) = "override" => w.key \in Overriding)
  BY DEF NextOp, SentAt, Sent, Ops
<1> QED  BY <1>1 DEF SentAt, Sent

\* What a commit of the server does: a request that is accepted and changes the
\* document is one of a key that did not cut over yet.
LEMMA CommitAdvances ==
  ASSUME env \in Document, cuts \in [Keys -> Nat], \A k \in Keys : CutAt(k, env, cuts), Replies,
         NEW w, SentAt(w, env, cuts), Accepted(w), Commit(w)
  PROVE  /\ Advances(env, cuts, env', cuts')
         /\ \A k \in Keys : CutAt(k, env', cuts')
         /\ Replies'
         /\ env'.deployed
         /\ w.op # "traffic" => env'.split = w.etag.split /\ cuts'[w.key] = 0
<1>0. w \in Sent /\ w.key \in Keys /\ w.op \in Ops /\ Nothing \notin Keys
  BY DeployAssumption DEF SentAt, Sent
<1>1. CASE Unchanged(w)
  <2>1. env' = env /\ cuts' = cuts /\ w.op = "traffic" /\ env.deployed
    BY <1>0, <1>1 DEF Unchanged, Commit, SentAt
  <2>2. Advances(env, cuts, env', cuts')
    BY <2>1, GenType DEF Advances
  <2>3. ReplyAt([id |-> Id(w), etag |-> env'], env', cuts')
    BY <1>0, <2>1, GenType DEF ReplyAt, Reply, Id, Request
  <2>4. Replies'
    BY <2>2, <2>3, JournaledReplies DEF Commit, Accepted, Answered
  <2> QED  BY <2>1, <2>2, <2>4
<1>2. CASE ~ Unchanged(w)
  <2>1. w.etag = env /\ env' = Applied(w)
    BY <1>2 DEF Accepted, Matches, Commit
  <2>2. cuts[w.key] = 0
    <3> SUFFICES ASSUME cuts[w.key] # 0 PROVE FALSE
      BY <1>0
    <3>1. env.deployed /\ env.revs[w.key] \in {"ready", "archived"}
      BY <1>0 DEF CutAt
    <3>2. w.op \in {"add", "stage"}
      BY <2>1, GenType DEF SentAt
    <3> QED  BY <3>1, <3>2 DEF Accepted, Refused
  <2>3. CASE w.op # "traffic"
    <3>1. cuts' = cuts
      BY <2>3 DEF Commit
    <3>2. /\ env' \in Document /\ env'.split = env.split /\ env'.deployed
          /\ \A k \in Keys : env.revs[k] \in {"ready", "archived"} => env'.revs[k] \in {"ready", "archived"}
      <4>1. CASE w.op = "add"
        BY <1>0, <2>1, <4>1 DEF Applied, Document
      <4>2. CASE w.op = "stage"
        BY <1>0, <2>1, <4>2 DEF Applied, Document, Lifecycles, Accepted, Refused, SentAt
      <4>3. CASE w.op = "warm"
        BY <1>0, <2>1, <4>3 DEF Applied, Document, Lifecycles, SentAt
      <4>4. CASE w.op = "override"
        BY <1>0, <2>1, <4>4 DEF Applied, Document, SentAt
      <4> QED  BY <1>0, <2>3, <4>1, <4>2, <4>3, <4>4 DEF Ops
    <3>3. Gen(env') = Gen(env)
      BY <3>2 DEF Gen
    <3>4. Advances(env, cuts, env', cuts')
      BY <3>1, <3>2, <3>3, GenType DEF Advances
    <3>5. \A k \in Keys : CutAt(k, env', cuts')
      BY <3>1, <3>2 DEF CutAt
    <3>6. ReplyAt([id |-> Id(w), etag |-> env'], env', cuts')
      BY <1>0, <2>2, <3>1, <3>2, GenType DEF ReplyAt, Reply, Id, Request
    <3>7. Replies'
      BY <3>4, <3>6, JournaledReplies DEF Commit, Accepted, Answered
    <3> QED  BY <2>1, <2>2, <3>1, <3>2, <3>4, <3>5, <3>7
  <2>4. CASE w.op = "traffic"
    <3>1. cuts' = [cuts EXCEPT ![w.key] = 1]
      BY <1>0, <1>2, <2>2, <2>4 DEF Commit
    <3>2. env.deployed /\ env.revs[w.key] = "ready"
      BY <1>2, <2>4 DEF SentAt, Accepted, Refused, Unchanged
    <3>3. /\ env' = [env EXCEPT !.split = [key |-> w.key, rev |-> w.key, generation |-> Gen(env) + 1]]
          /\ env' \in Document /\ Gen(env') = Gen(env) + 1
      BY <1>0, <2>1, <2>4, GenType DEF Applied, Document, Split, Gen
    <3>4. env'.deployed /\ env'.revs = env.revs
      BY <3>2, <3>3 DEF Document
    <3>5. Advances(env, cuts, env', cuts')
      BY <1>0, <3>1, <3>3, <3>4, GenType DEF Advances
    <3>6. \A k \in Keys : CutAt(k, env', cuts')
      BY <1>0, <3>1, <3>2, <3>4 DEF CutAt
    <3>7. ReplyAt([id |-> Id(w), etag |-> env'], env', cuts')
      BY <1>0, <2>4, <3>3, <3>4, GenType DEF ReplyAt, Reply, Id, Request
    <3>8. Replies'
      BY <3>5, <3>7, JournaledReplies DEF Commit, Accepted, Answered
    <3> QED  BY <2>4, <3>4, <3>5, <3>6, <3>8
  <2> QED  BY <2>3, <2>4
<1> QED  BY <1>1, <1>2

-----------------------------------------------------------------------------
(* The invariant.                                                          *)

\* A step under which the document advances, the requests under way are among
\* those before it, and the callers' are right.
LEMMA KeepsDeployInv ==
  ASSUME DeployInv, Advances(env, cuts, env', cuts'), \A k \in Keys : CutAt(k, env', cuts'),
         Replies', Commands', \A w \in late' : w \in late \/ SentAt(w, env, cuts)
  PROVE  DeployInv'
<1>1. \A w \in late' : SentAt(w, env', cuts')
  BY SentAdvances DEF DeployInv
<1> QED  BY <1>1 DEF DeployInv, Advances

\* Only one caller's request changes.
LEMMA OneCommand ==
  ASSUME DeployInv, Advances(env, cuts, env', cuts'), NEW p \in Callers, NEW w \in Sent \cup {NoCommand},
         w # NoCommand => SentAt(w, env', cuts'), command' = [command EXCEPT ![p] = w]
  PROVE  Commands'
<1>1. command' \in [Callers -> Sent \cup {NoCommand}]
  BY DEF DeployInv, Commands
<1>2. ASSUME NEW q \in Callers, command'[q] # NoCommand PROVE SentAt(command'[q], env', cuts')
  <2>1. CASE q = p
    BY <1>2, <2>1 DEF DeployInv, Commands
  <2>2. CASE q # p
    <3>1. command'[q] = command[q]
      BY <2>2 DEF DeployInv, Commands
    <3>2. SentAt(command[q], env, cuts)
      BY <1>2, <3>1 DEF DeployInv, Commands
    <3> QED  BY <3>1, <3>2, SentAdvances DEF DeployInv
  <2> QED  BY <2>1, <2>2
<1> QED  BY <1>1, <1>2 DEF Commands

\* No caller's request changes.
LEMMA SameCommands ==
  ASSUME DeployInv, Advances(env, cuts, env', cuts'), command' = command
  PROVE  Commands'
BY SentAdvances DEF DeployInv, Commands

\* The server stands still.
LEMMA ServerStands ==
  ASSUME DeployInv, UNCHANGED <<env, ledger, cuts>>
  PROVE  /\ Advances(env, cuts, env', cuts') /\ \A k \in Keys : CutAt(k, env', cuts')
         /\ Replies'
BY GenType DEF DeployInv, Advances, Replies

\* An outstanding request of a caller.
LEMMA CallersRequest ==
  ASSUME DeployInv, NEW p \in Callers, command[p].pc = "sent"
  PROVE  SentAt(command[p], env, cuts) /\ command[p] \in Sent /\ command[p] # NoCommand
<1>1. command[p] # NoCommand
  BY DEF NoCommand
<1> QED  BY <1>1 DEF DeployInv, Commands, SentAt

\* What a stored response says of the request it answers.
LEMMA AnsweredReply ==
  ASSUME DeployInv, NEW w \in Sent, Answered(w)
  PROVE  /\ AnsweredEtag(w) \in Document /\ env.deployed /\ Gen(AnsweredEtag(w)) <= Gen(env)
         /\ cuts[w.key] # 0 /\ w.op # "traffic" => Gen(AnsweredEtag(w)) < Gen(env)
<1> DEFINE i == CHOOSE j \in 1 .. Len(ledger) : ledger[j].id = Id(w)
<1>1. i \in 1 .. Len(ledger) /\ ledger[i].id = Id(w)
  BY DEF Answered
<1>2. ReplyAt(ledger[i], env, cuts) /\ AnsweredEtag(w) = ledger[i].etag
  BY <1>1 DEF DeployInv, Replies, AnsweredEtag
<1> HIDE DEF i
<1>3. Id(w) # NoRequest /\ Id(w).key = w.key /\ Id(w).op = w.op
  BY DeployAssumption DEF Id, NoRequest, Sent
<1> QED  BY <1>1, <1>2, <1>3 DEF ReplyAt, Reply

\* A caller that was answered.
LEMMA ProceedKeeps ==
  ASSUME DeployInv, Advances(env, cuts, env', cuts'), NEW p \in Callers, command[p].pc = "sent",
         NEW etag \in Document, NEW r \in BOOLEAN, Proceed(p, etag, r),
         env'.deployed, Gen(etag) <= Gen(env'),
         command[p].op # "traffic" =>
           /\ ~ (command[p].replayed \/ r) => command[p].superseded = etag.split.rev
           /\ cuts'[command[p].key] # 0 => Gen(etag) < Gen(env')
  PROVE  Commands'
<1>1. SentAt(command[p], env', cuts') /\ env' \in Document
  BY CallersRequest, SentAdvances DEF DeployInv, Advances
<1>2. CASE command[p].op = "traffic"
  BY <1>2, OneCommand DEF Proceed
<1>3. CASE command[p].op # "traffic"
  <2> DEFINE w == [command[p] EXCEPT !.op = NextOp(command[p]), !.etag = etag, !.replayed = @ \/ r]
  <2>1. SentAt(w, env', cuts')
    BY <1>1, <1>3, NextRequest
  <2>2. w \in Sent
    BY <2>1 DEF SentAt
  <2>3. command' = [command EXCEPT ![p] = w]
    BY <1>3 DEF Proceed, DeployInv, Commands
  <2> HIDE DEF w
  <2> QED  BY <2>1, <2>2, <2>3, OneCommand
<1> QED  BY <1>2, <1>3

\* A command loads the document.
LEMMA LoadKeeps ==
  ASSUME DeployInv, NEW p \in Callers, NEW k \in Keys, Load(p, k)
  PROVE  DeployInv'
<1>1. UNCHANGED <<env, ledger, cuts, late>>
  BY DEF Load
<1>2. Advances(env, cuts, env', cuts')
  BY <1>1, ServerStands
<1>3. Commands'
  <2>1. CASE env.deployed /\ env.split.key = k
    BY <1>2, <2>1, SameCommands DEF Load
  <2>2. CASE ~ (env.deployed /\ env.split.key = k)
    <3> DEFINE w == [pc |-> "sent", key |-> k, op |-> IF env.deployed THEN "stage" ELSE "add",
                     reused |-> env.deployed, superseded |-> Superseded, etag |-> env,
                     replayed |-> FALSE]
    <3>1. env \in Document /\ env.deployed \in BOOLEAN /\ env.split.rev \in Keys \cup {Nothing}
      BY DEF DeployInv, Document, Split
    <3>2. w \in Sent
      BY <3>1 DEF Sent, Ops, Superseded
    <3>3. SentAt(w, env, cuts)
      BY <3>1, <3>2, GenType DEF SentAt, Superseded
    <3>4. command' = [command EXCEPT ![p] = w]
      BY <2>2 DEF Load
    <3> HIDE DEF w
    <3> QED  BY <1>1, <1>2, <3>2, <3>3, <3>4, OneCommand
  <2> QED  BY <2>1, <2>2
<1> QED  BY <1>1, <1>3, ServerStands, KeepsDeployInv

\* A caller's request is answered: replayed, committed or refused.
LEMMA ServeKeeps ==
  ASSUME DeployInv, NEW p \in Callers, Serve(p)
  PROVE  DeployInv'
<1> DEFINE w == command[p]
<1>0. w.pc = "sent" /\ late' = late /\ w \in Sent /\ SentAt(w, env, cuts)
  BY CallersRequest DEF Serve
<1>1. CASE Answered(w) /\ Proceed(p, AnsweredEtag(w), TRUE) /\ UNCHANGED <<env, ledger, cuts>>
  <2>1. Advances(env, cuts, env', cuts')
    BY <1>1, ServerStands
  <2>2. Commands'
    BY <1>0, <1>1, <2>1, AnsweredReply, ProceedKeeps
  <2> QED  BY <1>0, <1>1, <2>2, ServerStands, KeepsDeployInv
<1>2. CASE Accepted(w) /\ Commit(w) /\ Proceed(p, env', FALSE)
  <2>1. /\ Advances(env, cuts, env', cuts')
        /\ \A k \in Keys : CutAt(k, env', cuts')
        /\ Replies' /\ env'.deployed
        /\ w.op # "traffic" => env'.split = w.etag.split /\ cuts'[w.key] = 0
    BY <1>0, <1>2, CommitAdvances DEF DeployInv
  <2>2. env' \in Document /\ Gen(env') <= Gen(env')
    BY <2>1, GenType DEF Advances
  <2>3. w.op # "traffic" => (~ (w.replayed \/ FALSE) => w.superseded = env'.split.rev)
    BY <1>0, <2>1 DEF SentAt
  <2>4. Commands'
    BY <1>0, <1>2, <2>1, <2>2, <2>3, ProceedKeeps
  <2> QED  BY <1>0, <2>1, <2>4, KeepsDeployInv
<1>3. CASE command' = [command EXCEPT ![p] = NoCommand] /\ UNCHANGED <<env, ledger, cuts>>
  <2>1. Commands'
    BY <1>3, ServerStands, OneCommand
  <2> QED  BY <1>0, <1>3, <2>1, ServerStands, KeepsDeployInv
<1> QED  BY <1>1, <1>2, <1>3 DEF Serve

\* A caller dies or times out, its request still under way or not.
LEMMA GiveUpKeeps ==
  ASSUME DeployInv, NEW p \in Callers, GiveUp(p)
  PROVE  DeployInv'
<1>1. UNCHANGED <<env, ledger, cuts>> /\ command' = [command EXCEPT ![p] = NoCommand]
  BY DEF GiveUp
<1>2. Commands'
  BY <1>1, ServerStands, OneCommand
<1>3. \A w \in late' : w \in late \/ SentAt(w, env, cuts)
  BY CallersRequest DEF GiveUp
<1> QED  BY <1>1, <1>2, <1>3, ServerStands, KeepsDeployInv

\* The request of a caller that is gone reaches the server.
LEMMA ServeLateKeeps ==
  ASSUME DeployInv, NEW w \in late, ServeLate(w)
  PROVE  DeployInv'
<1>1. SentAt(w, env, cuts) /\ \A x \in late' : x \in late
  BY DEF DeployInv, ServeLate
<1>2. Advances(env, cuts, env', cuts') /\ (\A k \in Keys : CutAt(k, env', cuts')) /\ Replies'
  <2>1. CASE Accepted(w)
    BY <1>1, <2>1, CommitAdvances DEF DeployInv, ServeLate
  <2>2. CASE ~ Accepted(w)
    BY <2>2, ServerStands DEF ServeLate
  <2> QED  BY <2>1, <2>2
<1>3. Commands'
  BY <1>2, SameCommands DEF ServeLate
<1> QED  BY <1>1, <1>2, <1>3, KeepsDeployInv

\* A write of somebody else that neither undeploys, nor takes the split back,
\* nor makes a revision stageable again.
LEMMA OthersKeep ==
  ASSUME DeployInv, NEW content \in Document, Others(content),
         content.deployed = env.deployed, Gen(env) <= Gen(content),
         \A k \in Keys : env.revs[k] \in {"ready", "archived"} => content.revs[k] \in {"ready", "archived"}
  PROVE  DeployInv'
<1>1. env' = content /\ cuts' = cuts /\ command' = command /\ late' = late
      /\ ledger' = Journaled(NoRequest, content)
  BY DEF Others, NoRequest
<1>2. Advances(env, cuts, env', cuts')
  BY <1>1 DEF Advances, DeployInv
<1>3. \A k \in Keys : CutAt(k, env', cuts')
  BY <1>1 DEF CutAt, DeployInv
<1>4. ReplyAt([id |-> NoRequest, etag |-> content], env', cuts')
  BY <1>1, GenType DEF ReplyAt, Reply
<1>5. Replies'
  BY <1>1, <1>2, <1>4, JournaledReplies DEF DeployInv
<1>6. Commands'
  BY <1>1, <1>2, SameCommands
<1> QED  BY <1>1, <1>2, <1>3, <1>5, <1>6, KeepsDeployInv

\* Other operators write.
LEMMA ElsewhereKeeps ==
  ASSUME DeployInv, Elsewhere
  PROVE  DeployInv'
<1>0. env \in Document /\ Gen(env) \in Nat
  BY GenType DEF DeployInv
<1>1. CASE Others([env EXCEPT !.setting = ~ @])
  <2>1. [env EXCEPT !.setting = ~ @] \in Document
    BY <1>0 DEF Document
  <2>2. Gen([env EXCEPT !.setting = ~ @]) = Gen(env)
    BY <1>0 DEF Gen, Document
  <2> QED  BY <1>0, <1>1, <2>1, <2>2, OthersKeep DEF Document
<1>2. ASSUME NEW k \in Keys, env.revs[k] = "ready",
             Others([env EXCEPT !.split = [key |-> Nothing, rev |-> k, generation |-> @.generation + 1]])
      PROVE  DeployInv'
  <2> DEFINE content == [env EXCEPT !.split = [key |-> Nothing, rev |-> k, generation |-> @.generation + 1]]
  <2>1. content \in Document /\ Gen(content) = Gen(env) + 1
    BY <1>0 DEF Document, Split, Gen
  <2>2. content.deployed = env.deployed /\ content.revs = env.revs /\ Gen(env) <= Gen(content)
    BY <1>0, <2>1 DEF Document
  <2>3. Others(content)
    BY <1>2
  <2> HIDE DEF content
  <2> QED  BY <2>1, <2>2, <2>3, OthersKeep
<1>3. ASSUME NEW k \in Keys, Others([env EXCEPT !.revs[k] = "archived"])
      PROVE  DeployInv'
  <2> DEFINE content == [env EXCEPT !.revs[k] = "archived"]
  <2>1. content \in Document /\ content.split = env.split
    BY <1>0 DEF Document, Lifecycles
  <2>2. content.deployed = env.deployed
        /\ \A j \in Keys : env.revs[j] \in {"ready", "archived"} => content.revs[j] \in {"ready", "archived"}
    BY <1>0 DEF Document
  <2>3. Gen(env) <= Gen(content)
    BY <1>0, <2>1 DEF Gen
  <2>4. Others(content)
    BY <1>3
  <2> HIDE DEF content
  <2> QED  BY <2>1, <2>2, <2>3, <2>4, OthersKeep
<1> QED  BY <1>1, <1>2, <1>3 DEF Elsewhere

\* DeployInv holds in every state of every deploy, for any callers, keys and
\* caps.
THEOREM DeployInvariant == DeploySpec => []DeployInv
<1>1. DeployInit => DeployInv
  <2> SUFFICES ASSUME DeployInit PROVE DeployInv
    OBVIOUS
  <2>1. env \in Document
    BY DEF DeployInit, Document, Split, NoSplit, Lifecycles
  <2>2. Commands
    BY DEF DeployInit, Commands
  <2>3. Replies
    BY DeployAssumption DEF DeployInit, Replies
  <2>4. cuts \in [Keys -> Nat] /\ \A k \in Keys : CutAt(k, env, cuts)
    BY DEF DeployInit, CutAt
  <2> QED  BY <2>1, <2>2, <2>3, <2>4 DEF DeployInv, DeployInit
<1>2. DeployInv /\ [DeployNext]_deployVars => DeployInv'
  <2> SUFFICES ASSUME DeployInv, [DeployNext]_deployVars PROVE DeployInv'
    OBVIOUS
  <2>1. CASE UNCHANGED deployVars
    BY <2>1 DEF deployVars, DeployInv, Commands, Replies
  <2>2. CASE DeployNext
    BY <2>2, LoadKeeps, ServeKeeps, GiveUpKeeps, ServeLateKeeps, ElsewhereKeeps DEF DeployNext
  <2> QED  BY <2>1, <2>2
<1> QED  BY <1>1, <1>2, PTL DEF DeploySpec

\* A commit under a key leaves its mark: on the split, and in the ledger.
RoutedInv ==
  /\ env.split.key \in Keys => cuts[env.split.key] # 0
  /\ \A i \in 1 .. Len(ledger) : ledger[i].id.op = "traffic" => cuts[ledger[i].id.key] # 0
  /\ \A k \in reported : k \in Keys /\ cuts[k] # 0

\* The rows after journaling are the new one and rows that were there.
LEMMA JournaledRows ==
  ASSUME ledger \in Seq(Reply), NEW x \in Reply, NEW i \in 1 .. Len(Journaled(x.id, x.etag))
  PROVE  \/ Journaled(x.id, x.etag)[i] = x
         \/ \E j \in 1 .. Len(ledger) : Journaled(x.id, x.etag)[i] = ledger[j]
<1> DEFINE s == Append(ledger, x)
           n == Len(ledger)
<1>0. n \in Nat /\ LedgerCap \in Nat /\ LedgerCap # 0 /\ ledger \in Seq(Reply)
      /\ x = [id |-> x.id, etag |-> x.etag]
  BY DeployAssumption, LenProperties DEF Reply
<1>1. /\ s \in Seq(Reply) /\ Len(s) = n + 1 /\ s[n + 1] = x
      /\ \A j \in 1 .. n : s[j] = ledger[j]
  BY <1>0, AppendProperties
<1>2. Journaled(x.id, x.etag) = IF Len(s) > LedgerCap THEN Tail(s) ELSE s
  BY <1>0 DEF Journaled
<1>3. ASSUME NEW j \in 1 .. n + 1 PROVE s[j] = x \/ \E l \in 1 .. n : s[j] = ledger[l]
  <2>1. j = n + 1 \/ j \in 1 .. n
    BY <1>0
  <2> HIDE DEF s, n
  <2> QED  BY <1>1, <2>1
<1>4. CASE Len(s) > LedgerCap
  <2>1. s # <<>>
    BY <1>0, <1>1
  <2>2. Len(Tail(s)) = n /\ \A j \in 1 .. n : Tail(s)[j] = s[j + 1]
    BY <1>0, <1>1, <2>1, HeadTailProperties
  <2> HIDE DEF s
  <2>3. i \in 1 .. n /\ Journaled(x.id, x.etag)[i] = s[i + 1] /\ i + 1 \in 1 .. n + 1
    BY <1>0, <1>2, <1>4, <2>2
  <2> QED  BY <1>3, <2>3
<1>5. CASE ~ (Len(s) > LedgerCap)
  <2> HIDE DEF s
  <2>1. i \in 1 .. n + 1 /\ Journaled(x.id, x.etag)[i] = s[i]
    BY <1>1, <1>2, <1>5
  <2> QED  BY <1>3, <2>1
<1> QED  BY <1>4, <1>5

\* Cut-overs are not taken back, and a row for one is written with it.
LEMMA RoutedKeeps ==
  ASSUME RoutedInv, ledger \in Seq(Reply), NEW x \in Reply, ledger' = Journaled(x.id, x.etag),
         \A k \in Keys : cuts[k] # 0 => cuts'[k] # 0,
         env'.split.key \in Keys => cuts'[env'.split.key] # 0,
         x.id.op = "traffic" => cuts'[x.id.key] # 0,
         \A k \in reported' : k \in reported \/ (k \in Keys /\ cuts'[k] # 0)
  PROVE  RoutedInv'
<1>1. ASSUME NEW i \in 1 .. Len(ledger'), ledger'[i].id.op = "traffic" PROVE cuts'[ledger'[i].id.key] # 0
  <2>1. CASE ledger'[i] = x
    BY <1>1, <2>1
  <2>2. ASSUME NEW j \in 1 .. Len(ledger), ledger'[i] = ledger[j] PROVE cuts'[ledger'[i].id.key] # 0
    <3>0. ledger[j] \in Reply
      BY ElementOfSeq
    <3>1. ledger[j].id \in Request \cup {NoRequest} /\ cuts[ledger[j].id.key] # 0
      BY <1>1, <2>2, <3>0 DEF RoutedInv, Reply
    <3>2. ledger[j].id.key \in Keys
      BY <1>1, <2>2, <3>1 DEF Request, NoRequest, Nothing
    <3> QED  BY <2>2, <3>1, <3>2
  <2> QED  BY <2>1, <2>2, JournaledRows
<1>2. \A k \in reported' : k \in Keys /\ cuts'[k] # 0
  BY DEF RoutedInv
<1> QED  BY <1>1, <1>2 DEF RoutedInv

\* What a commit leaves behind.
LEMMA CommitRoutes ==
  ASSUME DeployInv, RoutedInv, NEW w, SentAt(w, env, cuts), Accepted(w), Commit(w)
  PROVE  /\ \A k \in Keys : cuts[k] # 0 => cuts'[k] # 0
         /\ env'.split.key \in Keys => cuts'[env'.split.key] # 0
         /\ w.op = "traffic" => cuts'[w.key] # 0
         /\ [id |-> Id(w), etag |-> env'] \in Reply
<1>0. w \in Sent /\ w.key \in Keys /\ w.op \in Ops /\ cuts \in [Keys -> Nat] /\ env \in Document
  BY DEF SentAt, Sent, DeployInv
<1>1. env' \in Document
  <2>1. Advances(env, cuts, env', cuts')
    BY CommitAdvances DEF DeployInv
  <2> QED  BY <2>1 DEF Advances
<1>2. [id |-> Id(w), etag |-> env'] \in Reply
  BY <1>0, <1>1 DEF Reply, Id, Request
<1>3. \A k \in Keys : cuts[k] # 0 => cuts'[k] # 0
  BY <1>0 DEF Commit
<1>4. CASE Unchanged(w)
  <2>1. env' = env /\ cuts' = cuts /\ env.split.key = w.key
    BY <1>4 DEF Commit, Unchanged
  <2> QED  BY <1>0, <1>2, <2>1 DEF RoutedInv
<1>5. CASE ~ Unchanged(w) /\ w.op = "traffic"
  <2>1. cuts'[w.key] # 0
    BY <1>0, <1>5 DEF Commit
  <2>2. env'.split.key = w.key
    BY <1>0, <1>5 DEF Commit, Applied, Document
  <2> QED  BY <1>2, <1>3, <2>1, <2>2
<1>6. CASE w.op # "traffic"
  <2>1. env'.split = env.split /\ cuts' = cuts
    <3>1. cuts' = cuts /\ w.etag = env
      BY <1>6 DEF Commit, Unchanged, Accepted, Matches
    <3>2. env'.split = w.etag.split
      BY <1>6, CommitAdvances DEF DeployInv
    <3> QED  BY <3>1, <3>2
  <2> QED  BY <1>2, <1>6, <2>1 DEF RoutedInv
<1> QED  BY <1>4, <1>5, <1>6

\* Every step keeps what a cut-over left behind.
LEMMA RoutedStep ==
  ASSUME DeployInv, RoutedInv, [DeployNext]_deployVars
  PROVE  RoutedInv'
<1>0. ledger \in Seq(Reply) /\ env \in Document /\ cuts \in [Keys -> Nat]
  BY DEF DeployInv, Replies
<1>1. ASSUME UNCHANGED <<env, ledger, cuts>>, \A k \in reported' : k \in reported \/ (k \in Keys /\ cuts[k] # 0)
      PROVE  RoutedInv'
  BY <1>1 DEF RoutedInv
<1>2. CASE UNCHANGED deployVars
  BY <1>1, <1>2 DEF deployVars
<1>3. ASSUME NEW p \in Callers, NEW k \in Keys, Load(p, k) PROVE RoutedInv'
  <2>1. \A j \in reported' : j \in reported \/ (j \in Keys /\ cuts[j] # 0)
    BY <1>3 DEF Load, RoutedInv
  <2> QED  BY <1>1, <1>3, <2>1 DEF Load
<1>4. ASSUME NEW p \in Callers, Serve(p) PROVE RoutedInv'
  <2> DEFINE w == command[p]
  <2>0. w \in Sent /\ w.key \in Keys /\ SentAt(w, env, cuts)
    BY <1>4, CallersRequest DEF Serve, Sent
  <2>1. CASE Answered(w) /\ Proceed(p, AnsweredEtag(w), TRUE) /\ UNCHANGED <<env, ledger, cuts>>
    <3>1. w.op = "traffic" => cuts[w.key] # 0
      <4> SUFFICES ASSUME w.op = "traffic" PROVE cuts[w.key] # 0
        OBVIOUS
      <4>1. PICK i \in 1 .. Len(ledger) : ledger[i].id = Id(w)
        BY <2>1 DEF Answered
      <4>2. Id(w).op = "traffic" /\ Id(w).key = w.key
        BY DEF Id
      <4> QED  BY <4>1, <4>2 DEF RoutedInv
    <3>2. \A j \in reported' : j \in reported \/ (j \in Keys /\ cuts[j] # 0)
      BY <2>0, <2>1, <3>1 DEF Proceed
    <3> QED  BY <1>1, <2>1, <3>2
  <2>2. CASE Accepted(w) /\ Commit(w) /\ Proceed(p, env', FALSE)
    <3> DEFINE x == [id |-> Id(w), etag |-> env']
    <3>1. /\ \A k \in Keys : cuts[k] # 0 => cuts'[k] # 0
          /\ env'.split.key \in Keys => cuts'[env'.split.key] # 0
          /\ w.op = "traffic" => cuts'[w.key] # 0
          /\ x \in Reply
      BY <2>0, <2>2, CommitRoutes
    <3>2. \A j \in reported' : j \in reported \/ (j \in Keys /\ cuts'[j] # 0)
      BY <2>0, <2>2, <3>1 DEF Proceed
    <3>3. ledger' = Journaled(x.id, x.etag) /\ (x.id.op = "traffic" => cuts'[x.id.key] # 0)
      BY <2>2, <3>1 DEF Commit, Id
    <3> HIDE DEF x, w
    <3> QED  BY <1>0, <3>1, <3>2, <3>3, RoutedKeeps
  <2>3. CASE UNCHANGED <<env, ledger, reported, cuts>>
    BY <1>1, <2>3
  <2> QED  BY <1>4, <2>1, <2>2, <2>3 DEF Serve
<1>5. ASSUME NEW p \in Callers, GiveUp(p) PROVE RoutedInv'
  BY <1>1, <1>5 DEF GiveUp
<1>6. ASSUME NEW w \in late, ServeLate(w) PROVE RoutedInv'
  <2>1. CASE Accepted(w) /\ Commit(w)
    <3> DEFINE x == [id |-> Id(w), etag |-> env']
    <3>1. /\ \A k \in Keys : cuts[k] # 0 => cuts'[k] # 0
          /\ env'.split.key \in Keys => cuts'[env'.split.key] # 0
          /\ w.op = "traffic" => cuts'[w.key] # 0
          /\ x \in Reply
      BY <2>1, CommitRoutes DEF DeployInv
    <3>2. reported' = reported
      BY <1>6 DEF ServeLate
    <3>3. ledger' = Journaled(x.id, x.etag) /\ (x.id.op = "traffic" => cuts'[x.id.key] # 0)
      BY <2>1, <3>1 DEF Commit, Id
    <3> HIDE DEF x
    <3> QED  BY <1>0, <3>1, <3>2, <3>3, RoutedKeeps
  <2>2. CASE UNCHANGED <<env, ledger, cuts>>
    BY <1>1, <1>6, <2>2 DEF ServeLate
  <2> QED  BY <1>6, <2>1, <2>2 DEF ServeLate
<1>7. CASE Elsewhere
  <2>1. PICK content : Others(content) /\ content \in Document
                       /\ (content.split.key = env.split.key \/ content.split.key = Nothing)
    <3>1. [env EXCEPT !.setting = ~ @] \in Document
      BY <1>0 DEF Document
    <3>2. ASSUME NEW k \in Keys
          PROVE  LET c == [env EXCEPT !.split = [key |-> Nothing, rev |-> k, generation |-> @.generation + 1]]
                 IN  c \in Document /\ c.split.key = Nothing
      <4>1. env.split.generation + 1 \in Nat
        BY <1>0 DEF Document, Split
      <4>2. [key |-> Nothing, rev |-> k, generation |-> env.split.generation + 1] \in Split
        BY <4>1 DEF Split
      <4> QED  BY <1>0, <4>2 DEF Document
    <3>3. ASSUME NEW k \in Keys PROVE [env EXCEPT !.revs[k] = "archived"] \in Document
      BY <1>0 DEF Document, Lifecycles
    <3>4. CASE Others([env EXCEPT !.setting = ~ @])
      BY <1>0, <3>1, <3>4 DEF Document
    <3>5. ASSUME NEW k \in Keys,
                 Others([env EXCEPT !.split = [key |-> Nothing, rev |-> k, generation |-> @.generation + 1]])
          PROVE  \E c : Others(c) /\ c \in Document
                        /\ (c.split.key = env.split.key \/ c.split.key = Nothing)
      BY <3>2, <3>5
    <3>6. ASSUME NEW k \in Keys, Others([env EXCEPT !.revs[k] = "archived"])
          PROVE  \E c : Others(c) /\ c \in Document
                        /\ (c.split.key = env.split.key \/ c.split.key = Nothing)
      BY <1>0, <3>3, <3>6 DEF Document
    <3> QED  BY <1>7, <3>4, <3>5, <3>6 DEF Elsewhere
  <2> DEFINE x == [id |-> NoRequest, etag |-> content]
  <2>2. env' = content /\ cuts' = cuts /\ reported' = reported /\ ledger' = Journaled(x.id, x.etag)
    BY <2>1 DEF Others, NoRequest
  <2>3. x \in Reply /\ x.id.op # "traffic"
    BY <2>1 DEF Reply, NoRequest, Nothing
  <2>4. env'.split.key \in Keys => cuts'[env'.split.key] # 0
    BY <2>1, <2>2, DeployAssumption DEF RoutedInv
  <2> HIDE DEF x
  <2> QED  BY <1>0, <2>2, <2>3, <2>4, RoutedKeeps
<1> QED  BY <1>2, <1>3, <1>4, <1>5, <1>6, <1>7 DEF DeployNext

\* "Routed" is told only to the caller of a key whose cut-over was committed,
\* whatever stored response, live split or late request it rests on.
THEOREM ReportedIsRouted == DeploySpec => []ReportedRouted
<1>1. DeployInit => RoutedInv
  BY DeployAssumption DEF DeployInit, NoSplit, RoutedInv
<1>2. DeployInv /\ RoutedInv => ReportedRouted
  BY DEF DeployInv, RoutedInv, CutAt, ReportedRouted
<1> QED  BY <1>1, <1>2, RoutedStep, DeployInvariant, PTL DEF DeploySpec

\* However requests are lost, late, replayed or forgotten by the ledger, a key
\* cuts traffic over at most once, and a cut-over that the server accepts from
\* a command that saw no stored response replaces the split the command
\* decided on; what is reported as routed was.
THEOREM DeploySafe == DeploySpec => []DeploySound
<1>1. DeployInv /\ ReportedRouted => DeploySound
  <2> SUFFICES ASSUME DeployInv, ReportedRouted PROVE DeploySound
    OBVIOUS
  <2>1. \A w \in Outstanding : SentAt(w, env, cuts)
    BY DEF Outstanding, DeployInv, Commands
  <2>2. DeployTypeOK
    <3>1. \A i, j \in 1 .. Len(ledger) :
            i # j /\ ledger[i].id = ledger[j].id => ledger[i].id.key = Nothing
      BY DEF DeployInv, Replies, NoRequest
    <3>2. \A w \in Outstanding : Id(w) \in Request /\ w.superseded \in Keys \cup {Nothing}
      BY <2>1 DEF SentAt, Sent, Id, Request
    <3> QED  BY <3>1, <3>2 DEF DeployTypeOK, DeployInv, Document, Split, Replies
  <2>3. DecidedOnLive
    BY <2>1 DEF DecidedOnLive, SentAt, Accepted, Matches
  <2>4. CutOverOnce
    BY DEF CutOverOnce, DeployInv, CutAt
  <2> QED  BY <2>2, <2>3, <2>4 DEF DeploySound
<1> QED  BY <1>1, DeployInvariant, ReportedIsRouted, PTL
=============================================================================
