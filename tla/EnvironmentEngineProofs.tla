---------------------- MODULE EnvironmentEngineProofs ----------------------
(***************************************************************************)
(* TLAPS proofs about EnvironmentEngine, for every set of ids and every    *)
(* set of entry lists, and about RetireSequence, which works on the        *)
(* engine's document: every invariant of the engine holds of it, and the   *)
(* retire's own invariants rest on them.                                   *)
(***************************************************************************)
EXTENDS RetireSequence, WellFoundedInduction, TLAPS

-----------------------------------------------------------------------------
(* A bounded set of naturals has its maximum among its members.            *)

\* NextSequence takes the maximum of a set: a bounded non-empty set of
\* naturals has one, and it is a member at least as large as every other.
LEMMA MaxOfBounded ==
  ASSUME NEW S, S \subseteq Nat, S # {}, NEW b \in Nat, \A s \in S : s <= b
  PROVE  /\ Max(S) \in S
         /\ \A s \in S : s <= Max(S)
<1> DEFINE Gaps == {n \in Nat : \E s \in S : n = b - s}
           Less == OpToRel(<, Nat)
<1>1. Gaps \subseteq Nat
  OBVIOUS
<1>2. Gaps # {}
  <2>1. PICK s \in S : TRUE
    OBVIOUS
  <2>2. b - s \in Gaps
    BY <2>1
  <2> QED
    BY <2>2
<1>3. IsWellFoundedOn(Less, Nat)
  BY NatLessThanWellFounded
<1>4. \E g \in Gaps : \A n \in Gaps : ~ (<<n, g>> \in Less)
  <2> HIDE DEF Gaps, Less
  <2> QED
    BY <1>1, <1>2, <1>3, WFMin, Zenon
<1>5. PICK g \in Gaps : \A n \in Gaps : ~ (n < g)
  BY <1>4 DEF OpToRel
<1>6. PICK m \in S : g = b - m
  OBVIOUS
<1>7. \A s \in S : s <= m
  <2>1. SUFFICES ASSUME NEW s \in S PROVE s <= m
    OBVIOUS
  <2>2. b - s \in Gaps
    OBVIOUS
  <2>3. ~ (b - s < b - m)
    BY <2>2, <1>5, <1>6
  <2> QED
    BY <2>3
<1>8. \E x \in S : \A y \in S : x >= y
  BY <1>7
<1> QED
  BY <1>8 DEF Max

-----------------------------------------------------------------------------
(* Type correctness.                                                       *)

\* Some number bounds every sequence in use, so a maximum of them exists.
SequencesBounded ==
  \E b \in Nat : \A r \in RevisionIds :
    revisions[r] # None => revisions[r].sequence <= b

TypeInv == TypeOK /\ SequencesBounded

\* The sequence stage_revision hands out is a positive natural, larger than
\* every sequence of the deployment and at most one above any bound on all.
LEMMA NextSequenceFresh ==
  ASSUME TypeOK, NEW d \in DeploymentIds, NEW b \in Nat,
         \A r \in RevisionIds : revisions[r] # None => revisions[r].sequence <= b
  PROVE  /\ NextSequence(d) \in Nat
         /\ NextSequence(d) <= b + 1
         /\ \A r \in RevisionsOf(d) : revisions[r].sequence < NextSequence(d)
<1> DEFINE taken == {revisions[r].sequence : r \in RevisionsOf(d)}
<1>1. \A r \in RevisionsOf(d) : revisions[r].sequence \in Nat /\ revisions[r].sequence <= b
  BY DEF TypeOK, RevisionsOf, Revision
<1>2. taken \subseteq Nat /\ \A s \in taken : s <= b
  BY <1>1
<1>3. CASE taken = {}
  <2>1. NextSequence(d) = 1
    BY <1>3 DEF NextSequence
  <2>2. \A r \in RevisionsOf(d) : FALSE
    <3>1. \A r \in RevisionsOf(d) : revisions[r].sequence \in taken
      OBVIOUS
    <3> QED
      BY <1>3, <3>1
  <2> QED
    BY <2>1, <2>2
<1>4. CASE taken # {}
  <2>1. Max(taken) \in taken /\ \A s \in taken : s <= Max(taken)
    <3> HIDE DEF taken
    <3> QED
      BY <1>2, <1>4, MaxOfBounded
  <2>2. NextSequence(d) = Max(taken) + 1
    BY <1>4 DEF NextSequence
  <2>3. \A r \in RevisionsOf(d) : revisions[r].sequence <= Max(taken)
    BY <2>1
  <2>4. Max(taken) \in Nat /\ Max(taken) <= b
    BY <2>1, <1>2
  <2> HIDE DEF taken
  <2> QED
    BY <1>1, <2>2, <2>3, <2>4
<1> QED
  BY <1>3, <1>4

\* Every lifecycle write keeps the revision table's shape and its sequences.
LEMMA SetLifecycleType ==
  ASSUME TypeInv, NEW r \in RevisionIds, revisions[r] # None,
         NEW to \in Lifecycle, SetLifecycle(r, to)
  PROVE  /\ revisions' \in [RevisionIds -> Revision \cup {None}]
         /\ \A q \in RevisionIds :
              revisions'[q] = IF q = r THEN [revisions[q] EXCEPT !.lifecycle = to]
                              ELSE revisions[q]
         /\ revisions'[r] \in Revision
         /\ revisions[r] \in Revision
         /\ SequencesBounded'
<1>1. revisions[r] \in Revision
  BY DEF TypeInv, TypeOK
<1>2. [revisions[r] EXCEPT !.lifecycle = to] \in Revision
  BY <1>1 DEF Revision
<1>3. revisions' = [revisions EXCEPT ![r] = [revisions[r] EXCEPT !.lifecycle = to]]
  BY DEF SetLifecycle
<1>4. revisions' \in [RevisionIds -> Revision \cup {None}]
  BY <1>2, <1>3 DEF TypeInv, TypeOK
<1>5. \A q \in RevisionIds :
        revisions'[q] = IF q = r THEN [revisions[q] EXCEPT !.lifecycle = to]
                        ELSE revisions[q]
  BY <1>3 DEF TypeInv, TypeOK
<1>6. [revisions[r] EXCEPT !.lifecycle = to].sequence = revisions[r].sequence
  BY <1>1 DEF Revision
<1>7. SequencesBounded'
  BY <1>5, <1>6 DEF TypeInv, SequencesBounded
<1> QED
  BY <1>1, <1>2, <1>4, <1>5, <1>7

\* Each verb keeps the document well-typed and its sequences bounded.
LEMMA TypeInvStep ==
  ASSUME TypeInv, [Next]_vars
  PROVE  TypeInv'
<1> USE DEF TypeInv
<1>1. ASSUME NEW d \in DeploymentIds, NEW b \in BundleIds, NEW c \in CustomerIds,
             NEW overrides \in SUBSET PackIds, AddBundle(d, b, c, overrides)
      PROVE  TypeInv'
  BY <1>1 DEF AddBundle, TypeOK, SequencesBounded, Deployment, Status
<1>2. ASSUME NEW d \in DeploymentIds, NEW status \in Status,
             NEW overrides \in SUBSET PackIds, UpdateBundle(d, status, overrides)
      PROVE  TypeInv'
  BY <1>2 DEF UpdateBundle, TypeOK, SequencesBounded, Deployment
<1>3. ASSUME NEW d \in DeploymentIds, RemoveBundle(d)
      PROVE  TypeInv'
  BY <1>3 DEF RemoveBundle, TypeOK, SequencesBounded
<1>4. ASSUME NEW d \in DeploymentIds, ClearTrafficSplit(d)
      PROVE  TypeInv'
  BY <1>4 DEF ClearTrafficSplit, TypeOK, SequencesBounded
<1>5. ASSUME NEW d \in DeploymentIds, BeginRetire(d)
      PROVE  TypeInv'
  BY <1>5 DEF BeginRetire, TypeOK, SequencesBounded, Deployment, Status
<1>6. ASSUME NEW r \in RevisionIds, NEW d \in DeploymentIds, NEW packs \in SUBSET PackIds,
             StageRevision(r, d, packs)
      PROVE  TypeInv'
  <2>1. PICK b \in Nat : \A q \in RevisionIds :
          revisions[q] # None => revisions[q].sequence <= b
    BY DEF SequencesBounded
  <2>2. NextSequence(d) \in Nat /\ NextSequence(d) <= b + 1
    BY <2>1, NextSequenceFresh
  <2> DEFINE new == [deployment_id |-> d, bundle_id |-> bundles[d].bundle_id,
                     sequence |-> NextSequence(d), lifecycle |-> "Staged",
                     pack_list |-> packs]
  <2>3. revisions' = [revisions EXCEPT ![r] = new]
    BY <1>6 DEF StageRevision
  <2>4. bundles[d].bundle_id \in BundleIds
    BY <1>6 DEF StageRevision, TypeOK, Deployment
  <2>5. new \in Revision
    BY <2>2, <2>4 DEF Revision, Lifecycle
  <2>6. TypeOK'
    BY <1>6, <2>3, <2>5 DEF StageRevision, TypeOK
  <2>7. \A q \in RevisionIds : revisions'[q] # None => revisions'[q].sequence <= b + 1
    <3>1. SUFFICES ASSUME NEW q \in RevisionIds, revisions'[q] # None
                   PROVE  revisions'[q].sequence <= b + 1
      OBVIOUS
    <3>2. CASE q = r
      BY <3>2, <2>2, <2>3 DEF TypeOK
    <3>3. CASE q # r
      <4>1. revisions'[q] = revisions[q]
        BY <3>3, <2>3 DEF TypeOK
      <4> QED
        BY <4>1, <3>1, <2>1 DEF TypeOK, Revision
    <3> QED
      BY <3>2, <3>3
  <2>8. SequencesBounded'
    BY <2>7 DEF SequencesBounded
  <2> QED
    BY <2>6, <2>8
<1>7. ASSUME NEW r \in RevisionIds, NEW expected \in Lifecycle, NEW gate \in BOOLEAN,
             WarmRevision(r, expected, gate)
      PROVE  TypeInv'
  <2>1. PICK to \in Lifecycle : SetLifecycle(r, to)
    BY <1>7 DEF WarmRevision, Lifecycle
  <2> QED
    BY <1>7, <2>1, SetLifecycleType DEF WarmRevision, TypeOK
<1>8. ASSUME NEW r \in RevisionIds, DrainRevision(r)
      PROVE  TypeInv'
  <2>1. "Draining" \in Lifecycle
    BY DEF Lifecycle
  <2> QED
    BY <1>8, <2>1, SetLifecycleType DEF DrainRevision, TypeOK
<1>9. ASSUME NEW r \in RevisionIds, ArchiveRevision(r)
      PROVE  TypeInv'
  <2>1. "Archived" \in Lifecycle
    BY DEF Lifecycle
  <2> QED
    BY <1>9, <2>1, SetLifecycleType DEF ArchiveRevision, TypeOK
<1>10. ASSUME NEW d \in DeploymentIds, NEW entries \in EntryLists, NEW key \in Keys,
              SetTrafficSplit(d, entries, key)
       PROVE  TypeInv'
  <2>1. CASE CarriesKey(d, key)
    BY <1>10, <2>1 DEF SetTrafficSplit, TypeOK, SequencesBounded
  <2>2. CASE ~CarriesKey(d, key)
    <3> DEFINE old == traffic_splits[d]
               new == [bundle_id |-> bundles[d].bundle_id,
                       generation |-> IF old = None THEN 0 ELSE old.generation + 1,
                       entries |-> entries, idempotency_key |-> Stamped(key),
                       previous |-> IF old = None THEN None ELSE StashOf(old)]
    <3>1. traffic_splits' = [traffic_splits EXCEPT ![d] = new]
      BY <1>10, <2>2 DEF SetTrafficSplit
    <3>2. bundles[d].bundle_id \in BundleIds
      BY <1>10 DEF SetTrafficSplit, TypeOK, Deployment
    <3>3. entries \in Seq(Entry)
      BY EngineAssumption
    <3>4. old # None => old \in Split
      BY DEF TypeOK
    <3>5. Stamped(key) \in StampedKey
      BY DEF Stamped, StampedKey
    <3>6. old # None => StashOf(old) \in Stash
      BY <3>4 DEF StashOf, Stash, Split
    <3>7. new.generation \in Nat
      BY <3>4 DEF Split
    <3>8. new \in Split
      BY <3>2, <3>3, <3>5, <3>6, <3>7 DEF Split
    <3> QED
      BY <1>10, <3>1, <3>8 DEF SetTrafficSplit, TypeOK, SequencesBounded
  <2> QED
    BY <2>1, <2>2
<1>11. ASSUME NEW d \in DeploymentIds, RollbackTrafficSplit(d)
       PROVE  TypeInv'
  <2> DEFINE live == traffic_splits[d]
             back == live.previous
             new == [bundle_id |-> back.bundle_id, generation |-> live.generation + 1,
                     entries |-> back.entries,
                     idempotency_key |-> RollbackKey(live.idempotency_key),
                     previous |-> None]
  <2>1. live \in Split /\ back \in Stash
    BY <1>11 DEF RollbackTrafficSplit, TypeOK, Split
  <2>2. RollbackKey(live.idempotency_key) \in StampedKey
    BY <2>1 DEF RollbackKey, StampedKey, Split
  <2>3. new \in Split
    BY <2>1, <2>2 DEF Split, Stash
  <2>4. traffic_splits' = [traffic_splits EXCEPT ![d] = new]
    BY <1>11 DEF RollbackTrafficSplit
  <2> QED
    BY <1>11, <2>3, <2>4 DEF RollbackTrafficSplit, TypeOK, SequencesBounded
<1>12. ASSUME NEW e \in EndpointIds, AddEndpoint(e)
       PROVE  TypeInv'
  BY <1>12 DEF AddEndpoint, TypeOK, SequencesBounded, Endpoint
<1>13. ASSUME NEW e \in EndpointIds, NEW b \in BundleIds, LinkBundle(e, b)
       PROVE  TypeInv'
  BY <1>13 DEF LinkBundle, TypeOK, SequencesBounded, Endpoint
<1>14. ASSUME NEW e \in EndpointIds, NEW b \in BundleIds, UnlinkBundle(e, b)
       PROVE  TypeInv'
  BY <1>14 DEF UnlinkBundle, TypeOK, SequencesBounded, Endpoint
<1>15. ASSUME NEW e \in EndpointIds, NEW b \in BundleIds, SetWelcomeFlow(e, b)
       PROVE  TypeInv'
  BY <1>15 DEF SetWelcomeFlow, TypeOK, SequencesBounded, Endpoint
<1>16. ASSUME NEW e \in EndpointIds, RemoveEndpoint(e)
       PROVE  TypeInv'
  BY <1>16 DEF RemoveEndpoint, TypeOK, SequencesBounded
<1>17. CASE UNCHANGED vars
  BY <1>17 DEF vars, TypeOK, SequencesBounded
<1> QED
  BY <1>1, <1>2, <1>3, <1>4, <1>5, <1>6, <1>7, <1>8, <1>9, <1>10, <1>11, <1>12,
     <1>13, <1>14, <1>15, <1>16, <1>17
  DEF Next, BundleVerb, RevisionVerb, TrafficVerb, EndpointVerb

\* A fresh environment is well-typed.
LEMMA TypeInvInit == Init => TypeInv
<1> SUFFICES ASSUME Init PROVE TypeInv
  OBVIOUS
<1>1. TypeOK
  BY DEF Init, TypeOK
<1>2. 0 \in Nat
  OBVIOUS
<1>3. SequencesBounded
  BY <1>2 DEF Init, SequencesBounded
<1> QED
  BY <1>1, <1>3 DEF TypeInv

\* Every document the stores can save has the shape of the spec types, whatever
\* order the verbs of crates/greentic-deploy-spec are called in.
THEOREM TypeCorrect == Spec => []TypeOK
<1>1. TypeInv => TypeOK
  BY DEF TypeInv
<1> QED
  BY <1>1, TypeInvInit, TypeInvStep, PTL DEF Spec

-----------------------------------------------------------------------------
(* The safety invariants.  None of them is inductive by itself: a removal   *)
(* keeps RoutedServing only because splits belong to present deployments,   *)
(* a rollback only because its stash is still its own deployment's.         *)

\* Every deployment's id was handed out, so a new one cannot collide.
DeploymentsMinted ==
  \A d \in DeploymentIds : bundles[d] # None => d \in minted

\* A split stands under a present deployment, of the same bundle, and its
\* entries are the complete weight.
SplitsOwned ==
  \A d \in DeploymentIds : traffic_splits[d] # None =>
    /\ bundles[d] # None
    /\ bundles[d].bundle_id = traffic_splits[d].bundle_id
    /\ EntriesValid(traffic_splits[d].entries)

\* The stashed split routes to revisions of the same deployment still.
StashOwned ==
  \A d \in DeploymentIds :
    traffic_splits[d] # None /\ traffic_splits[d].previous # None =>
      \A r \in RoutedBy(traffic_splits[d].previous) :
        revisions[r] # None /\ revisions[r].deployment_id = d

OwnershipInv ==
  /\ RevisionsOwned
  /\ DeploymentsMinted
  /\ SplitsOwned
  /\ StashOwned

LifecycleInv ==
  /\ NoTransientLifecycle
  /\ RoutedServing
  /\ SequencesDistinct

EngineInv ==
  /\ TypeInv
  /\ OwnershipInv
  /\ LifecycleInv
  /\ RollbackTarget
  /\ OneDeploymentPerCustomer

\* The ids a list of entries routes to are revision ids.
LEMMA RoutedType ==
  ASSUME TypeOK, NEW d \in DeploymentIds, traffic_splits[d] # None
  PROVE  /\ traffic_splits[d] \in Split
         /\ RoutedBy(traffic_splits[d]) \subseteq RevisionIds
         /\ traffic_splits[d].previous # None =>
              /\ traffic_splits[d].previous \in Stash
              /\ RoutedBy(traffic_splits[d].previous) \subseteq RevisionIds
<1>1. ASSUME NEW entries \in Seq(Entry)
      PROVE  \A i \in DOMAIN entries : entries[i].revision_id \in RevisionIds
  <2>1. \A i \in DOMAIN entries : entries[i] \in Entry
    BY <1>1
  <2> QED
    BY <2>1 DEF Entry
<1>2. traffic_splits[d] \in Split
  BY DEF TypeOK
<1>3. traffic_splits[d].entries \in Seq(Entry)
  BY <1>2 DEF Split
<1>4. traffic_splits[d].previous # None =>
        traffic_splits[d].previous \in Stash /\ traffic_splits[d].previous.entries \in Seq(Entry)
  BY <1>2 DEF Split, Stash
<1> QED
  BY <1>1, <1>2, <1>3, <1>4 DEF RoutedBy

\* What a chain can land on, given where the revision stood.
LEMMA Walks ==
  ASSUME NEW at \in Lifecycle
  PROVE  /\ WarmWalk(at) = "Ready" => at \in {"Staged", "Warming", "Ready"}
         /\ DrainWalk(at) = "Draining" => at \in {"Ready", "Draining"}
BY DEF Lifecycle, WarmWalk, DrainWalk, Hop, IsValidTransition

\* What a verb that only writes one revision's lifecycle leaves in place: the
\* invariant survives if a routed revision stays serving and no revision is
\* left in a transient state.
LEMMA LifecycleWrite ==
  ASSUME EngineInv, NEW r \in RevisionIds, revisions[r] # None,
         NEW to \in Lifecycle, SetLifecycle(r, to),
         UNCHANGED <<bundles, traffic_splits, endpoints, minted>>,
         to \notin {"Warming", "Inactive"},
         Routed(r) => to \in {"Ready", "Draining"}
  PROVE  EngineInv'
<1> USE DEF EngineInv, OwnershipInv, LifecycleInv
<1>1. /\ TypeInv'
      /\ \A q \in RevisionIds :
           revisions'[q] = IF q = r THEN [revisions[q] EXCEPT !.lifecycle = to]
                           ELSE revisions[q]
      /\ revisions[r] \in Revision /\ revisions'[r] \in Revision
  BY SetLifecycleType DEF TypeInv, TypeOK
<1>2. \A q \in RevisionIds :
        /\ revisions'[q] # None <=> revisions[q] # None
        /\ revisions[q] # None =>
             /\ revisions'[q].deployment_id = revisions[q].deployment_id
             /\ revisions'[q].bundle_id = revisions[q].bundle_id
             /\ revisions'[q].sequence = revisions[q].sequence
             /\ revisions'[q].lifecycle = IF q = r THEN to ELSE revisions[q].lifecycle
  BY <1>1, NoneAssumption DEF Revision
<1>3. OwnershipInv'
  <2>1. RevisionsOwned' /\ DeploymentsMinted' /\ SplitsOwned'
    BY <1>2 DEF RevisionsOwned, DeploymentsMinted, SplitsOwned, EntriesValid
  <2>2. StashOwned'
    BY <1>2, RoutedType DEF StashOwned, RoutedBy, TypeInv
  <2> QED
    BY <2>1, <2>2
<1>4. LifecycleInv'
  <2>1. NoTransientLifecycle' /\ SequencesDistinct'
    BY <1>2 DEF NoTransientLifecycle, SequencesDistinct
  <2>2. RoutedServing'
    BY <1>2, RoutedType DEF RoutedServing, RoutedBy, Routed, TypeInv
  <2> QED
    BY <2>1, <2>2
<1>5. RollbackTarget' /\ OneDeploymentPerCustomer'
  BY DEF RollbackTarget, OneDeploymentPerCustomer, EntriesValid
<1> QED
  BY <1>1, <1>3, <1>4, <1>5

\* Every verb preserves the invariant, by its own guards: Environment::validate
\* is never needed for it.
LEMMA EngineInvStep ==
  ASSUME EngineInv, [Next]_vars
  PROVE  EngineInv'
<1> USE DEF EngineInv, OwnershipInv, LifecycleInv
<1>0. TypeInv' /\ TypeOK
  BY TypeInvStep DEF TypeInv
<1>1. ASSUME NEW d \in DeploymentIds, NEW b \in BundleIds, NEW c \in CustomerIds,
             NEW overrides \in SUBSET PackIds, AddBundle(d, b, c, overrides)
      PROVE  EngineInv'
  <2> DEFINE new == [bundle_id |-> b, customer_id |-> c, status |-> "Active",
                     config_overrides |-> overrides]
  <2>1. bundles[d] = None
    BY <1>1 DEF AddBundle, DeploymentsMinted
  <2>2. \A x \in DeploymentIds : bundles'[x] = IF x = d THEN new ELSE bundles[x]
    BY <1>1, <1>0 DEF AddBundle, TypeOK
  <2>3. RevisionsOwned' /\ DeploymentsMinted'
    BY <1>0, <1>1, <2>1, <2>2 DEF AddBundle, RevisionsOwned, DeploymentsMinted, TypeOK, Revision
  <2>4. SplitsOwned' /\ StashOwned'
    BY <1>1, <2>1, <2>2 DEF AddBundle, SplitsOwned, StashOwned, EntriesValid, RoutedBy
  <2>5. LifecycleInv' /\ RollbackTarget'
    BY <1>1 DEF AddBundle, NoTransientLifecycle, RoutedServing, SequencesDistinct,
                RollbackTarget, RoutedBy, EntriesValid
  <2>6. OneDeploymentPerCustomer'
    BY <1>1, <2>2 DEF AddBundle, OneDeploymentPerCustomer
  <2> QED
    BY <1>0, <2>3, <2>4, <2>5, <2>6
<1>2. ASSUME NEW d \in DeploymentIds, NEW status \in Status,
             NEW overrides \in SUBSET PackIds, UpdateBundle(d, status, overrides)
      PROVE  EngineInv'
  <2>1. \A x \in DeploymentIds :
          /\ bundles'[x] # None <=> bundles[x] # None
          /\ bundles'[x].bundle_id = bundles[x].bundle_id
          /\ bundles'[x].customer_id = bundles[x].customer_id
    <3>1. bundles[d] # None /\ bundles[d] \in Deployment
      BY <1>0, <1>2 DEF UpdateBundle, TypeOK
    <3> DEFINE new == [bundle_id |-> bundles[d].bundle_id,
                       customer_id |-> bundles[d].customer_id,
                       status |-> status, config_overrides |-> overrides]
    <3>2. new \in Deployment
      BY <3>1 DEF Deployment
    <3>3. new # None /\ new.bundle_id = bundles[d].bundle_id
          /\ new.customer_id = bundles[d].customer_id
      BY <3>2, NoneAssumption
    <3>4. \A x \in DeploymentIds : bundles'[x] = IF x = d THEN new ELSE bundles[x]
      BY <1>0, <1>2 DEF UpdateBundle, TypeOK
    <3> HIDE DEF new
    <3> QED
      BY <3>1, <3>3, <3>4
  <2>2. RevisionsOwned' /\ DeploymentsMinted' /\ SplitsOwned' /\ StashOwned'
    BY <1>0, <1>2, <2>1 DEF UpdateBundle, RevisionsOwned, DeploymentsMinted, SplitsOwned,
                      StashOwned, EntriesValid, RoutedBy, TypeOK, Revision
  <2>3. LifecycleInv' /\ RollbackTarget'
    BY <1>2 DEF UpdateBundle, NoTransientLifecycle, RoutedServing, SequencesDistinct,
                RollbackTarget, RoutedBy, EntriesValid
  <2>4. OneDeploymentPerCustomer'
    BY <2>1 DEF OneDeploymentPerCustomer
  <2> QED
    BY <1>0, <2>2, <2>3, <2>4
<1>3. ASSUME NEW d \in DeploymentIds, RemoveBundle(d)
      PROVE  EngineInv'
  <2>1. \A x \in DeploymentIds : bundles'[x] = IF x = d THEN None ELSE bundles[x]
    BY <1>0, <1>3 DEF RemoveBundle, TypeOK
  <2>2. \A r \in RevisionIds : revisions'[r] =
          IF revisions[r] # None /\ revisions[r].deployment_id = d THEN None ELSE revisions[r]
    BY <1>3 DEF RemoveBundle, RevisionsOf
  <2>3. traffic_splits[d] = None /\ traffic_splits' = traffic_splits
    BY <1>3 DEF RemoveBundle
  <2>4. RevisionsOwned'
    BY <1>0, <2>1, <2>2 DEF RevisionsOwned, TypeOK, Revision
  <2>5. DeploymentsMinted' /\ SplitsOwned'
    BY <1>3, <2>1, <2>3 DEF RemoveBundle, DeploymentsMinted, SplitsOwned, EntriesValid
  <2>6. StashOwned'
    BY <1>0, <2>2, <2>3, RoutedType DEF StashOwned, RoutedBy
  <2>7. NoTransientLifecycle' /\ SequencesDistinct'
    BY <2>2 DEF NoTransientLifecycle, SequencesDistinct
  <2>8. RoutedServing'
    BY <1>0, <2>2, <2>3, RoutedType DEF RoutedServing, RoutedBy
  <2>9. RollbackTarget' /\ OneDeploymentPerCustomer'
    BY <2>1, <2>3 DEF RollbackTarget, OneDeploymentPerCustomer, EntriesValid
  <2> QED
    BY <1>0, <2>4, <2>5, <2>6, <2>7, <2>8, <2>9
<1>4. ASSUME NEW d \in DeploymentIds, ClearTrafficSplit(d) \/ BeginRetire(d)
      PROVE  EngineInv'
  <2>1. \A x \in DeploymentIds :
          /\ bundles'[x] # None <=> bundles[x] # None
          /\ bundles[x] # None =>
               /\ bundles'[x].bundle_id = bundles[x].bundle_id
               /\ bundles'[x].customer_id = bundles[x].customer_id
    <3>1. CASE ClearTrafficSplit(d)
      BY <3>1 DEF ClearTrafficSplit
    <3>2. CASE BeginRetire(d)
      <4> DEFINE new == [bundles[d] EXCEPT !.status = "Archived"]
      <4>1. bundles[d] # None /\ bundles[d] \in Deployment
        BY <1>0, <3>2 DEF BeginRetire, TypeOK
      <4>2. new \in Deployment
        BY <4>1 DEF Deployment, Status
      <4>3. new # None /\ new.bundle_id = bundles[d].bundle_id
            /\ new.customer_id = bundles[d].customer_id
        BY <4>1, <4>2, NoneAssumption DEF Deployment
      <4>4. \A x \in DeploymentIds : bundles'[x] = IF x = d THEN new ELSE bundles[x]
        BY <1>0, <3>2 DEF BeginRetire, TypeOK
      <4> HIDE DEF new
      <4> QED
        BY <4>1, <4>3, <4>4
    <3> QED
      BY <1>4, <3>1, <3>2
  <2>2. \A x \in DeploymentIds :
          traffic_splits'[x] = IF x = d THEN None ELSE traffic_splits[x]
    BY <1>0, <1>4 DEF ClearTrafficSplit, BeginRetire, TypeOK
  <2>3. UNCHANGED <<revisions, minted>>
    BY <1>4 DEF ClearTrafficSplit, BeginRetire
  <2>4. RevisionsOwned' /\ DeploymentsMinted'
    BY <1>0, <2>1, <2>3 DEF RevisionsOwned, DeploymentsMinted, TypeOK, Revision
  <2>5. SplitsOwned' /\ StashOwned'
    BY <2>1, <2>2, <2>3 DEF SplitsOwned, StashOwned, EntriesValid, RoutedBy
  <2>6. LifecycleInv' /\ RollbackTarget'
    BY <2>2, <2>3 DEF NoTransientLifecycle, RoutedServing, SequencesDistinct,
                      RollbackTarget, RoutedBy, EntriesValid
  <2>7. OneDeploymentPerCustomer'
    BY <2>1 DEF OneDeploymentPerCustomer
  <2> QED
    BY <1>0, <2>4, <2>5, <2>6, <2>7
<1>5. ASSUME NEW r \in RevisionIds, NEW d \in DeploymentIds, NEW packs \in SUBSET PackIds,
             StageRevision(r, d, packs)
      PROVE  EngineInv'
  <2> DEFINE new == [deployment_id |-> d, bundle_id |-> bundles[d].bundle_id,
                     sequence |-> NextSequence(d), lifecycle |-> "Staged",
                     pack_list |-> packs]
  <2>1. \A q \in RevisionIds : revisions'[q] = IF q = r THEN new ELSE revisions[q]
    BY <1>0, <1>5 DEF StageRevision, TypeOK
  <2>2. revisions[r] = None /\ bundles[d] # None
    BY <1>5 DEF StageRevision
  <2>3. UNCHANGED <<bundles, traffic_splits, minted>>
    BY <1>5 DEF StageRevision
  <2>4. NextSequence(d) \in Nat
        /\ \A q \in RevisionsOf(d) : revisions[q].sequence < NextSequence(d)
    BY <1>0, NextSequenceFresh DEF TypeInv, SequencesBounded
  <2> HIDE DEF new
  <2>5. /\ new.deployment_id = d
        /\ new.bundle_id = bundles[d].bundle_id
        /\ new.sequence = NextSequence(d)
        /\ new.lifecycle = "Staged"
    BY DEF new
  <2>6. RevisionsOwned' /\ DeploymentsMinted' /\ SplitsOwned'
    BY <2>1, <2>2, <2>3, <2>5 DEF RevisionsOwned, DeploymentsMinted, SplitsOwned, EntriesValid
  <2>7. StashOwned'
    BY <1>0, <2>1, <2>2, <2>3, RoutedType DEF StashOwned, RoutedBy
  <2>8. NoTransientLifecycle'
    BY <2>1, <2>5 DEF NoTransientLifecycle
  <2>9. RoutedServing'
    BY <1>0, <2>1, <2>2, <2>3, RoutedType DEF RoutedServing, RoutedBy
  <2>10. SequencesDistinct'
    <3>1. \A q \in RevisionIds :
            q # r /\ revisions[q] # None /\ revisions[q].deployment_id = d
              => revisions[q].sequence # NextSequence(d)
      BY <1>0, <2>4 DEF RevisionsOf, TypeOK, Revision
    <3> QED
      BY <2>1, <2>2, <2>5, <3>1 DEF SequencesDistinct
  <2>11. RollbackTarget' /\ OneDeploymentPerCustomer'
    BY <2>3 DEF RollbackTarget, OneDeploymentPerCustomer, EntriesValid
  <2> QED
    BY <1>0, <2>6, <2>7, <2>8, <2>9, <2>10, <2>11
<1>6. ASSUME NEW r \in RevisionIds, NEW expected \in Lifecycle, NEW gate \in BOOLEAN,
             WarmRevision(r, expected, gate)
      PROVE  EngineInv'
  <2>1. revisions[r] # None /\ revisions[r].lifecycle \in Lifecycle
    BY <1>0, <1>6 DEF WarmRevision, TypeOK, Revision
  <2>2. revisions[r].lifecycle \in {"Staged", "Ready"}
    BY <1>6, <2>1, Walks DEF WarmRevision, NoTransientLifecycle
  <2>3. Routed(r) => revisions[r].lifecycle = "Ready"
    BY <2>2 DEF Routed, RoutedServing
  <2>4. PICK to \in {"Ready", "Failed"} :
          SetLifecycle(r, to) /\ (revisions[r].lifecycle = "Ready" => to = "Ready")
    BY <1>6 DEF WarmRevision
  <2>5. to \in Lifecycle
    BY DEF Lifecycle
  <2> QED
    BY <1>6, <2>1, <2>3, <2>4, <2>5, LifecycleWrite DEF WarmRevision
<1>7. ASSUME NEW r \in RevisionIds, DrainRevision(r)
      PROVE  EngineInv'
  <2>1. "Draining" \in Lifecycle
    BY DEF Lifecycle
  <2> QED
    BY <1>7, <2>1, LifecycleWrite DEF DrainRevision
<1>8. ASSUME NEW r \in RevisionIds, ArchiveRevision(r)
      PROVE  EngineInv'
  <2>1. "Archived" \in Lifecycle
    BY DEF Lifecycle
  <2> QED
    BY <1>8, <2>1, LifecycleWrite DEF ArchiveRevision
<1>9. ASSUME NEW d \in DeploymentIds, NEW entries \in EntryLists, NEW key \in Keys,
             SetTrafficSplit(d, entries, key)
      PROVE  EngineInv'
  <2>1. UNCHANGED <<bundles, revisions, minted>>
    BY <1>9 DEF SetTrafficSplit
  <2>2. RevisionsOwned' /\ DeploymentsMinted' /\ NoTransientLifecycle'
        /\ SequencesDistinct' /\ OneDeploymentPerCustomer'
    BY <2>1 DEF RevisionsOwned, DeploymentsMinted, NoTransientLifecycle, SequencesDistinct,
                OneDeploymentPerCustomer
  <2>3. CASE CarriesKey(d, key)
    <3>1. UNCHANGED traffic_splits
      BY <1>9, <2>3 DEF SetTrafficSplit
    <3> QED
      BY <1>0, <2>1, <2>2, <3>1 DEF SplitsOwned, StashOwned, RoutedServing, RollbackTarget,
                                    RoutedBy, EntriesValid
  <2>4. CASE ~CarriesKey(d, key)
    <3> DEFINE old == traffic_splits[d]
               new == [bundle_id |-> bundles[d].bundle_id,
                       generation |-> IF old = None THEN 0 ELSE old.generation + 1,
                       entries |-> entries, idempotency_key |-> Stamped(key),
                       previous |-> IF old = None THEN None ELSE StashOf(old)]
    <3>1. \A x \in DeploymentIds :
            traffic_splits'[x] = IF x = d THEN new ELSE traffic_splits[x]
      BY <1>0, <1>9, <2>4 DEF SetTrafficSplit, TypeOK
    <3>2. bundles[d] # None /\ EntriesValid(entries)
      BY <1>9, <2>4 DEF SetTrafficSplit
    <3>3. \A i \in DOMAIN entries :
            /\ revisions[entries[i].revision_id] # None
            /\ revisions[entries[i].revision_id].deployment_id = d
            /\ revisions[entries[i].revision_id].lifecycle = "Ready"
      BY <1>9, <2>4 DEF SetTrafficSplit, AllReady
    <3>4. /\ new.entries = entries
          /\ new.bundle_id = bundles[d].bundle_id
          /\ old = None => new.previous = None
          /\ old # None => /\ new.previous = StashOf(old)
                           /\ new.generation = old.generation + 1
      OBVIOUS
    <3>5. /\ StashOf(old).entries = old.entries
          /\ StashOf(old).bundle_id = old.bundle_id
          /\ StashOf(old).generation = old.generation
      BY DEF StashOf
    <3> HIDE DEF new
    <3>6. SplitsOwned'
      BY <2>1, <3>1, <3>2, <3>4 DEF SplitsOwned, EntriesValid
    <3>7. StashOwned'
      BY <2>1, <3>1, <3>4, <3>5 DEF StashOwned, RoutedServing, RoutedBy
    <3>8. RoutedServing'
      BY <2>1, <3>1, <3>3, <3>4 DEF RoutedServing, RoutedBy
    <3>9. RollbackTarget'
      BY <3>1, <3>4, <3>5 DEF RollbackTarget, SplitsOwned, EntriesValid
    <3> QED
      BY <1>0, <2>2, <3>6, <3>7, <3>8, <3>9
  <2> QED
    BY <2>3, <2>4
<1>10. ASSUME NEW d \in DeploymentIds, RollbackTrafficSplit(d)
       PROVE  EngineInv'
  <2> DEFINE live == traffic_splits[d]
             back == live.previous
             new == [bundle_id |-> back.bundle_id, generation |-> live.generation + 1,
                     entries |-> back.entries,
                     idempotency_key |-> RollbackKey(live.idempotency_key),
                     previous |-> None]
  <2>1. UNCHANGED <<bundles, revisions, minted>>
    BY <1>10 DEF RollbackTrafficSplit
  <2>2. \A x \in DeploymentIds :
          traffic_splits'[x] = IF x = d THEN new ELSE traffic_splits[x]
    BY <1>0, <1>10 DEF RollbackTrafficSplit, TypeOK
  <2>3. live # None /\ back # None /\ EntriesValid(back.entries) /\ AllReady(back.entries)
    BY <1>10 DEF RollbackTrafficSplit
  <2>4. new.entries = back.entries /\ new.bundle_id = back.bundle_id /\ new.previous = None
    OBVIOUS
  <2>5. RevisionsOwned' /\ DeploymentsMinted' /\ NoTransientLifecycle'
        /\ SequencesDistinct' /\ OneDeploymentPerCustomer'
    BY <2>1 DEF RevisionsOwned, DeploymentsMinted, NoTransientLifecycle, SequencesDistinct,
                OneDeploymentPerCustomer
  <2> HIDE DEF new
  <2>6. SplitsOwned'
    BY <2>1, <2>2, <2>3, <2>4 DEF SplitsOwned, RollbackTarget, EntriesValid
  <2>7. StashOwned' /\ RollbackTarget'
    BY <2>1, <2>2, <2>4 DEF StashOwned, RollbackTarget, RoutedBy, EntriesValid
  <2>8. RoutedServing'
    BY <2>1, <2>2, <2>3, <2>4 DEF RoutedServing, StashOwned, AllReady, RoutedBy
  <2> QED
    BY <1>0, <2>5, <2>6, <2>7, <2>8
<1>11. ASSUME UNCHANGED <<bundles, revisions, traffic_splits, minted>>
       PROVE  EngineInv'
  BY <1>0, <1>11 DEF RevisionsOwned, DeploymentsMinted, SplitsOwned, StashOwned,
    NoTransientLifecycle, RoutedServing, SequencesDistinct, RollbackTarget,
    OneDeploymentPerCustomer, RoutedBy, EntriesValid
<1>12. EndpointVerb \/ UNCHANGED vars
         => UNCHANGED <<bundles, revisions, traffic_splits, minted>>
  BY DEF EndpointVerb, AddEndpoint, LinkBundle, UnlinkBundle, SetWelcomeFlow, RemoveEndpoint,
         vars
<1> QED
  BY <1>1, <1>2, <1>3, <1>4, <1>5, <1>6, <1>7, <1>8, <1>9, <1>10, <1>11, <1>12
  DEF Next, BundleVerb, RevisionVerb, TrafficVerb

\* A fresh environment satisfies the invariant.
LEMMA EngineInvInit == Init => EngineInv
BY TypeInvInit DEF Init, EngineInv, OwnershipInv, LifecycleInv, RevisionsOwned, DeploymentsMinted,
  SplitsOwned, StashOwned, NoTransientLifecycle, RoutedServing, SequencesDistinct,
  RollbackTarget, OneDeploymentPerCustomer

\* The inductive invariant holds in every document the stores can save.
THEOREM EngineInvariant == Spec => []EngineInv
BY EngineInvInit, EngineInvStep, PTL DEF Spec

\* No sequence of verbs routes traffic to a revision that is not serving.
THEOREM RoutedServingHolds == Spec => []RoutedServing
<1>1. EngineInv => RoutedServing
  BY DEF EngineInv, LifecycleInv
<1> QED
  BY <1>1, EngineInvariant, PTL

\* No sequence of verbs leaves a revision behind its deployment.
THEOREM RevisionsOwnedHolds == Spec => []RevisionsOwned
<1>1. EngineInv => RevisionsOwned
  BY DEF EngineInv, OwnershipInv
<1> QED
  BY <1>1, EngineInvariant, PTL

\* No saved document shows a revision between two hops of a chain.
THEOREM NoTransientLifecycleHolds == Spec => []NoTransientLifecycle
<1>1. EngineInv => NoTransientLifecycle
  BY DEF EngineInv, LifecycleInv
<1> QED
  BY <1>1, EngineInvariant, PTL

\* No two revisions of a deployment ever share a sequence number.
THEOREM SequencesDistinctHolds == Spec => []SequencesDistinct
<1>1. EngineInv => SequencesDistinct
  BY DEF EngineInv, LifecycleInv
<1> QED
  BY <1>1, EngineInvariant, PTL

\* The stash of a live split is always the complete split one generation back.
THEOREM RollbackTargetHolds == Spec => []RollbackTarget
<1>1. EngineInv => RollbackTarget
  BY DEF EngineInv
<1> QED
  BY <1>1, EngineInvariant, PTL

\* A (bundle, customer) pair never has two deployments.
THEOREM OneDeploymentPerCustomerHolds == Spec => []OneDeploymentPerCustomer
<1>1. EngineInv => OneDeploymentPerCustomer
  BY DEF EngineInv
<1> QED
  BY <1>1, EngineInvariant, PTL

\* The document stays well-formed under every sequence of verbs.
THEOREM DocumentSoundHolds == Spec => []DocumentSound
<1>1. EngineInv => DocumentSound
  BY DEF EngineInv, TypeInv, OwnershipInv, LifecycleInv, DocumentSound
<1> QED
  BY <1>1, EngineInvariant, PTL

-----------------------------------------------------------------------------
(* What a step may never do.                                               *)

\* Traffic splits change in four ways only: set installs a split of Ready
\* entries under a fresh key, rollback re-installs the Ready stash under a
\* marked key, a removal drops the split, and every other verb leaves it.
LEMMA SplitSteps ==
  ASSUME EngineInv, Next, NEW d \in DeploymentIds,
         traffic_splits'[d] # traffic_splits[d], traffic_splits'[d] # None
  PROVE  /\ AllReady(traffic_splits'[d].entries)
         /\ traffic_splits[d] # None =>
              /\ traffic_splits'[d].generation = traffic_splits[d].generation + 1
              /\ traffic_splits'[d].idempotency_key # traffic_splits[d].idempotency_key
<1>0. TypeOK
  BY DEF EngineInv, TypeInv
<1>1. ~ UNCHANGED traffic_splits
  OBVIOUS
<1>2. PICK c \in DeploymentIds :
        \/ ClearTrafficSplit(c) \/ BeginRetire(c) \/ RollbackTrafficSplit(c)
        \/ \E entries \in EntryLists, key \in Keys : SetTrafficSplit(c, entries, key)
  BY <1>1 DEF Next, BundleVerb, RevisionVerb, TrafficVerb, EndpointVerb, AddBundle, UpdateBundle,
    RemoveBundle, StageRevision, WarmRevision, DrainRevision, ArchiveRevision, AddEndpoint,
    LinkBundle, UnlinkBundle, SetWelcomeFlow, RemoveEndpoint
<1>3. CASE ClearTrafficSplit(c) \/ BeginRetire(c)
  BY <1>0, <1>3 DEF ClearTrafficSplit, BeginRetire, TypeOK
<1>4. CASE RollbackTrafficSplit(c)
  <2>1. c = d
    BY <1>0, <1>4 DEF RollbackTrafficSplit, TypeOK
  <2>2. traffic_splits[d] # None /\ AllReady(traffic_splits[d].previous.entries)
    BY <1>4, <2>1 DEF RollbackTrafficSplit
  <2>3. /\ traffic_splits'[d].entries = traffic_splits[d].previous.entries
        /\ traffic_splits'[d].generation = traffic_splits[d].generation + 1
        /\ traffic_splits'[d].idempotency_key = RollbackKey(traffic_splits[d].idempotency_key)
    BY <1>0, <1>4, <2>1 DEF RollbackTrafficSplit, TypeOK
  <2>4. traffic_splits[d].idempotency_key \in StampedKey
    BY <1>0, <2>2 DEF TypeOK, Split
  <2>5. \A stamped \in StampedKey : RollbackKey(stamped).rollbacks # stamped.rollbacks
    BY DEF RollbackKey, StampedKey
  <2> QED
    BY <2>2, <2>3, <2>4, <2>5
<1>5. CASE \E entries \in EntryLists, key \in Keys : SetTrafficSplit(c, entries, key)
  <2>1. PICK entries \in EntryLists, key \in Keys : SetTrafficSplit(c, entries, key)
    BY <1>5
  <2>2. ~CarriesKey(c, key)
    BY <1>1, <2>1 DEF SetTrafficSplit
  <2>3. c = d
    BY <1>0, <2>1, <2>2 DEF SetTrafficSplit, TypeOK
  <2>4. AllReady(entries)
    BY <2>1, <2>2 DEF SetTrafficSplit
  <2>5. /\ traffic_splits'[d].entries = entries
        /\ traffic_splits'[d].idempotency_key = Stamped(key)
        /\ traffic_splits[d] # None =>
             traffic_splits'[d].generation = traffic_splits[d].generation + 1
    BY <1>0, <2>1, <2>2, <2>3 DEF SetTrafficSplit, TypeOK
  <2> QED
    BY <2>2, <2>3, <2>4, <2>5 DEF CarriesKey
<1> QED
  BY <1>2, <1>3, <1>4, <1>5

\* Whatever changes a deployment's routes sends traffic to revisions that are
\* Ready at that moment, one generation further.
THEOREM AdmissionHolds == Spec => Admission
<1>1. ASSUME EngineInv, [Next]_vars
      PROVE  [AdmissionStep]_vars
  <2>1. CASE UNCHANGED vars
    BY <2>1
  <2>2. CASE Next
    <3>1. SUFFICES ASSUME NEW d \in DeploymentIds,
                          traffic_splits'[d] # None, traffic_splits'[d] # traffic_splits[d]
                   PROVE  /\ \A r \in RoutedBy(traffic_splits[d])' :
                               revisions[r].lifecycle = "Ready"
                          /\ traffic_splits[d] # None =>
                               traffic_splits'[d].generation = traffic_splits[d].generation + 1
      BY DEF AdmissionStep
    <3>2. /\ AllReady(traffic_splits'[d].entries)
          /\ traffic_splits[d] # None =>
               traffic_splits'[d].generation = traffic_splits[d].generation + 1
      BY <1>1, <2>2, <3>1, SplitSteps
    <3> QED
      BY <3>2 DEF AllReady, RoutedBy
  <2> QED
    BY <1>1, <2>1, <2>2
<1> QED
  BY <1>1, EngineInvariant, PTL DEF Spec, Admission

\* A retry under the live split's key never changes what the split routes.
THEOREM LiveKeyIsStableHolds == Spec => LiveKeyIsStable
<1>1. ASSUME EngineInv, [Next]_vars
      PROVE  [ReplayStep]_vars
  <2>1. CASE UNCHANGED vars
    BY <2>1
  <2>2. CASE Next
    BY <1>1, <2>2, SplitSteps DEF ReplayStep
  <2> QED
    BY <1>1, <2>1, <2>2
<1> QED
  BY <1>1, EngineInvariant, PTL DEF Spec, LiveKeyIsStable

\* An archived revision is final, and goes only with its deployment.
THEOREM ArchivedIsFinalHolds == Spec => ArchivedIsFinal
<1>1. ASSUME EngineInv, [Next]_vars
      PROVE  [ArchivedStep]_vars
  <2>0. TypeOK
    BY <1>1 DEF EngineInv, TypeInv
  <2>1. SUFFICES ASSUME Next, NEW q \in RevisionIds, revisions[q] # None,
                        revisions[q].lifecycle = "Archived", revisions'[q] # revisions[q]
                 PROVE  /\ revisions'[q] = None
                        /\ bundles'[revisions[q].deployment_id] = None
                        /\ revisions[q].deployment_id \in minted'
    BY <1>1 DEF ArchivedStep
  <2>2. ~ UNCHANGED revisions
    BY <2>1
  <2>3. revisions[q] \in Revision
    BY <2>0, <2>1 DEF TypeOK
  <2>4. ASSUME NEW r \in RevisionIds, NEW d \in DeploymentIds, NEW packs \in SUBSET PackIds,
               StageRevision(r, d, packs)
        PROVE  FALSE
    BY <2>0, <2>1, <2>4 DEF StageRevision, TypeOK
  <2>5. ASSUME NEW r \in RevisionIds, NEW expected \in Lifecycle, NEW gate \in BOOLEAN,
               WarmRevision(r, expected, gate)
        PROVE  FALSE
    <3>1. r = q
      BY <2>0, <2>1, <2>5 DEF WarmRevision, SetLifecycle, TypeOK
    <3> QED
      BY <2>1, <2>5, <3>1 DEF WarmRevision, WarmWalk, Hop
  <2>6. ASSUME NEW r \in RevisionIds, DrainRevision(r) \/ ArchiveRevision(r)
        PROVE  FALSE
    <3>1. r = q
      BY <2>0, <2>1, <2>6 DEF DrainRevision, ArchiveRevision, SetLifecycle, TypeOK
    <3>2. ArchiveRevision(q)
      BY <2>1, <2>6, <3>1 DEF DrainRevision, DrainWalk, Hop
    <3>3. revisions'[q] = [revisions[q] EXCEPT !.lifecycle = "Archived"]
      BY <2>0, <3>2 DEF ArchiveRevision, SetLifecycle, TypeOK
    <3>4. revisions'[q] = revisions[q]
      BY <2>1, <2>3, <3>3 DEF Revision
    <3> QED
      BY <2>1, <3>4
  <2>7. ASSUME NEW d \in DeploymentIds, RemoveBundle(d)
        PROVE  /\ revisions'[q] = None
               /\ bundles'[revisions[q].deployment_id] = None
               /\ revisions[q].deployment_id \in minted'
    <3>1. q \in RevisionsOf(d) /\ revisions'[q] = None
      BY <2>1, <2>7 DEF RemoveBundle
    <3>2. revisions[q].deployment_id = d
      BY <3>1 DEF RevisionsOf
    <3>3. bundles'[d] = None
      BY <2>0, <2>7 DEF RemoveBundle, TypeOK
    <3>4. d \in minted'
      BY <1>1, <2>7 DEF RemoveBundle, EngineInv, OwnershipInv, DeploymentsMinted
    <3> QED
      BY <3>1, <3>2, <3>3, <3>4
  <2> QED
    BY <2>1, <2>2, <2>4, <2>5, <2>6, <2>7
    DEF Next, BundleVerb, RevisionVerb, TrafficVerb, EndpointVerb, AddBundle, UpdateBundle,
      ClearTrafficSplit, BeginRetire, SetTrafficSplit, RollbackTrafficSplit, AddEndpoint,
      LinkBundle, UnlinkBundle, SetWelcomeFlow, RemoveEndpoint
<1> QED
  BY <1>1, EngineInvariant, PTL DEF Spec, ArchivedIsFinal

\* No endpoint is ever left linked to a bundle that no deployment carries.
THEOREM NoStrandedEndpointHolds == Spec => []NoStrandedEndpoint
<1>1. Init => NoStrandedEndpoint
  BY DEF Init, NoStrandedEndpoint
<1>2. Validate => NoStrandedEndpoint
  BY DEF Validate, EndpointValid, DeployedBundles, NoStrandedEndpoint
<1>3. NoStrandedEndpoint /\ [Next]_vars => NoStrandedEndpoint'
  <2>1. CASE Next
    <3>1. Validate'
      BY <2>1 DEF Next
    <3> QED
      BY <3>1, <1>2, PTL
  <2>2. CASE UNCHANGED vars
    BY <2>2 DEF vars, NoStrandedEndpoint
  <2> QED
    BY <2>1, <2>2
<1> QED
  BY <1>1, <1>3, PTL DEF Spec

-----------------------------------------------------------------------------
(* A retire works on the document only through the engine's verbs: the     *)
(* composed specification implements the engine, whatever the interleaving *)
(* of retires, drain threads, reconciles and crashes.                      *)

\* The steps of the run that write the document are steps of the engine.
LEMMA DocumentSteps ==
  /\ \A d \in DeploymentIds : RetireBegin(d) \/ RetireRemove(d) => Next
  /\ \A r \in RevisionIds : RetireStamp(r) \/ RetireArchive(r) => [Next]_vars
<1>1. ASSUME NEW d \in DeploymentIds, RetireBegin(d) \/ RetireRemove(d) PROVE Next
  BY <1>1 DEF RetireBegin, RetireRemove, Next, BundleVerb
<1>2. ASSUME NEW r \in RevisionIds, RetireStamp(r) \/ RetireArchive(r) PROVE [Next]_vars
  BY <1>2 DEF RetireStamp, RetireArchive, Next, RevisionVerb
<1> QED BY <1>1, <1>2

\* Every step of the composition is a step of the engine or leaves the
\* document alone.
LEMMA StepSimulation == [RetireNext]_retireVars => [Next]_vars
<1> SUFFICES ASSUME [RetireNext]_retireVars PROVE [Next]_vars
  OBVIOUS
<1>1. CASE UNCHANGED retireVars
  BY <1>1 DEF retireVars
<1>2. CASE \E d \in DeploymentIds : RequestRetire(d)
  BY <1>2 DEF RequestRetire
<1>3. CASE RetireStep
  <2>1. CASE \E d \in DeploymentIds : RetireBegin(d) \/ RetireRemove(d)
    BY <2>1, DocumentSteps
  <2>2. CASE \E r \in RevisionIds : RetireStamp(r) \/ RetireArchive(r)
    BY <2>2, DocumentSteps
  <2>3. CASE \E d \in DeploymentIds : RetireAbsent(d)
    BY <2>3 DEF RetireAbsent
  <2>4. CASE RetireLoad \/ RetireSpawn \/ RetireDrained \/ RetireRefused
    BY <2>4 DEF RetireLoad, RetireSpawn, RetireDrained, RetireRefused
  <2>5. CASE \E r \in RevisionIds : HookStep(r) \/ RetireGate(r) \/ RetireDelete(r)
    BY <2>5 DEF HookStep, HookLoad, HookPush, HookReadBack, HookScale, HookConfirm,
                RetireGate, RetireDelete
  <2> QED BY <1>3, <2>1, <2>2, <2>3, <2>4, <2>5 DEF RetireStep, RetireAdvance
<1>4. CASE RetireInterrupted \/ \E r \in RevisionIds : HookTimeout(r)
  BY <1>4 DEF RetireInterrupted, HookTimeout
<1>5. CASE ReconcileStep
  BY <1>5 DEF ReconcileStep, ReconcileLoad, ReconcilePush, ReconcileEnd,
              ReconcileApply, ReconcilePrune
<1>6. CASE OtherVerb
  BY <1>6 DEF OtherVerb
<1> QED BY <1>1, <1>2, <1>3, <1>4, <1>5, <1>6 DEF RetireNext

\* The composition implements the engine: initial states are initial states
\* and every step is a step or a stutter.
THEOREM RetireImplementsEngine == RetireSpec => ImplementsEngine
<1>1. RetireInit => Init
  BY DEF RetireInit
<1> QED BY <1>1, StepSimulation, PTL DEF RetireSpec, Spec, ImplementsEngine

-----------------------------------------------------------------------------
(* The retire's own safety.  The recorded lifecycle is the lock between    *)
(* steps that hold none: once a revision is Draining or Archived, or its   *)
(* id is spent, no verb routes to it again.                                *)

\* No verb can make the revision Ready again.
Quenched(r) ==
  IF revisions[r] = None THEN r \in staged
  ELSE revisions[r].lifecycle \in {"Draining", "Archived"}

\* The recorded splits do not weight it either, and never will.
Stopping(r) == Quenched(r) /\ r \notin Weighted

\* The run works for somebody, alone unless reconciles may overlap, and from
\* the second load on it has its lists: what is stamped is quenched, and the
\* order of the teardown is strict.
JobInv ==
  /\ job.pc # "idle" => job.d \in requested
  /\ job.pc # "idle" /\ ~Overlap => recon.pc = "idle"
  /\ job.pc \in {"stamp", "drain"} => \A r \in job.drains \ job.stamps : Quenched(r)
  /\ job.pc = "drain" => job.stamps = {}
  /\ \A q, r \in job.teardown : job.order[q] = job.order[r] => q = r

\* A drain thread past its check of the split, and a worker scaled down.
StoppingInv ==
  /\ \A r \in RevisionIds : hook[r].pc \in {"loaded", "pushed", "waited"} => Stopping(r)
  /\ \A r \in RevisionIds : worker[r] = "stopped" => Stopping(r)
  /\ \A r \in RevisionIds : worker[r] # "absent" => r \in staged
  /\ recon.up \subseteq staged

\* Of a retire left alone: every thread pushes the same split.
RouterInv ==
  beside = {} => \A r \in RevisionIds :
    /\ hook[r].pc = "loaded" => hook[r].seen = Weighted
    /\ hook[r].pc \in {"pushed", "waited"} => router = Weighted

\* Without reconciles during a retire: what left the teardown list, or was
\* staged since the load, has no worker; the gate still holds when the worker
\* is deleted, and the worker is still gone when the revision is archived.
TeardownInv ==
  ~Overlap =>
    /\ job.pc \notin {"idle", "load"} =>
         \A r \in RevisionsOf(job.d) \ job.teardown : worker[r] = "absent"
    /\ job.pc = "delete" /\ ~job.force =>
         \A r \in RevisionIds : NextOf(job.teardown, r) => r \notin router /\ worker[r] # "running"
    /\ job.pc = "archive" =>
         \A r \in RevisionIds : NextOf(job.teardown, r) => worker[r] = "absent"

RetireInv == RetireTypeOK /\ JobInv /\ StoppingInv /\ RouterInv /\ TeardownInv

-----------------------------------------------------------------------------
(* What every step does to the document.                                   *)

\* A revision keeps its deployment, and leaves Draining only to be archived.
LEMMA RevisionSteps ==
  ASSUME EngineInv, [Next]_vars, NEW r \in RevisionIds, revisions[r] # None, revisions'[r] # None
  PROVE  /\ revisions'[r].deployment_id = revisions[r].deployment_id
         /\ revisions[r].lifecycle \in {"Draining", "Archived"} =>
              revisions'[r].lifecycle \in {"Draining", "Archived"}
<1>0. TypeInv /\ TypeOK /\ revisions[r] \in Revision
  BY DEF EngineInv, TypeInv, TypeOK
<1>1. CASE revisions'[r] = revisions[r]
  BY <1>1
<1>2. CASE revisions'[r] # revisions[r]
  <2>1. PICK q \in RevisionIds :
          \/ \E d \in DeploymentIds, packs \in SUBSET PackIds : StageRevision(q, d, packs)
          \/ \E expected \in Lifecycle, gate \in BOOLEAN : WarmRevision(q, expected, gate)
          \/ DrainRevision(q)
          \/ ArchiveRevision(q)
    <3>1. revisions' # revisions
      BY <1>2
    <3>2. ASSUME NEW d \in DeploymentIds, RemoveBundle(d) PROVE FALSE
      BY <3>2, <1>2 DEF RemoveBundle
    <3> QED
      BY <3>1, <3>2 DEF Next, vars, BundleVerb, RevisionVerb, TrafficVerb, EndpointVerb, AddBundle, UpdateBundle,
        ClearTrafficSplit, BeginRetire, SetTrafficSplit, RollbackTrafficSplit, AddEndpoint,
        LinkBundle, UnlinkBundle, SetWelcomeFlow, RemoveEndpoint
  <2>2. ASSUME NEW d \in DeploymentIds, NEW packs \in SUBSET PackIds, StageRevision(q, d, packs) PROVE FALSE
    <3>1. PICK v : revisions' = [revisions EXCEPT ![q] = v] /\ revisions[q] = None
      BY <2>2 DEF StageRevision
    <3> QED  BY <3>1, <1>0, <1>2 DEF TypeOK
  <2>3. ASSUME NEW to \in Lifecycle, revisions[q] # None, SetLifecycle(q, to)
        PROVE  r = q /\ revisions'[r] = [revisions[r] EXCEPT !.lifecycle = to]
    BY <2>3, <1>0, <1>2, SetLifecycleType
  <2>4. ASSUME NEW to \in Lifecycle, revisions'[r] = [revisions[r] EXCEPT !.lifecycle = to]
        PROVE  revisions'[r].deployment_id = revisions[r].deployment_id /\ revisions'[r].lifecycle = to
    BY <2>4, <1>0 DEF Revision
  <2>5. revisions[r].lifecycle \in Lifecycle
    BY <1>0 DEF Revision
  <2>6. CASE \E expected \in Lifecycle, gate \in BOOLEAN : WarmRevision(q, expected, gate)
    <3>1. PICK to \in {"Ready", "Failed"} :
            revisions[q] # None /\ SetLifecycle(q, to) /\ WarmWalk(revisions[q].lifecycle) = "Ready"
      BY <2>6 DEF WarmRevision
    <3>2. to \in Lifecycle
      BY DEF Lifecycle
    <3>3. revisions[r].lifecycle \notin {"Draining", "Archived"}
      BY <3>1, <3>2, <2>3, <2>5, Walks
    <3> QED  BY <3>1, <3>2, <3>3, <2>3, <2>4
  <2>7. CASE DrainRevision(q)
    BY <2>7, <2>3, <2>4 DEF DrainRevision, Lifecycle
  <2>8. CASE ArchiveRevision(q)
    BY <2>8, <2>3, <2>4 DEF ArchiveRevision, Lifecycle
  <2> QED  BY <2>1, <2>2, <2>6, <2>7, <2>8
<1> QED  BY <1>1, <1>2

\* The document moves by a verb, and only ids not minted before are staged.
DocStep ==
  /\ [Next]_vars
  /\ Known' \ Known \subseteq RevisionIds \ staged
  /\ staged \subseteq staged'

\* What is weighted after a verb was weighted before, or was Ready.
LEMMA WeightedSteps ==
  ASSUME EngineInv, [Next]_vars, NEW r, r \in Weighted', r \notin Weighted
  PROVE  revisions[r] # None /\ revisions[r].lifecycle = "Ready"
<1>1. PICK d \in DeploymentIds : traffic_splits'[d] # None /\ \E i \in DOMAIN traffic_splits'[d].entries :
        /\ traffic_splits'[d].entries[i].weight_bps > 0
        /\ r = traffic_splits'[d].entries[i].revision_id
  BY DEF Weighted
<1>2. traffic_splits'[d] # traffic_splits[d]
  BY <1>1 DEF Weighted
<1>3. Next
  BY <1>2 DEF vars
<1>4. AllReady(traffic_splits'[d].entries)
  BY <1>1, <1>2, <1>3, SplitSteps
<1> QED  BY <1>1, <1>4 DEF AllReady

\* Such steps leave a quenched revision quenched, one out of traffic out of
\* traffic, and add to a deployment only revisions with a fresh id.
LEMMA DocKeeps ==
  ASSUME EngineInv, Known \subseteq staged, DocStep, NEW r \in RevisionIds
  PROVE  /\ Quenched(r) => Quenched(r)'
         /\ Stopping(r) => Stopping(r)'
         /\ \A d \in DeploymentIds : r \in RevisionsOf(d)' => r \in RevisionsOf(d) \/ r \notin staged
<1>1. Quenched(r) => Quenched(r)'
  <2>1. revisions[r] # None /\ revisions'[r] = None => r \in staged'
    BY DEF DocStep, Known
  <2>2. revisions[r] = None /\ r \in staged => revisions'[r] = None /\ r \in staged'
    BY DEF DocStep, Known
  <2> QED  BY <2>1, <2>2, RevisionSteps DEF Quenched, DocStep
<1>2. Stopping(r) => Stopping(r)'
  BY <1>1, WeightedSteps DEF Stopping, Quenched, DocStep
<1>3. ASSUME NEW d \in DeploymentIds, r \in RevisionsOf(d)', r \in staged PROVE r \in RevisionsOf(d)
  <2>1. revisions'[r] # None /\ revisions'[r].deployment_id = d
    BY <1>3 DEF RevisionsOf
  <2>2. revisions[r] # None
    BY <2>1, <1>3 DEF DocStep, Known
  <2> QED  BY <2>1, <2>2, RevisionSteps DEF DocStep, RevisionsOf
<1> QED  BY <1>1, <1>2, <1>3

\* Every step of the composition is such a step.
LEMMA EveryDocStep ==
  ASSUME EngineInv, Known \subseteq staged, staged \subseteq RevisionIds, [RetireNext]_retireVars
  PROVE  DocStep /\ Known' \subseteq staged' /\ staged' \subseteq RevisionIds
<1>1. [Next]_vars
  BY StepSimulation
<1>2. Known' \subseteq RevisionIds
  BY DEF Known
<1>3. CASE OtherVerb
  BY <1>1, <1>2, <1>3 DEF OtherVerb, DocStep
<1>4. ASSUME UNCHANGED staged, Known' \subseteq Known
      PROVE  DocStep /\ Known' \subseteq staged' /\ staged' \subseteq RevisionIds
  BY <1>1, <1>4 DEF DocStep
<1>5. ASSUME UNCHANGED revisions PROVE Known' \subseteq Known
  BY <1>5 DEF Known
<1>6. ASSUME NEW r \in RevisionIds, DrainRevision(r) \/ ArchiveRevision(r) PROVE Known' \subseteq Known
  <2>1. TypeOK /\ revisions[r] # None
    BY <1>6 DEF EngineInv, TypeInv, DrainRevision, ArchiveRevision
  <2> QED  BY <1>6, <2>1 DEF Known, DrainRevision, ArchiveRevision, SetLifecycle, TypeOK
<1>7. ASSUME NEW d \in DeploymentIds, RemoveBundle(d) PROVE Known' \subseteq Known
  BY <1>7 DEF RemoveBundle, Known
<1>8. CASE UNCHANGED retireVars
  BY <1>4, <1>5, <1>8 DEF retireVars, vars
<1>9. CASE RetireStep
  <2>1. ASSUME NEW d \in DeploymentIds, RetireBegin(d) \/ RetireAbsent(d) \/ RetireRemove(d)
        PROVE  UNCHANGED staged /\ Known' \subseteq Known
    BY <2>1, <1>5, <1>7 DEF RetireBegin, RetireAbsent, RetireRemove, BeginRetire, vars
  <2>2. ASSUME NEW r \in RevisionIds, RetireStamp(r) \/ RetireArchive(r)
        PROVE  UNCHANGED staged /\ Known' \subseteq Known
    BY <2>2, <1>5, <1>6 DEF RetireStamp, RetireArchive, vars
  <2>3. ASSUME NEW r \in RevisionIds, HookStep(r) \/ RetireGate(r) \/ RetireDelete(r)
        PROVE  UNCHANGED staged /\ Known' \subseteq Known
    BY <2>3, <1>5 DEF HookStep, HookLoad, HookPush, HookReadBack, HookScale, HookConfirm,
      RetireGate, RetireDelete, vars
  <2>4. ASSUME RetireLoad \/ RetireSpawn \/ RetireDrained \/ RetireRefused
        PROVE  UNCHANGED staged /\ Known' \subseteq Known
    BY <2>4, <1>5 DEF RetireLoad, RetireSpawn, RetireDrained, RetireRefused, vars
  <2> QED  BY <1>4, <1>9, <2>1, <2>2, <2>3, <2>4 DEF RetireStep, RetireAdvance
<1>10. CASE RetireInterrupted \/ ReconcileStep \/ (\E r \in RevisionIds : HookTimeout(r))
            \/ (\E d \in DeploymentIds : RequestRetire(d))
  <2>1. UNCHANGED <<vars, staged>>
    BY <1>10 DEF RetireInterrupted, ReconcileStep, HookTimeout, RequestRetire, ReconcileLoad,
      ReconcilePush, ReconcileApply, ReconcilePrune, ReconcileEnd
  <2> QED  BY <2>1, <1>4, <1>5 DEF vars
<1> QED  BY <1>3, <1>8, <1>9, <1>10 DEF RetireNext

-----------------------------------------------------------------------------
(* Types of the retire.                                                    *)

\* Splits weight revision ids only.
LEMMA WeightedType == TypeOK => Weighted \subseteq RevisionIds
<1> SUFFICES ASSUME TypeOK, NEW d \in DeploymentIds, traffic_splits[d] # None,
                    NEW i \in DOMAIN traffic_splits[d].entries
             PROVE  traffic_splits[d].entries[i].revision_id \in RevisionIds
  BY DEF Weighted
<1> QED  BY RoutedType DEF RoutedBy

\* A run that is over, a thread that is not there, no reconcile.
LEMMA NothingTypes ==
  /\ NoJob \in Job /\ NoJob.pc = "idle" /\ NoJob.teardown = {}
  /\ NoHook \in Hook /\ NoHook.pc = "none"
  /\ NoReconcile \in Reconcile /\ NoReconcile.pc = "idle" /\ NoReconcile.up = {}
BY DEF NoJob, Job, JobState, NoHook, Hook, HookState, NoReconcile, Reconcile

\* The part of RetireTypeOK about a run and its threads.
ThreadsOK ==
  /\ job \in Job /\ hook \in [RevisionIds -> Hook]
  /\ \A r \in RevisionIds : hook[r].pc # "none" => job.pc = "drain" /\ r \in job.drains

\* A run that moves on while it has no threads.
LEMMA JobMoves ==
  ASSUME ThreadsOK, job.pc # "drain", job' \in Job, UNCHANGED hook
  PROVE  ThreadsOK'
BY DEF ThreadsOK

\* A run that is over.
LEMMA JobEnds ==
  ASSUME job' = NoJob, hook' = [r \in RevisionIds |-> NoHook]
  PROVE  ThreadsOK'
BY NothingTypes DEF ThreadsOK

\* A thread that moves.
LEMMA ThreadMoves ==
  ASSUME ThreadsOK, NEW r \in RevisionIds, hook[r].pc # "none", NEW h \in Hook,
         hook' = [hook EXCEPT ![r] = h], UNCHANGED job
  PROVE  ThreadsOK'
BY DEF ThreadsOK

\* Every step of the composition keeps the run and its threads in shape.
LEMMA ThreadsStep ==
  ASSUME TypeOK, ThreadsOK, [RetireNext]_retireVars PROVE ThreadsOK'
<1>1. CASE UNCHANGED <<job, hook>>
  BY <1>1 DEF ThreadsOK
<1>2. ASSUME NEW d \in DeploymentIds, RetireBegin(d) PROVE ThreadsOK'
  <2>1. PICK force \in BOOLEAN : job' = [NoJob EXCEPT !.pc = "load", !.d = d, !.force = force]
    BY <1>2, RetireAssumption DEF RetireBegin
  <2>2. job' \in Job
    BY <2>1, NothingTypes DEF Job, JobState
  <2> QED  BY <2>2, <1>2, JobMoves DEF RetireBegin
<1>3. CASE RetireLoad
  <2>1. \A r \in RevisionsOf(job.d) : revisions[r].sequence \in Nat
    BY DEF RevisionsOf, TypeOK, Revision
  <2>2. RevisionOrder(RevisionsOf(job.d)) \in [RevisionIds -> Nat]
    BY <2>1 DEF RevisionOrder
  <2>3. PICK ready, draining, archive : /\ ready \subseteq RevisionIds /\ draining \subseteq RevisionIds
               /\ archive \subseteq RevisionIds
               /\ job' = [job EXCEPT !.pc = "stamp", !.stamps = ready, !.drains = ready \cup draining,
                            !.teardown = RevisionsOf(job.d), !.archive = archive,
                            !.order = RevisionOrder(RevisionsOf(job.d))]
    <3>1. RevisionsOf(job.d) \subseteq RevisionIds
      BY DEF RevisionsOf
    <3> QED  BY <1>3, <3>1 DEF RetireLoad
  <2>4. job' \in Job
    <3>1. RevisionsOf(job.d) \subseteq RevisionIds
      BY DEF RevisionsOf
    <3> QED  BY <2>2, <2>3, <3>1 DEF ThreadsOK, Job, JobState
  <2> QED  BY <2>4, <1>3, JobMoves DEF RetireLoad
<1>4. ASSUME NEW r \in RevisionIds, RetireStamp(r) PROVE ThreadsOK'
  <2>1. job' \in Job
    BY <1>4 DEF RetireStamp, ThreadsOK, Job
  <2> QED  BY <2>1, <1>4, JobMoves DEF RetireStamp
<1>5. CASE RetireSpawn
  <2>1. job' \in Job /\ job'.pc = "drain" /\ job'.drains = job.drains
    BY <1>5 DEF RetireSpawn, ThreadsOK, Job, JobState
  <2>2. [NoHook EXCEPT !.pc = "spawned"] \in Hook
    BY NothingTypes DEF Hook, HookState
  <2>3. hook' \in [RevisionIds -> Hook] /\ \A r \in RevisionIds : hook'[r].pc # "none" => r \in job.drains
    BY <1>5, <2>2, NothingTypes DEF RetireSpawn
  <2> QED  BY <2>1, <2>3 DEF ThreadsOK
<1>6. ASSUME NEW r \in RevisionIds, HookStep(r) \/ HookTimeout(r) PROVE ThreadsOK'
  <2>1. Weighted \subseteq RevisionIds
    BY WeightedType
  <2>2. ASSUME NEW to \in HookState PROVE [hook[r] EXCEPT !.pc = to] \in Hook
    BY DEF ThreadsOK, Hook
  <2>3. PICK h \in Hook : hook' = [hook EXCEPT ![r] = h] /\ hook[r].pc # "none" /\ UNCHANGED job
    <3>1. CASE HookLoad(r)
      <4>1. hook[r].pc = "spawned" /\ UNCHANGED job
        BY <3>1 DEF HookLoad
      <4>2. PICK h : /\ hook' = [hook EXCEPT ![r] = h]
                     /\ h \in {[pc |-> "failed", seen |-> {}], [pc |-> "undrained", seen |-> {}],
                               [pc |-> "loaded", seen |-> Weighted]}
        BY <3>1 DEF HookLoad
      <4>3. h \in Hook
        BY <4>2, <2>1 DEF Hook, HookState
      <4> QED  BY <4>1, <4>2, <4>3
    <3>2. CASE HookPush(r) \/ HookReadBack(r) \/ HookScale(r) \/ HookConfirm(r) \/ HookTimeout(r)
      <4>1. hook[r].pc # "none" /\ UNCHANGED job
        BY <3>2 DEF HookPush, HookReadBack, HookScale, HookConfirm, HookTimeout
      <4>2. PICK to : /\ to \in {"pushed", "undrained", "waited", "scaled", "drained"}
                      /\ hook' = [hook EXCEPT ![r] = [hook[r] EXCEPT !.pc = to]]
        BY <3>2 DEF HookPush, HookReadBack, HookScale, HookConfirm, HookTimeout
      <4> QED  BY <4>1, <4>2, <2>2 DEF HookState
    <3> QED  BY <1>6, <3>1, <3>2 DEF HookStep
  <2> QED  BY <2>3, ThreadMoves
<1>7. CASE RetireDrained
  <2>1. job' \in Job
    BY <1>7 DEF RetireDrained, ThreadsOK, Job, JobState
  <2> QED  BY <1>7, <2>1, NothingTypes DEF RetireDrained, ThreadsOK
<1>8. ASSUME NEW r \in RevisionIds, RetireGate(r) \/ RetireDelete(r) \/ RetireArchive(r) PROVE ThreadsOK'
  <2>1. job' \in Job /\ job.pc # "drain" /\ UNCHANGED hook
    BY <1>8 DEF RetireGate, RetireDelete, RetireArchive, ThreadsOK, Job, JobState
  <2> QED  BY <2>1, JobMoves
<1>9. ASSUME NEW d \in DeploymentIds, RetireRemove(d) PROVE ThreadsOK'
  BY <1>9, NothingTypes, JobMoves DEF RetireRemove
<1>10. CASE RetireRefused \/ RetireInterrupted
  BY <1>10, JobEnds DEF RetireRefused, RetireInterrupted
<1>11. CASE ReconcileStep \/ OtherVerb \/ (\E d \in DeploymentIds : RequestRetire(d) \/ RetireAbsent(d))
  <2>1. UNCHANGED <<job, hook>>
    BY <1>11 DEF ReconcileStep, ReconcileLoad, ReconcilePush, ReconcileApply, ReconcilePrune,
      ReconcileEnd, OtherVerb, RequestRetire, RetireAbsent
  <2> QED  BY <1>1, <2>1
<1> QED
  BY <1>1, <1>2, <1>3, <1>4, <1>5, <1>6, <1>7, <1>8, <1>9, <1>10, <1>11
  DEF RetireNext, RetireStep, RetireAdvance, retireVars

\* The part of RetireTypeOK about the cluster, the requests and a reconcile.
ClusterOK ==
  /\ worker \in [RevisionIds -> WorkerState]
  /\ router \subseteq RevisionIds
  /\ requested \subseteq DeploymentIds
  /\ recon \in Reconcile
  /\ interruptions \in 0 .. MaxInterruptions
  /\ beside \in Besides

\* Every step of the composition keeps those in shape.
LEMMA ClusterStep ==
  ASSUME TypeOK, ThreadsOK, ClusterOK, [RetireNext]_retireVars PROVE ClusterOK'
<1>1. CASE UNCHANGED <<cluster, requested, recon, interruptions, beside>>
  BY <1>1 DEF ClusterOK, cluster
<1>2. ASSUME NEW d \in DeploymentIds, RequestRetire(d) \/ RetireAbsent(d) \/ RetireRemove(d) PROVE ClusterOK'
  BY <1>2 DEF RequestRetire, RetireAbsent, RetireRemove, ClusterOK, cluster
<1>3. ASSUME NEW r \in RevisionIds, HookPush(r) PROVE ClusterOK'
  <2>1. hook[r].seen \subseteq RevisionIds
    BY DEF ThreadsOK, Hook
  <2> QED  BY <1>3, <2>1 DEF HookPush, ClusterOK
<1>4. ASSUME NEW r \in RevisionIds, HookScale(r) \/ RetireDelete(r) PROVE ClusterOK'
  BY <1>4 DEF HookScale, RetireDelete, ClusterOK, WorkerState
<1>5. ASSUME interruptions < MaxInterruptions, interruptions' = interruptions + 1,
             UNCHANGED <<cluster, requested, recon, beside>>
      PROVE  ClusterOK'
  BY <1>5, RetireAssumption DEF ClusterOK, cluster
<1>6. CASE RetireInterrupted \/ \E r \in RevisionIds : HookTimeout(r)
  BY <1>6, <1>5 DEF RetireInterrupted, HookTimeout
<1>7. CASE ReconcileLoad
  <2>1. recon' \in Reconcile
    BY <1>7, WeightedType DEF ReconcileLoad, Reconcile, Known
  <2> QED  BY <1>7, <2>1 DEF ReconcileLoad, ClusterOK, cluster
<1>8. CASE ReconcilePush
  BY <1>8 DEF ReconcilePush, ClusterOK, Reconcile
<1>9. ASSUME NEW r \in RevisionIds, ReconcileApply(r) \/ ReconcilePrune(r) PROVE ClusterOK'
  <2>1. recon' \in Reconcile
    BY <1>9 DEF ReconcileApply, ReconcilePrune, ClusterOK, Reconcile
  <2> QED  BY <1>9, <2>1 DEF ReconcileApply, ReconcilePrune, ClusterOK, WorkerState
<1>10. CASE ReconcileEnd
  BY <1>10, NothingTypes DEF ReconcileEnd, ClusterOK, cluster
<1>11. CASE OtherVerb \/ RetireLoad \/ RetireSpawn \/ RetireDrained \/ RetireRefused
            \/ \E d \in DeploymentIds : RetireBegin(d)
  BY <1>1, <1>11 DEF OtherVerb, RetireLoad, RetireSpawn, RetireDrained, RetireRefused, RetireBegin
<1>12. ASSUME NEW r \in RevisionIds,
              \/ HookLoad(r) \/ HookReadBack(r) \/ HookConfirm(r)
              \/ RetireStamp(r) \/ RetireGate(r) \/ RetireArchive(r)
       PROVE  ClusterOK'
  BY <1>1, <1>12 DEF HookLoad, HookReadBack, HookConfirm, RetireStamp, RetireGate, RetireArchive
<1> QED
  BY <1>1, <1>2, <1>3, <1>4, <1>6, <1>7, <1>8, <1>9, <1>10, <1>11, <1>12
  DEF RetireNext, RetireStep, RetireAdvance, HookStep, ReconcileStep, retireVars, cluster

\* RetireTypeOK is made of these and of the ids minted.
LEMMA RetireTypeParts ==
  ASSUME EngineInv, RetireTypeOK, [RetireNext]_retireVars
  PROVE  TypeOK /\ ThreadsOK /\ ClusterOK /\ RetireTypeOK' /\ DocStep
<1>1. TypeOK /\ ThreadsOK /\ ClusterOK
  BY DEF EngineInv, TypeInv, RetireTypeOK, ThreadsOK, ClusterOK
<1>2. ThreadsOK' /\ ClusterOK'
  BY <1>1, ThreadsStep, ClusterStep
<1>3. DocStep /\ Known' \subseteq staged' /\ staged' \subseteq RevisionIds
  BY EveryDocStep DEF RetireTypeOK
<1> QED  BY <1>1, <1>2, <1>3 DEF RetireTypeOK, ThreadsOK, ClusterOK

-----------------------------------------------------------------------------
(* The run.                                                                *)

\* Every step keeps what the run relies on.
LEMMA JobStep ==
  ASSUME EngineInv, RetireTypeOK, JobInv, [RetireNext]_retireVars PROVE JobInv'
<1>0. TypeOK /\ ThreadsOK /\ ClusterOK /\ DocStep /\ job \in Job
  BY RetireTypeParts DEF RetireTypeOK
<1>q. \A r \in RevisionIds : Quenched(r) => Quenched(r)'
  BY <1>0, DocKeeps DEF RetireTypeOK
<1>j. job.drains \subseteq RevisionIds /\ job.teardown \subseteq RevisionIds
  BY <1>0 DEF Job
<1>1. ASSUME job'.pc = "idle", job'.teardown = {} PROVE JobInv'
  BY <1>1 DEF JobInv
<1>2. CASE UNCHANGED <<job, requested, beside>> /\ (job.pc = "idle" \/ Overlap \/ recon' = recon)
  <2>1. job.pc \in {"stamp", "drain"} => \A r \in job.drains \ job.stamps : Quenched(r)'
    BY <1>j, <1>q DEF JobInv
  <2> QED  BY <1>2, <2>1 DEF JobInv, Overlap
<1>3. ASSUME NEW d \in DeploymentIds, RequestRetire(d) PROVE JobInv'
  BY <1>3 DEF RequestRetire, JobInv
<1>4. ASSUME NEW d \in DeploymentIds, RetireAbsent(d) PROVE JobInv'
  BY <1>4 DEF RetireAbsent, JobInv
<1>5. ASSUME NEW d \in DeploymentIds, RetireBegin(d) PROVE JobInv'
  <2>1. PICK force : job' = [NoJob EXCEPT !.pc = "load", !.d = d, !.force = force]
    BY <1>5 DEF RetireBegin
  <2>2. job'.pc = "load" /\ job'.d = d /\ job'.teardown = {}
    BY <2>1 DEF NoJob
  <2> QED  BY <2>2, <1>5 DEF RetireBegin, JobInv, Overlap
<1>6. CASE RetireLoad
  <2> DEFINE mine == RevisionsOf(job.d)
             ready == {r \in mine : revisions[r].lifecycle = "Ready"}
             draining == {r \in mine : revisions[r].lifecycle = "Draining"}
  <2>1. /\ job'.pc = "stamp" /\ job'.d = job.d /\ job'.stamps = ready
        /\ job'.drains = ready \cup draining /\ job'.teardown = mine
        /\ job'.order = RevisionOrder(mine)
        /\ UNCHANGED <<revisions, requested, recon, beside, staged>>
    BY <1>6, <1>0 DEF RetireLoad, Job, vars
  <2>2. \A r \in draining : Quenched(r)'
    BY <2>1 DEF Quenched, RevisionsOf
  <2>3. \A q, r \in mine : RevisionOrder(mine)[q] = RevisionOrder(mine)[r] => q = r
    BY DEF RevisionOrder, RevisionsOf, EngineInv, LifecycleInv, SequencesDistinct
  <2> QED  BY <1>6, <2>1, <2>2, <2>3 DEF RetireLoad, JobInv, Overlap
<1>7. ASSUME NEW r \in RevisionIds, RetireStamp(r) PROVE JobInv'
  <2>1. /\ job'.pc = "stamp" /\ job'.d = job.d /\ job'.stamps = job.stamps \ {r}
        /\ job'.drains = job.drains /\ job'.teardown = job.teardown /\ job'.order = job.order
        /\ job.pc = "stamp" /\ UNCHANGED <<requested, recon, beside>>
    BY <1>7, <1>0 DEF RetireStamp, Job
  <2>2. Quenched(r)'
    <3>1. TypeInv /\ revisions[r] # None /\ SetLifecycle(r, "Draining")
      BY <1>7 DEF EngineInv, RetireStamp, DrainRevision
    <3>2. revisions[r] \in Revision /\ revisions'[r] = [revisions[r] EXCEPT !.lifecycle = "Draining"]
          /\ revisions'[r] # None
      BY <3>1, SetLifecycleType, NoneAssumption DEF Lifecycle
    <3> QED  BY <3>2 DEF Quenched, Revision
  <2>3. \A q \in job'.drains \ job'.stamps : Quenched(q)'
    BY <2>1, <2>2, <1>j, <1>q DEF JobInv
  <2> QED  BY <2>1, <2>3 DEF JobInv, Overlap
<1>8. CASE RetireSpawn
  <2>1. /\ job'.pc = "drain" /\ job.pc = "stamp" /\ job'.d = job.d /\ job'.stamps = {} /\ job.stamps = {}
        /\ job'.drains = job.drains /\ job'.teardown = job.teardown /\ job'.order = job.order
        /\ UNCHANGED <<requested, recon, beside>>
    BY <1>8, <1>0 DEF RetireSpawn, Job
  <2> QED  BY <2>1, <1>j, <1>q DEF JobInv, Overlap
<1>9. ASSUME job.pc # "idle", job'.pc \in {"gate", "delete", "archive"}, job'.d = job.d,
             job'.teardown \subseteq job.teardown, job'.order = job.order,
             UNCHANGED <<requested, recon, beside>>
      PROVE  JobInv'
  BY <1>9 DEF JobInv, Overlap
<1>10. CASE RetireDrained
  BY <1>9, <1>10, <1>0 DEF RetireDrained, Job
<1>11. ASSUME NEW r \in RevisionIds, RetireGate(r) \/ RetireDelete(r) \/ RetireArchive(r) PROVE JobInv'
  <2>1. CASE RetireGate(r)
    BY <1>9, <2>1, <1>0 DEF RetireGate, Job
  <2>2. CASE RetireDelete(r)
    BY <1>9, <2>2, <1>0 DEF RetireDelete, Job
  <2>3. CASE RetireArchive(r)
    BY <1>9, <2>3, <1>0 DEF RetireArchive, Job
  <2> QED  BY <1>11, <2>1, <2>2, <2>3
<1>12. CASE RetireRefused \/ RetireInterrupted \/ \E d \in DeploymentIds : RetireRemove(d)
  BY <1>1, <1>12, NothingTypes DEF RetireRefused, RetireInterrupted, RetireRemove
<1>13. ASSUME NEW r \in RevisionIds, HookStep(r) \/ HookTimeout(r) PROVE JobInv'
  BY <1>2, <1>13 DEF HookStep, HookLoad, HookPush, HookReadBack, HookScale, HookConfirm, HookTimeout
<1>14. CASE OtherVerb \/ ReconcileLoad \/ UNCHANGED retireVars
  BY <1>2, <1>14 DEF OtherVerb, ReconcileLoad, retireVars
<1>15. ASSUME UNCHANGED <<job, requested, beside>>, recon.pc # "idle" PROVE JobInv'
  <2>1. job.pc = "idle" \/ Overlap
    BY <1>15 DEF JobInv
  <2> QED  BY <1>2, <1>15, <2>1
<1>16. CASE ReconcilePush \/ ReconcileEnd \/ \E r \in RevisionIds : ReconcileApply(r) \/ ReconcilePrune(r)
  BY <1>15, <1>16 DEF ReconcilePush, ReconcileEnd, ReconcileApply, ReconcilePrune
<1> QED
  BY <1>3, <1>4, <1>5, <1>6, <1>7, <1>8, <1>10, <1>11, <1>12, <1>13, <1>14, <1>16
  DEF RetireNext, RetireStep, RetireAdvance, ReconcileStep

-----------------------------------------------------------------------------
(* Threads, workers and the router.                                        *)

\* When the document does not move, neither does what is read from it.
LEMMA SameDocument ==
  ASSUME UNCHANGED <<vars, staged>>
  PROVE  /\ Weighted' = Weighted
         /\ \A r \in RevisionIds : (Quenched(r)' <=> Quenched(r)) /\ (Stopping(r)' <=> Stopping(r))
         /\ \A d \in DeploymentIds : RevisionsOf(d)' = RevisionsOf(d)
<1>1. Weighted' = Weighted
  BY DEF vars, Weighted
<1> QED  BY <1>1 DEF vars, Quenched, Stopping, RevisionsOf

\* Threads that are past their check, and workers, stay where they are or go.
Settling ==
  /\ \A r \in RevisionIds : hook'[r].pc \in {"loaded", "pushed", "waited"} =>
                              hook[r].pc \in {"loaded", "pushed", "waited"}
  /\ \A r \in RevisionIds : worker'[r] = worker[r] \/ worker'[r] = "absent"
  /\ recon'.up \subseteq recon.up

\* Every step keeps a thread past its check, and a stopped worker, out of
\* traffic.
LEMMA StoppingStep ==
  ASSUME EngineInv, RetireTypeOK, JobInv, StoppingInv, [RetireNext]_retireVars PROVE StoppingInv'
<1>0. TypeOK /\ ThreadsOK /\ ClusterOK /\ DocStep
  BY RetireTypeParts
<1>q. \A r \in RevisionIds : (Quenched(r) => Quenched(r)') /\ (Stopping(r) => Stopping(r)')
  BY <1>0, DocKeeps DEF RetireTypeOK
<1>s. staged \subseteq staged'
  BY <1>0 DEF DocStep
<1>1. CASE Settling
  BY <1>1, <1>q, <1>s DEF StoppingInv, Settling
<1>2. CASE UNCHANGED <<hook, worker, recon>>
  BY <1>1, <1>2 DEF Settling
<1>3. ASSUME NEW d \in DeploymentIds,
             RequestRetire(d) \/ RetireAbsent(d) \/ RetireBegin(d) \/ RetireRemove(d)
      PROVE  StoppingInv'
  BY <1>2, <1>3 DEF RequestRetire, RetireAbsent, RetireBegin, RetireRemove, cluster
<1>4. CASE RetireLoad \/ OtherVerb \/ UNCHANGED retireVars
  BY <1>2, <1>4 DEF RetireLoad, OtherVerb, retireVars, cluster
<1>5. ASSUME NEW r \in RevisionIds, RetireStamp(r) \/ RetireGate(r) \/ RetireArchive(r) PROVE StoppingInv'
  BY <1>2, <1>5 DEF RetireStamp, RetireGate, RetireArchive, cluster
<1>6. ASSUME NEW r \in RevisionIds, RetireDelete(r) PROVE StoppingInv'
  BY <1>1, <1>6, <1>0 DEF RetireDelete, Settling, ClusterOK
<1>7. CASE RetireSpawn \/ RetireDrained \/ RetireRefused \/ RetireInterrupted
  <2>1. \A r \in RevisionIds : hook'[r].pc \in {"none", "spawned"}
    BY <1>7 DEF RetireSpawn, RetireDrained, RetireRefused, RetireInterrupted, NoHook
  <2>2. UNCHANGED <<worker, recon>>
    BY <1>7 DEF RetireSpawn, RetireDrained, RetireRefused, RetireInterrupted, cluster
  <2> QED  BY <1>1, <2>1, <2>2 DEF Settling
<1>8. ASSUME NEW r \in RevisionIds, HookLoad(r), job.pc = "drain" PROVE StoppingInv'
  <2>1. Quenched(r)
    BY <1>8, <1>0 DEF HookLoad, ThreadsOK, JobInv
  <2>2. UNCHANGED <<worker, recon, vars, staged>> /\ \A q \in RevisionIds \ {r} : hook'[q] = hook[q]
    BY <1>8, <1>0 DEF HookLoad, cluster, ThreadsOK
  <2>3. hook'[r].pc = "loaded" => r \notin Weighted
    BY <1>8, <1>0 DEF HookLoad, ThreadsOK
  <2>4. hook'[r].pc \notin {"pushed", "waited"}
    BY <1>8, <1>0 DEF HookLoad, ThreadsOK
  <2>5. \A q \in RevisionIds : hook'[q].pc \in {"loaded", "pushed", "waited"} => Stopping(q)
    BY <2>1, <2>2, <2>3, <2>4 DEF Stopping, StoppingInv
  <2> QED  BY <2>2, <2>5, <1>q DEF StoppingInv
<1>9. ASSUME NEW r \in RevisionIds, HookPush(r) \/ HookReadBack(r) PROVE StoppingInv'
  <2>1. UNCHANGED <<worker, recon>> /\ hook[r].pc \in {"loaded", "pushed"}
        /\ \A q \in RevisionIds \ {r} : hook'[q] = hook[q]
    BY <1>9, <1>0 DEF HookPush, HookReadBack, cluster, ThreadsOK
  <2> QED  BY <1>1, <2>1 DEF Settling
<1>10. ASSUME NEW r \in RevisionIds, HookConfirm(r) \/ HookTimeout(r) PROVE StoppingInv'
  <2>1. UNCHANGED <<worker, recon>> /\ \A q \in RevisionIds \ {r} : hook'[q] = hook[q]
    BY <1>10, <1>0 DEF HookConfirm, HookTimeout, cluster, ThreadsOK
  <2>2. hook'[r].pc \in {"drained", "undrained"}
    BY <1>10, <1>0 DEF HookConfirm, HookTimeout, ThreadsOK, Hook
  <2> QED  BY <1>1, <2>1, <2>2 DEF Settling
<1>11. ASSUME NEW r \in RevisionIds, HookScale(r) PROVE StoppingInv'
  <2>1. hook[r].pc = "waited" /\ UNCHANGED recon /\ \A q \in RevisionIds \ {r} : hook'[q] = hook[q]
    BY <1>11, <1>0 DEF HookScale, ThreadsOK
  <2>2. hook'[r].pc = "scaled"
    BY <1>11, <1>0 DEF HookScale, ThreadsOK, Hook
  <2>3. Stopping(r)
    BY <2>1 DEF StoppingInv
  <2>4. \A q \in RevisionIds :
          worker'[q] = IF q = r THEN IF worker[r] = "absent" THEN "absent" ELSE "stopped" ELSE worker[q]
    BY <1>11, <1>0 DEF HookScale, ClusterOK
  <2> QED  BY <2>1, <2>2, <2>3, <2>4, <1>q, <1>s DEF StoppingInv
<1>12. CASE ReconcileLoad
  <2>1. UNCHANGED <<hook, worker, staged>> /\ recon'.up \subseteq Known
    BY <1>12 DEF ReconcileLoad, cluster
  <2> QED  BY <2>1, <1>q DEF StoppingInv, RetireTypeOK
<1>13. CASE ReconcilePush \/ ReconcileEnd
  <2>1. UNCHANGED <<hook, worker>> /\ recon'.up \subseteq recon.up
    BY <1>13, <1>0, NothingTypes DEF ReconcilePush, ReconcileEnd, cluster, ClusterOK, Reconcile
  <2> QED  BY <1>1, <2>1 DEF Settling
<1>14. ASSUME NEW r \in RevisionIds, ReconcileApply(r) PROVE StoppingInv'
  <2>1. UNCHANGED <<hook, staged>> /\ recon'.up \subseteq recon.up /\ r \in recon.up
    BY <1>14, <1>0 DEF ReconcileApply, ClusterOK, Reconcile
  <2>2. \A q \in RevisionIds : worker'[q] = IF q = r THEN "running" ELSE worker[q]
    BY <1>14, <1>0 DEF ReconcileApply, ClusterOK
  <2> QED  BY <2>1, <2>2, <1>q DEF StoppingInv
<1>15. ASSUME NEW r \in RevisionIds, ReconcilePrune(r) PROVE StoppingInv'
  <2>1. UNCHANGED hook /\ recon'.up \subseteq recon.up
    BY <1>15, <1>0 DEF ReconcilePrune, ClusterOK, Reconcile
  <2>2. \A q \in RevisionIds : worker'[q] = IF q = r THEN "absent" ELSE worker[q]
    BY <1>15, <1>0 DEF ReconcilePrune, ClusterOK
  <2> QED  BY <1>1, <2>1, <2>2 DEF Settling
<1> QED
  BY <1>3, <1>4, <1>5, <1>6, <1>7, <1>8, <1>9, <1>10, <1>11, <1>12, <1>13, <1>14, <1>15
  DEF RetireNext, RetireStep, RetireAdvance, HookStep, ReconcileStep

\* While the threads of a retire left alone run, nobody writes the document,
\* so that all of them push the same split.
LEMMA RouterStep ==
  ASSUME EngineInv, RetireTypeOK, JobInv, RouterInv, [RetireNext]_retireVars PROVE RouterInv'
<1>0. TypeOK /\ ThreadsOK /\ ClusterOK
  BY RetireTypeParts
<1>b. UNCHANGED beside
  BY DEF RetireNext, RetireStep, RetireAdvance, HookStep, ReconcileStep, retireVars, RequestRetire,
    RetireAbsent, RetireBegin, RetireRemove, RetireLoad, RetireSpawn, RetireDrained, RetireRefused,
    RetireInterrupted, RetireStamp, RetireGate, RetireDelete, RetireArchive, HookLoad, HookPush,
    HookReadBack, HookScale, HookConfirm, HookTimeout, ReconcileLoad, ReconcilePush, ReconcileEnd,
    ReconcileApply, ReconcilePrune, OtherVerb
<1> SUFFICES ASSUME beside = {} PROVE RouterInv'
  BY <1>b DEF RouterInv
<1>1. ASSUME \A r \in RevisionIds : hook'[r].pc \notin {"loaded", "pushed", "waited"} PROVE RouterInv'
  BY <1>1 DEF RouterInv
<1>2. CASE job.pc # "drain"
  <2>1. \A r \in RevisionIds : hook[r].pc = "none"
    BY <1>0, <1>2 DEF ThreadsOK
  <2>2. UNCHANGED hook \/ \A r \in RevisionIds : hook'[r].pc \in {"none", "spawned"}
    <3>1. ASSUME RetireSpawn \/ RetireRefused \/ RetireInterrupted
          PROVE  \A r \in RevisionIds : hook'[r].pc \in {"none", "spawned"}
      BY <3>1 DEF RetireSpawn, RetireRefused, RetireInterrupted, NoHook
    <3> QED  BY <1>2, <3>1 DEF RetireNext, RetireStep, RetireAdvance, HookStep, HookTimeout, ReconcileStep, retireVars,
      RequestRetire, RetireAbsent, RetireBegin, RetireRemove, RetireLoad, RetireDrained, RetireStamp,
      RetireGate, RetireDelete, RetireArchive, ReconcileLoad, ReconcilePush, ReconcileEnd,
      ReconcileApply, ReconcilePrune, OtherVerb
  <2> QED  BY <1>1, <2>1, <2>2
<1>3. CASE job.pc = "drain"
  <2>1. recon.pc = "idle" /\ requested # {} /\ ~Meddling /\ ~Overlap
    BY <1>3 DEF JobInv, Meddling, Overlap
  <2>2. CASE RetireDrained \/ RetireRefused \/ RetireInterrupted
    <3>1. \A r \in RevisionIds : hook'[r].pc = "none"
      BY <2>2 DEF RetireDrained, RetireRefused, RetireInterrupted, NoHook
    <3> QED  BY <1>1, <3>1
  <2>3. CASE UNCHANGED retireVars
    BY <2>3, SameDocument DEF retireVars, RouterInv
  <2>4. ASSUME NEW r \in RevisionIds, HookStep(r) \/ HookTimeout(r) PROVE RouterInv'
    <3>1. UNCHANGED <<vars, staged>> /\ \A q \in RevisionIds \ {r} : hook'[q] = hook[q]
      BY <2>4, <1>0 DEF HookStep, HookLoad, HookPush, HookReadBack, HookScale, HookConfirm,
        HookTimeout, ThreadsOK
    <3>2. Weighted' = Weighted
      BY <3>1, SameDocument
    <3>3. CASE HookLoad(r)
      <4>1. hook'[r].pc = "loaded" => hook'[r].seen = Weighted
        BY <3>3, <1>0 DEF HookLoad, ThreadsOK
      <4>2. hook'[r].pc \notin {"pushed", "waited"} /\ UNCHANGED router
        BY <3>3, <1>0 DEF HookLoad, ThreadsOK, cluster
      <4> QED  BY <4>1, <4>2, <3>1, <3>2 DEF RouterInv
    <3>4. CASE HookPush(r)
      <4>1. hook'[r].pc = "pushed" /\ router' = Weighted
        BY <3>4, <1>0 DEF HookPush, ThreadsOK, Hook, RouterInv
      <4> QED  BY <4>1, <3>1, <3>2 DEF RouterInv
    <3>5. CASE HookReadBack(r)
      <4>1. hook[r].pc = "pushed" /\ hook'[r].pc # "loaded" /\ UNCHANGED router
        BY <3>5, <1>0 DEF HookReadBack, ThreadsOK, Hook, cluster
      <4> QED  BY <4>1, <3>1, <3>2 DEF RouterInv
    <3>6. CASE HookScale(r) \/ HookConfirm(r) \/ HookTimeout(r)
      <4>1. hook'[r].pc \in {"scaled", "drained", "undrained"} /\ UNCHANGED router
        BY <3>6, <1>0 DEF HookScale, HookConfirm, HookTimeout, ThreadsOK, Hook, cluster
      <4> QED  BY <4>1, <3>1, <3>2 DEF RouterInv
    <3> QED  BY <2>4, <3>3, <3>4, <3>5, <3>6 DEF HookStep
  <2> QED
    BY <1>3, <2>1, <2>2, <2>3, <2>4 DEF RetireNext, RetireStep, RetireAdvance, ReconcileStep, RequestRetire,
      RetireAbsent, RetireBegin, RetireRemove, RetireLoad, RetireSpawn, RetireStamp, RetireGate,
      RetireDelete, RetireArchive, ReconcileLoad, ReconcilePush, ReconcileEnd, ReconcileApply,
      ReconcilePrune, OtherVerb
<1> QED  BY <1>2, <1>3

\* The next revision of the teardown list is one revision.
LEMMA OneNext ==
  ASSUME RetireTypeOK, JobInv, NEW q \in RevisionIds, NEW r \in RevisionIds,
         NextOf(job.teardown, q), NextOf(job.teardown, r)
  PROVE  q = r
BY DEF RetireTypeOK, Job, JobInv, NextOf

\* Every step keeps the teardown in order.
LEMMA TeardownStep ==
  ASSUME EngineInv, RetireTypeOK, JobInv, StoppingInv, TeardownInv, [RetireNext]_retireVars
  PROVE  TeardownInv'
<1>0. TypeOK /\ ThreadsOK /\ ClusterOK /\ DocStep /\ job \in Job
  BY RetireTypeParts DEF RetireTypeOK
<1>b. UNCHANGED beside
  BY DEF RetireNext, RetireStep, RetireAdvance, HookStep, ReconcileStep, retireVars, RequestRetire,
    RetireAbsent, RetireBegin, RetireRemove, RetireLoad, RetireSpawn, RetireDrained, RetireRefused,
    RetireInterrupted, RetireStamp, RetireGate, RetireDelete, RetireArchive, HookLoad, HookPush,
    HookReadBack, HookScale, HookConfirm, HookTimeout, ReconcileLoad, ReconcilePush, ReconcileEnd,
    ReconcileApply, ReconcilePrune, OtherVerb
<1> SUFFICES ASSUME ~Overlap PROVE TeardownInv'
  BY <1>b DEF TeardownInv, Overlap
<1>d. job.pc # "idle" => job.d \in DeploymentIds /\ recon.pc = "idle"
  BY <1>0 DEF JobInv, ClusterOK
<1>r. ASSUME job.pc # "idle", job'.d = job.d, NEW r \in RevisionIds, r \in RevisionsOf(job.d)', worker[r] # "absent"
      PROVE  r \in RevisionsOf(job.d)
  <2>1. PICK d \in DeploymentIds : d = job.d
    BY <1>r, <1>d
  <2>2. r \in RevisionsOf(d)' => r \in RevisionsOf(d) \/ r \notin staged
    BY <1>0, DocKeeps DEF RetireTypeOK
  <2> QED  BY <1>r, <2>1, <2>2 DEF StoppingInv, RevisionsOf
<1>1. ASSUME job'.pc \in {"idle", "load"} PROVE TeardownInv'
  BY <1>1 DEF TeardownInv
\* The lists stay, and so does what has no worker.
<1>2. ASSUME job.pc \notin {"idle", "load"}, job'.d = job.d, job'.teardown = job.teardown,
             \A r \in RevisionIds : worker[r] = "absent" => worker'[r] = "absent",
             NEW r \in RevisionIds, r \in RevisionsOf(job.d)' \ job'.teardown
      PROVE  worker'[r] = "absent"
  BY <1>2, <1>r DEF TeardownInv
<1>3. ASSUME job.pc \notin {"idle", "load"}, job'.d = job.d, job'.teardown = job.teardown,
             \A r \in RevisionIds : worker[r] = "absent" => worker'[r] = "absent",
             job'.pc \notin {"delete", "archive"}
      PROVE  TeardownInv'
  <2>1. \A r \in RevisionsOf(job.d)' \ job'.teardown : worker'[r] = "absent"
    BY <1>2, <1>3 DEF RevisionsOf
  <2> QED  BY <1>3, <2>1 DEF TeardownInv, RevisionsOf
<1>4. CASE UNCHANGED <<job, cluster>>
  <2>1. CASE job.pc \in {"idle", "load"}
    BY <1>1, <1>4, <2>1
  <2>2. CASE job.pc \notin {"idle", "load"}
    <3>1. \A r \in RevisionsOf(job.d)' \ job'.teardown : worker'[r] = "absent"
      BY <1>2, <1>4, <2>2 DEF RevisionsOf, cluster
    <3> QED  BY <1>4, <3>1 DEF TeardownInv, RevisionsOf, cluster, NextOf
  <2> QED  BY <2>1, <2>2
<1>5. ASSUME NEW d \in DeploymentIds, RequestRetire(d) \/ RetireAbsent(d) PROVE TeardownInv'
  BY <1>4, <1>5 DEF RequestRetire, RetireAbsent
<1>6. ASSUME NEW d \in DeploymentIds, RetireBegin(d) PROVE TeardownInv'
  <2>1. job'.pc = "load"
    BY <1>6 DEF RetireBegin, NoJob
  <2> QED  BY <1>1, <2>1
<1>7. CASE OtherVerb \/ ReconcileLoad \/ UNCHANGED retireVars
  BY <1>4, <1>7 DEF OtherVerb, ReconcileLoad, retireVars, cluster
<1>8. CASE RetireLoad
  <2>1. job'.pc = "stamp" /\ job'.d = job.d /\ job'.teardown = RevisionsOf(job.d) /\ UNCHANGED revisions
    BY <1>8, <1>0 DEF RetireLoad, Job, vars
  <2> QED  BY <2>1 DEF TeardownInv, RevisionsOf
<1>9. ASSUME NEW r \in RevisionIds, RetireStamp(r) PROVE TeardownInv'
  <2>1. job.pc = "stamp" /\ job'.pc = "stamp" /\ job'.d = job.d /\ job'.teardown = job.teardown /\ UNCHANGED worker
    BY <1>9, <1>0 DEF RetireStamp, Job, cluster
  <2> QED  BY <1>3, <2>1
<1>10. CASE RetireSpawn \/ RetireDrained
  <2>1. job.pc \in {"stamp", "drain"} /\ job'.pc \in {"drain", "gate"} /\ job'.d = job.d
        /\ job'.teardown = job.teardown /\ UNCHANGED worker
    BY <1>10, <1>0 DEF RetireSpawn, RetireDrained, Job, cluster
  <2> QED  BY <1>3, <2>1
<1>11. ASSUME NEW r \in RevisionIds, HookStep(r) \/ HookTimeout(r) PROVE TeardownInv'
  <2>1. job.pc = "drain" /\ UNCHANGED job
    BY <1>11 DEF HookStep, HookTimeout, HookLoad, HookPush, HookReadBack, HookScale, HookConfirm
  <2>2. \A q \in RevisionIds : worker[q] = "absent" => worker'[q] = "absent"
    BY <1>11, <1>0 DEF HookStep, HookTimeout, HookLoad, HookPush, HookReadBack, HookScale, HookConfirm,
      cluster, ClusterOK
  <2> QED  BY <1>3, <2>1, <2>2
<1>12. ASSUME NEW r \in RevisionIds, RetireGate(r) PROVE TeardownInv'
  <2>1. /\ job.pc = "gate" /\ job'.pc = "delete" /\ job'.d = job.d /\ job'.teardown = job.teardown
        /\ job'.force = job.force /\ job'.order = job.order /\ UNCHANGED <<worker, router, revisions>>
    BY <1>12, <1>0 DEF RetireGate, Job, cluster, vars
  <2>2. ~job.force => r \notin router /\ worker[r] # "running"
    BY <1>12 DEF RetireGate, NoReadyEndpoints
  <2>3. \A q \in RevisionIds : NextOf(job.teardown, q)' => q = r
    BY <1>12, <2>1, OneNext DEF RetireGate, NextOf
  <2> QED  BY <2>1, <2>2, <2>3 DEF TeardownInv, RevisionsOf, NextOf
<1>13. ASSUME NEW r \in RevisionIds, RetireDelete(r) PROVE TeardownInv'
  <2>1. /\ job.pc = "delete" /\ job'.pc = "archive" /\ job'.d = job.d /\ job'.teardown = job.teardown
        /\ job'.order = job.order /\ UNCHANGED revisions
    BY <1>13, <1>0 DEF RetireDelete, Job, vars
  <2>2. \A q \in RevisionIds : worker'[q] = IF q = r THEN "absent" ELSE worker[q]
    BY <1>13, <1>0 DEF RetireDelete, ClusterOK
  <2>3. \A q \in RevisionIds : NextOf(job.teardown, q)' => q = r
    BY <1>13, <2>1, OneNext DEF RetireDelete, NextOf
  <2> QED  BY <2>1, <2>2, <2>3 DEF TeardownInv, RevisionsOf, NextOf
<1>14. ASSUME NEW r \in RevisionIds, RetireArchive(r) PROVE TeardownInv'
  <2>1. /\ job.pc = "archive" /\ job'.pc = "gate" /\ job'.d = job.d /\ job'.teardown = job.teardown \ {r}
        /\ UNCHANGED worker
    BY <1>14, <1>0 DEF RetireArchive, Job, cluster
  <2>2. worker[r] = "absent"
    BY <1>14, <2>1 DEF RetireArchive, TeardownInv
  <2>3. ASSUME NEW q \in RevisionIds, q \in RevisionsOf(job.d)', q \notin job'.teardown PROVE worker[q] = "absent"
    BY <2>1, <2>2, <2>3, <1>r DEF TeardownInv
  <2> QED  BY <2>1, <2>3 DEF TeardownInv, RevisionsOf
<1>15. CASE RetireRefused \/ RetireInterrupted \/ \E d \in DeploymentIds : RetireRemove(d)
  BY <1>1, <1>15, NothingTypes DEF RetireRefused, RetireInterrupted, RetireRemove
<1>16. CASE ReconcilePush \/ ReconcileEnd \/ \E r \in RevisionIds : ReconcileApply(r) \/ ReconcilePrune(r)
  <2>1. recon.pc # "idle" /\ UNCHANGED job
    BY <1>16 DEF ReconcilePush, ReconcileEnd, ReconcileApply, ReconcilePrune
  <2> QED  BY <1>1, <1>d, <2>1
<1> QED
  BY <1>5, <1>6, <1>7, <1>8, <1>9, <1>10, <1>11, <1>12, <1>13, <1>14, <1>15, <1>16
  DEF RetireNext, RetireStep, RetireAdvance, ReconcileStep

-----------------------------------------------------------------------------
(* The theorems about the retire.                                          *)

\* Nothing runs and nothing was requested.
LEMMA RetireInvInit == RetireInit => RetireInv
<1> SUFFICES ASSUME RetireInit PROVE RetireInv
  OBVIOUS
<1> USE NothingTypes DEF RetireInit
<1>1. RetireTypeOK
  BY RetireAssumption DEF RetireTypeOK, WorkerState, Init, Known
<1>2. JobInv
  BY DEF JobInv
<1>3. StoppingInv /\ RouterInv /\ TeardownInv
  BY DEF StoppingInv, RouterInv, TeardownInv
<1> QED  BY <1>1, <1>2, <1>3 DEF RetireInv

\* The inductive invariant of the composition, resting on the engine's own.
THEOREM RetireInvariant == RetireSpec => [](EngineInv /\ RetireInv)
<1>1. RetireSpec => []EngineInv
  BY RetireImplementsEngine, EngineInvariant, PTL DEF ImplementsEngine
<1>2. EngineInv /\ RetireInv /\ [RetireNext]_retireVars => RetireInv'
  BY RetireTypeParts, JobStep, StoppingStep, RouterStep, TeardownStep DEF RetireInv
<1> QED  BY <1>1, <1>2, RetireInvInit, PTL DEF RetireSpec

\* The sequence's state is well-formed in every reachable state, and no drain
\* thread outlives the run that spawned it.
THEOREM RetireTypeCorrect == RetireSpec => []RetireTypeOK
<1>1. RetireInv => RetireTypeOK
  BY DEF RetireInv
<1> QED  BY <1>1, RetireInvariant, PTL

\* Who touches a worker.
LEMMA WorkerSteps ==
  ASSUME RetireTypeOK, [RetireNext]_retireVars, NEW r \in RevisionIds, worker'[r] # worker[r]
  PROVE  \/ HookScale(r) /\ worker'[r] = "stopped"
         \/ RetireDelete(r) /\ worker'[r] = "absent"
         \/ ReconcileApply(r) /\ worker'[r] = "running"
         \/ ReconcilePrune(r) /\ worker'[r] = "absent"
<1>0. worker \in [RevisionIds -> WorkerState]
  BY DEF RetireTypeOK
<1>1. worker' # worker
  OBVIOUS
<1>2. PICK q \in RevisionIds : HookScale(q) \/ RetireDelete(q) \/ ReconcileApply(q) \/ ReconcilePrune(q)
  BY <1>1 DEF RetireNext, RetireStep, RetireAdvance, HookStep, ReconcileStep, retireVars, cluster,
    RequestRetire, RetireAbsent, RetireBegin, RetireRemove, RetireLoad, RetireSpawn, RetireDrained,
    RetireRefused, RetireInterrupted, RetireStamp, RetireGate, RetireArchive, HookLoad, HookPush,
    HookReadBack, HookConfirm, HookTimeout, ReconcileLoad, ReconcilePush, ReconcileEnd, OtherVerb
<1>3. q = r
  BY <1>0, <1>2 DEF HookScale, RetireDelete, ReconcileApply, ReconcilePrune
<1>4. HookScale(r) => worker'[r] = "stopped"
  BY <1>0 DEF HookScale
<1>5. (RetireDelete(r) \/ ReconcilePrune(r)) => worker'[r] = "absent"
  BY <1>0 DEF RetireDelete, ReconcilePrune
<1>6. ReconcileApply(r) => worker'[r] = "running"
  BY <1>0 DEF ReconcileApply
<1> QED  BY <1>2, <1>3, <1>4, <1>5, <1>6

\* A drain stops no worker that the recorded split weights, whatever runs
\* beside it; left alone, none that the live router weights either.
THEOREM StopsUnrouted == RetireSpec => StopUnrouted
<1>1. EngineInv /\ RetireInv /\ [RetireNext]_retireVars => [StopUnroutedStep]_retireVars
  <2> SUFFICES ASSUME RetireInv, [RetireNext]_retireVars, NEW r \in RevisionIds,
                      worker[r] = "running", worker'[r] = "stopped"
               PROVE  r \notin Weighted /\ (beside = {} => r \notin router)
    BY DEF StopUnroutedStep
  <2>1. HookScale(r)
    BY WorkerSteps DEF RetireInv
  <2>2. hook[r].pc = "waited"
    BY <2>1 DEF HookScale
  <2> QED  BY <2>2 DEF RetireInv, StoppingInv, Stopping, RouterInv
<1> QED  BY <1>1, RetireInvariant, PTL DEF RetireSpec, StopUnrouted

\* Without --force-drain a retire deletes no worker that router or document
\* route to, as long as no reconcile runs during a retire.
THEOREM TeardownsUnrouted == RetireSpec => TeardownUnrouted
<1>1. EngineInv /\ RetireInv /\ [RetireNext]_retireVars => [TeardownUnroutedStep]_retireVars
  <2> SUFFICES ASSUME RetireInv, [RetireNext]_retireVars, NEW r \in RevisionIds,
                      worker[r] # "absent", worker'[r] = "absent",
                      job.pc = "delete", job'.pc = "archive", ~job.force, ~Overlap
               PROVE  r \notin router \cup Weighted
    BY DEF TeardownUnroutedStep
  <2>1. RetireDelete(r)
    BY WorkerSteps DEF RetireInv, ReconcilePrune
  <2>2. r \notin router /\ worker[r] # "running"
    BY <2>1 DEF RetireDelete, RetireInv, TeardownInv
  <2>3. worker[r] = "stopped"
    BY <2>2 DEF RetireInv, RetireTypeOK, WorkerState
  <2> QED  BY <2>2, <2>3 DEF RetireInv, StoppingInv, Stopping
<1> QED  BY <1>1, RetireInvariant, PTL DEF RetireSpec, TeardownUnrouted

\* The worker goes before the record, as long as no reconcile runs during a
\* retire: what is archived or pruned from the store has none left.
THEOREM WorkersGoneFirst == RetireSpec => WorkerGoneFirst
<1>1. EngineInv /\ RetireInv /\ [RetireNext]_retireVars => [WorkerGoneFirstStep]_retireVars
  <2> SUFFICES ASSUME EngineInv, RetireInv, [RetireNext]_retireVars, ~Overlap
               PROVE  WorkerGoneFirstStep
    BY DEF WorkerGoneFirstStep
  <2>1. ASSUME NEW r \in RevisionIds, job.pc = "archive", job'.pc = "gate",
               revisions[r] # None, revisions'[r] # revisions[r]
        PROVE  worker[r] = "absent"
    <3>1. job' # job /\ revisions' # revisions /\ job' # NoJob
      BY <2>1, NothingTypes
    <3>2. PICK q \in RevisionIds : RetireArchive(q)
      BY <2>1, <3>1 DEF RetireNext, RetireStep, RetireAdvance, HookStep, ReconcileStep, retireVars, vars,
        RequestRetire, RetireAbsent, RetireBegin, RetireRemove, RetireLoad, RetireSpawn, RetireDrained,
        RetireRefused, RetireInterrupted, RetireStamp, RetireGate, RetireDelete, HookTimeout,
        ReconcileLoad, ReconcilePush, ReconcileEnd, ReconcileApply, ReconcilePrune, OtherVerb
    <3>3. q = r
      <4>1. ArchiveRevision(q)
        BY <3>1, <3>2 DEF RetireArchive, vars
      <4> QED  BY <4>1, <2>1 DEF ArchiveRevision, SetLifecycle, EngineInv, TypeInv, TypeOK
    <3> QED  BY <2>1, <3>2, <3>3 DEF RetireArchive, RetireInv, TeardownInv
  <2>2. ASSUME NEW d \in DeploymentIds, job.pc = "gate", job' = NoJob, bundles[d] # None, bundles'[d] = None
        PROVE  \A r \in RevisionsOf(d) : worker[r] = "absent"
    <3>1. job' # job /\ bundles' # bundles /\ job'.pc = "idle"
      BY <2>2, NothingTypes
    <3>2. PICK x \in DeploymentIds : RetireRemove(x)
      BY <2>2, <3>1 DEF RetireNext, RetireStep, RetireAdvance, HookStep, ReconcileStep, retireVars, vars,
        RequestRetire, RetireAbsent, RetireBegin, RetireLoad, RetireSpawn, RetireDrained,
        RetireRefused, RetireInterrupted, RetireStamp, RetireGate, RetireDelete, RetireArchive, HookTimeout,
        ReconcileLoad, ReconcilePush, ReconcileEnd, ReconcileApply, ReconcilePrune, OtherVerb
    <3>3. x = d /\ d = job.d /\ job.teardown = {}
      BY <2>2, <3>2 DEF RetireRemove, RemoveBundle, EngineInv, TypeInv, TypeOK
    <3> QED  BY <2>2, <3>3 DEF RetireInv, TeardownInv
  <2> QED  BY <2>1, <2>2 DEF WorkerGoneFirstStep
<1> QED  BY <1>1, RetireInvariant, PTL DEF RetireSpec, WorkerGoneFirst
=============================================================================
