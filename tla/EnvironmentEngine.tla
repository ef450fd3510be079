------------------------- MODULE EnvironmentEngine -------------------------
(***************************************************************************)
(* The pure environment engine of crates/greentic-deploy-spec: the verbs   *)
(* that both stores (LocalFsStore behind a flock, the operator store       *)
(* server behind a compare-and-swap) apply to one Environment document.    *)
(*                                                                         *)
(* One step is one committed verb: load, transform, validate, save.  A     *)
(* refused verb leaves the document alone, so it is a stuttering step and  *)
(* has no action of its own; the one verb that commits while it reports an *)
(* error, a warm whose health gate failed, does have one.                  *)
(*                                                                         *)
(* Vectors keyed by an id are functions from the id to a record or None.   *)
(* BundleDeployment.current_revisions is left out: no verb ever adds to    *)
(* it, so it is the empty vector in every document the program writes.     *)
(***************************************************************************)
EXTENDS Integers, Sequences, FiniteSets, SequencesExt

CONSTANTS
  DeploymentIds,   \* ULIDs the store can mint for a BundleDeployment
  RevisionIds,     \* ULIDs a caller can stage a revision under
  BundleIds,
  CustomerIds,
  EndpointIds,     \* messaging endpoints, one provider instance each
  PackIds,
  Keys,            \* idempotency keys of the callers
  EntryLists,      \* the split entry lists callers send, valid or not
  BasisPoints,     \* BASIS_POINTS_TOTAL, 10,000 in the code
  MaxGeneration,   \* bound on a split's generation
  None             \* an absent Option, or an id no document entry has

Lifecycle == {"Inactive", "Staged", "Warming", "Ready", "Draining",
              "Failed", "Archived"}

Status == {"Active", "Paused", "Archived"}

Deployment == [bundle_id: BundleIds, customer_id: CustomerIds,
               status: Status, config_overrides: SUBSET PackIds]

Revision == [deployment_id: DeploymentIds, bundle_id: BundleIds,
             sequence: Nat, lifecycle: Lifecycle, pack_list: SUBSET PackIds]

Entry == [revision_id: RevisionIds, weight_bps: Nat]

\* An idempotency key with the number of "rollback-" prefixes in front of it.
StampedKey == [key: Keys, rollbacks: Nat]

\* The inline stash: a split whose own previous_split_ref was cleared.
Stash == [bundle_id: BundleIds, generation: Nat, entries: Seq(Entry),
          idempotency_key: StampedKey]

Split == [bundle_id: BundleIds, generation: Nat, entries: Seq(Entry),
          idempotency_key: StampedKey, previous: Stash \cup {None}]

Endpoint == [linked_bundles: SUBSET BundleIds,
             welcome_flow: BundleIds \cup {None}]

ASSUME EngineAssumption ==
  /\ EntryLists \subseteq Seq(Entry)
  /\ BasisPoints \in Nat
  /\ MaxGeneration \in Nat

ASSUME NoneAssumption ==
  /\ None \notin Deployment
  /\ None \notin Revision
  /\ None \notin Split
  /\ None \notin Stash
  /\ None \notin Endpoint
  /\ None \notin BundleIds

VARIABLES
  bundles,         \* Environment.bundles, by deployment_id
  revisions,       \* Environment.revisions, by revision_id
  traffic_splits,  \* Environment.traffic_splits, by deployment_id
  endpoints,       \* Environment.messaging_endpoints, by endpoint_id
  minted           \* the deployment ids handed out so far

vars == <<bundles, revisions, traffic_splits, endpoints, minted>>

Init ==
  /\ bundles = [d \in DeploymentIds |-> None]
  /\ revisions = [r \in RevisionIds |-> None]
  /\ traffic_splits = [d \in DeploymentIds |-> None]
  /\ endpoints = [e \in EndpointIds |-> None]
  /\ minted = {}

-----------------------------------------------------------------------------
(* Environment::validate, which every save runs.                           *)

RevisionsOf(d) ==
  {r \in RevisionIds : revisions[r] # None /\ revisions[r].deployment_id = d}

RoutedBy(split) == {split.entries[i].revision_id : i \in DOMAIN split.entries}

SumBps(entries) == FoldLeft(LAMBDA sum, e : sum + e.weight_bps, 0, entries)

\* TrafficSplit::validate
EntriesValid(entries) ==
  /\ \A i \in DOMAIN entries : entries[i].weight_bps <= BasisPoints
  /\ SumBps(entries) = BasisPoints

\* Every config override names a pack of a revision that is not archived;
\* accepted ahead of time while those revisions list no pack at all.
OverridesValid(d) ==
  LET packs == UNION {revisions[r].pack_list :
                        r \in {q \in RevisionsOf(d) :
                                 revisions[q].lifecycle # "Archived"}}
  IN  packs # {} => bundles[d].config_overrides \subseteq packs

SplitValid(d) ==
  LET split == traffic_splits[d]
  IN  /\ EntriesValid(split.entries)
      /\ bundles[d] # None
      /\ bundles[d].bundle_id = split.bundle_id
      /\ \A r \in RoutedBy(split) :
           /\ revisions[r] # None
           /\ revisions[r].deployment_id = d
           /\ revisions[r].bundle_id = split.bundle_id

DeployedBundles ==
  {bundles[d].bundle_id : d \in {x \in DeploymentIds : bundles[x] # None}}

\* Mutant: only the welcome flow is cross-checked.
WelcomeValid(e) ==
  endpoints[e].welcome_flow # None
    => endpoints[e].welcome_flow \in endpoints[e].linked_bundles

EndpointValid(e) ==
  /\ endpoints[e].linked_bundles \subseteq DeployedBundles
  /\ endpoints[e].welcome_flow # None
       => endpoints[e].welcome_flow \in endpoints[e].linked_bundles

Validate ==
  /\ \A d \in DeploymentIds : bundles[d] # None => OverridesValid(d)
  /\ \A d \in DeploymentIds : traffic_splits[d] # None => SplitValid(d)
  /\ \A e \in EndpointIds : endpoints[e] # None => EndpointValid(e)

-----------------------------------------------------------------------------
(* Bundle deployments: engine/bundles.rs.                                  *)

\* Mutant: a retiring deployment no longer holds its (bundle, customer).
AddBundleBesideRetiring(d, b, c, overrides) ==
  /\ d \notin minted
  /\ \A x \in DeploymentIds :
       bundles[x] # None /\ bundles[x].status # "Archived"
         => <<bundles[x].bundle_id, bundles[x].customer_id>> # <<b, c>>
  /\ minted' = minted \cup {d}
  /\ bundles' = [bundles EXCEPT ![d] =
       [bundle_id |-> b, customer_id |-> c, status |-> "Active",
        config_overrides |-> overrides]]
  /\ UNCHANGED <<revisions, traffic_splits, endpoints>>

\* The store mints the deployment id, so it is one never handed out before.
AddBundle(d, b, c, overrides) ==
  /\ d \notin minted
  /\ \A x \in DeploymentIds :
       bundles[x] # None => <<bundles[x].bundle_id, bundles[x].customer_id>> # <<b, c>>
  /\ minted' = minted \cup {d}
  /\ bundles' = [bundles EXCEPT ![d] =
       [bundle_id |-> b, customer_id |-> c, status |-> "Active",
        config_overrides |-> overrides]]
  /\ UNCHANGED <<revisions, traffic_splits, endpoints>>

\* An omitted field of the payload is the field's present value.
UpdateBundle(d, status, overrides) ==
  /\ bundles[d] # None
  /\ bundles' = [bundles EXCEPT ![d] =
       [bundle_id |-> bundles[d].bundle_id,
        customer_id |-> bundles[d].customer_id,
        status |-> status, config_overrides |-> overrides]]
  /\ UNCHANGED <<revisions, traffic_splits, endpoints, minted>>

\* Mutant: the deployment goes, its archived revisions stay.
RemoveBundleOnly(d) ==
  /\ bundles[d] # None
  /\ traffic_splits[d] = None
  /\ \A r \in RevisionsOf(d) : revisions[r].lifecycle = "Archived"
  /\ bundles' = [bundles EXCEPT ![d] = None]
  /\ UNCHANGED <<revisions, traffic_splits, endpoints, minted>>

\* The live-state guard, then the deployment and its archived revisions go.
RemoveBundle(d) ==
  /\ bundles[d] # None
  /\ traffic_splits[d] = None
  /\ \A r \in RevisionsOf(d) : revisions[r].lifecycle = "Archived"
  /\ bundles' = [bundles EXCEPT ![d] = None]
  /\ revisions' = [r \in RevisionIds |->
       IF r \in RevisionsOf(d) THEN None ELSE revisions[r]]
  /\ UNCHANGED <<traffic_splits, endpoints, minted>>

-----------------------------------------------------------------------------
(* Revision lifecycle: revision.rs and engine/revisions.rs.                *)

IsValidTransition(from, to) ==
  <<from, to>> \in
    { <<"Inactive", "Staged">>, <<"Inactive", "Failed">>, <<"Inactive", "Archived">>,
      <<"Staged", "Warming">>, <<"Staged", "Failed">>, <<"Staged", "Archived">>,
      <<"Warming", "Ready">>, <<"Warming", "Failed">>, <<"Warming", "Archived">>,
      <<"Ready", "Draining">>, <<"Ready", "Failed">>, <<"Ready", "Archived">>,
      <<"Draining", "Inactive">>, <<"Failed", "Staged">>, <<"Failed", "Archived">> }

\* One edge of an accepted chain: taken when the revision stands at its tail.
Hop(at, from, to) == IF at = from /\ IsValidTransition(from, to) THEN to ELSE at

\* The three chains the verbs pass to walk_revision_chain.
WarmWalk(at) == Hop(Hop(at, "Staged", "Warming"), "Warming", "Ready")

DrainWalk(at) == Hop(at, "Ready", "Draining")

ArchiveWalk(at) ==
  LET direct == Hop(Hop(Hop(Hop(at, "Staged", "Archived"), "Warming", "Archived"),
                        "Ready", "Archived"), "Failed", "Archived")
  IN  Hop(Hop(direct, "Draining", "Inactive"), "Inactive", "Archived")

\* Mutant: numbers by counting the revisions still in use.
NextSequenceByCount(d) ==
  Cardinality({r \in RevisionsOf(d) : revisions[r].lifecycle # "Archived"}) + 1

NextSequence(d) ==
  LET taken == {revisions[r].sequence : r \in RevisionsOf(d)}
  IN  IF taken = {} THEN 1 ELSE Max(taken) + 1

StageRevision(r, d, packs) ==
  /\ revisions[r] = None
  /\ bundles[d] # None
  /\ revisions' = [revisions EXCEPT ![r] =
       [deployment_id |-> d, bundle_id |-> bundles[d].bundle_id,
        sequence |-> NextSequence(d), lifecycle |-> "Staged",
        pack_list |-> packs]]
  /\ UNCHANGED <<bundles, traffic_splits, endpoints, minted>>

SetLifecycle(r, lifecycle) ==
  revisions' = [revisions EXCEPT ![r].lifecycle = lifecycle]

\* Mutant: every hop of the chain is saved by itself.
WarmOneHop(r, expected, gate) ==
  /\ revisions[r] # None
  /\ revisions[r].lifecycle = expected
  /\ SetLifecycle(r, IF expected = "Staged" THEN "Warming"
                     ELSE IF expected = "Warming" THEN "Ready" ELSE expected)
  /\ UNCHANGED <<bundles, traffic_splits, endpoints, minted>>

\* The caller evaluated the gate outside any lock, when it saw the revision
\* at `expected`.  A passing gate lands the chain, a failing one is applied
\* only when the chain advanced and commits Failed.
WarmRevision(r, expected, gate) ==
  /\ revisions[r] # None
  /\ LET start == revisions[r].lifecycle
         end == WarmWalk(start)
     IN  /\ start \in {"Ready", expected}
         /\ end = "Ready"
         /\ SetLifecycle(r, IF start # end /\ ~gate THEN "Failed" ELSE end)
  /\ UNCHANGED <<bundles, traffic_splits, endpoints, minted>>

\* Mutant: any revision may be drained.
DrainAny(r) ==
  /\ revisions[r] # None
  /\ SetLifecycle(r, "Draining")
  /\ UNCHANGED <<bundles, traffic_splits, endpoints, minted>>

DrainRevision(r) ==
  /\ revisions[r] # None
  /\ DrainWalk(revisions[r].lifecycle) = "Draining"
  /\ SetLifecycle(r, "Draining")
  /\ UNCHANGED <<bundles, traffic_splits, endpoints, minted>>

\* Mutant: only the first entry of a split counts as live traffic.
RoutedFirst(r) ==
  \E d \in DeploymentIds :
    traffic_splits[d] # None /\ traffic_splits[d].entries[1].revision_id = r

\* A split of any deployment routes to the revision.
Routed(r) ==
  \E d \in DeploymentIds :
    traffic_splits[d] # None /\ r \in RoutedBy(traffic_splits[d])

ArchiveRevision(r) ==
  /\ revisions[r] # None
  /\ ArchiveWalk(revisions[r].lifecycle) = "Archived"
  /\ ~Routed(r)
  /\ SetLifecycle(r, "Archived")
  /\ UNCHANGED <<bundles, traffic_splits, endpoints, minted>>

-----------------------------------------------------------------------------
(* Traffic splits: engine/traffic.rs.                                      *)

\* Mutant: admission looks for the revision but not at its lifecycle.
AllPresent(entries) ==
  \A i \in DOMAIN entries : revisions[entries[i].revision_id] # None

AllReady(entries) ==
  \A i \in DOMAIN entries :
    /\ revisions[entries[i].revision_id] # None
    /\ revisions[entries[i].revision_id].lifecycle = "Ready"

\* Both lists stably sorted by revision id are the same list.
EntriesMatch(a, b) ==
  \A r \in RevisionIds :
    SelectSeq(a, LAMBDA e : e.revision_id = r) = SelectSeq(b, LAMBDA e : e.revision_id = r)

\* Mutant: the stash keeps the stash it carries.
StashWhole(split) == split

\* The copy kept for one-step rollback, without its own stash.
StashOf(split) ==
  [bundle_id |-> split.bundle_id, generation |-> split.generation,
   entries |-> split.entries, idempotency_key |-> split.idempotency_key]

Stamped(key) == [key |-> key, rollbacks |-> 0]

\* Mutant: a replay is not recognised.
CarriesNoKey(d, key) == FALSE

\* The request reuses the key of the live split: a replay when the entries
\* match, refused when they do not.  Neither changes the document.
CarriesKey(d, key) ==
  traffic_splits[d] # None /\ traffic_splits[d].idempotency_key = Stamped(key)

SetTrafficSplit(d, entries, key) ==
  /\ bundles[d] # None
  /\ \A i \in DOMAIN entries :
       /\ revisions[entries[i].revision_id] # None
       /\ revisions[entries[i].revision_id].deployment_id = d
  /\ IF CarriesKey(d, key)
     THEN /\ EntriesMatch(traffic_splits[d].entries, entries)
          /\ UNCHANGED traffic_splits
     ELSE LET old == traffic_splits[d]
          IN  /\ AllReady(entries)
              /\ EntriesValid(entries)
              /\ old # None => old.generation < MaxGeneration
              /\ traffic_splits' = [traffic_splits EXCEPT ![d] =
                   [bundle_id |-> bundles[d].bundle_id,
                    generation |-> IF old = None THEN 0 ELSE old.generation + 1,
                    entries |-> entries,
                    idempotency_key |-> Stamped(key),
                    previous |-> IF old = None THEN None ELSE StashOf(old)]]
  /\ UNCHANGED <<bundles, revisions, endpoints, minted>>

RollbackKey(stamped) == [stamped EXCEPT !.rollbacks = @ + 1]

\* Mutant: a rollback keeps its stash for another rollback.
RollbackKeepingStash(d) ==
  /\ traffic_splits[d] # None
  /\ LET live == traffic_splits[d]
         back == live.previous
     IN  /\ back # None
         /\ live.generation < MaxGeneration
         /\ AllReady(back.entries)
         /\ traffic_splits' = [traffic_splits EXCEPT ![d] =
              [bundle_id |-> back.bundle_id,
               generation |-> live.generation + 1,
               entries |-> back.entries,
               idempotency_key |-> RollbackKey(live.idempotency_key),
               previous |-> back]]
  /\ UNCHANGED <<bundles, revisions, endpoints, minted>>

RollbackTrafficSplit(d) ==
  /\ traffic_splits[d] # None
  /\ LET live == traffic_splits[d]
         back == live.previous
     IN  /\ back # None
         /\ live.generation < MaxGeneration
         /\ EntriesValid(back.entries)
         /\ AllReady(back.entries)
         /\ traffic_splits' = [traffic_splits EXCEPT ![d] =
              [bundle_id |-> back.bundle_id,
               generation |-> live.generation + 1,
               entries |-> back.entries,
               idempotency_key |-> RollbackKey(live.idempotency_key),
               previous |-> None]]
  /\ UNCHANGED <<bundles, revisions, endpoints, minted>>

-----------------------------------------------------------------------------
(* Explicit removal: engine/removal.rs.                                    *)

ClearTrafficSplit(d) ==
  /\ bundles[d] # None
  /\ bundles[d].status = "Archived"
  /\ traffic_splits' = [traffic_splits EXCEPT ![d] = None]
  /\ UNCHANGED <<bundles, revisions, endpoints, minted>>

\* No endpoint leads into the bundle, or another live deployment of it stays.
RetireLinksFree(d) ==
  \/ \E x \in DeploymentIds \ {d} :
       /\ bundles[x] # None
       /\ bundles[x].bundle_id = bundles[d].bundle_id
       /\ bundles[x].status # "Archived"
  \/ \A e \in EndpointIds : endpoints[e] # None =>
       /\ bundles[d].bundle_id \notin endpoints[e].linked_bundles
       /\ bundles[d].bundle_id # endpoints[e].welcome_flow

BeginRetire(d) ==
  /\ bundles[d] # None
  /\ RetireLinksFree(d)
  /\ bundles' = [bundles EXCEPT ![d].status = "Archived"]
  /\ traffic_splits' = [traffic_splits EXCEPT ![d] = None]
  /\ UNCHANGED <<revisions, endpoints, minted>>

-----------------------------------------------------------------------------
(* Messaging endpoint links: engine/messaging.rs.  The endpoint's key      *)
(* stamp and webhook secret are not modelled.                              *)

AddEndpoint(e) ==
  /\ endpoints[e] = None
  /\ endpoints' = [endpoints EXCEPT ![e] =
       [linked_bundles |-> {}, welcome_flow |-> None]]
  /\ UNCHANGED <<bundles, revisions, traffic_splits, minted>>

LinkBundle(e, b) ==
  /\ endpoints[e] # None
  /\ b \in DeployedBundles
  /\ endpoints' = [endpoints EXCEPT ![e].linked_bundles = @ \cup {b}]
  /\ UNCHANGED <<bundles, revisions, traffic_splits, minted>>

UnlinkBundle(e, b) ==
  /\ endpoints[e] # None
  /\ endpoints[e].welcome_flow # b
  /\ endpoints' = [endpoints EXCEPT ![e].linked_bundles = @ \ {b}]
  /\ UNCHANGED <<bundles, revisions, traffic_splits, minted>>

\* The welcome pack is looked up in current_revisions, which is empty.
SetWelcomeFlow(e, b) ==
  /\ endpoints[e] # None
  /\ b \in endpoints[e].linked_bundles
  /\ endpoints' = [endpoints EXCEPT ![e].welcome_flow = b]
  /\ UNCHANGED <<bundles, revisions, traffic_splits, minted>>

RemoveEndpoint(e) ==
  /\ endpoints[e] # None
  /\ endpoints' = [endpoints EXCEPT ![e] = None]
  /\ UNCHANGED <<bundles, revisions, traffic_splits, minted>>

-----------------------------------------------------------------------------
BundleVerb ==
  \E d \in DeploymentIds :
    \/ \E b \in BundleIds, c \in CustomerIds, overrides \in SUBSET PackIds :
         AddBundle(d, b, c, overrides)
    \/ \E status \in Status, overrides \in SUBSET PackIds :
         UpdateBundle(d, status, overrides)
    \/ RemoveBundle(d)
    \/ ClearTrafficSplit(d)
    \/ BeginRetire(d)

RevisionVerb ==
  \E r \in RevisionIds :
    \/ \E d \in DeploymentIds, packs \in SUBSET PackIds : StageRevision(r, d, packs)
    \/ \E expected \in Lifecycle, gate \in BOOLEAN : WarmRevision(r, expected, gate)
    \/ DrainRevision(r)
    \/ ArchiveRevision(r)

TrafficVerb ==
  \E d \in DeploymentIds :
    \/ \E entries \in EntryLists, key \in Keys : SetTrafficSplit(d, entries, key)
    \/ RollbackTrafficSplit(d)

EndpointVerb ==
  \E e \in EndpointIds :
    \/ AddEndpoint(e)
    \/ \E b \in BundleIds : LinkBundle(e, b) \/ UnlinkBundle(e, b) \/ SetWelcomeFlow(e, b)
    \/ RemoveEndpoint(e)

\* A transform runs and the store saves its result only if it validates.
Next ==
  /\ BundleVerb \/ RevisionVerb \/ TrafficVerb \/ EndpointVerb
  /\ Validate'

Spec == Init /\ [][Next]_vars

-----------------------------------------------------------------------------
(* Properties.                                                             *)

\* Every entry of the document has the shape the spec types give it.
TypeOK ==
  /\ bundles \in [DeploymentIds -> Deployment \cup {None}]
  /\ revisions \in [RevisionIds -> Revision \cup {None}]
  /\ traffic_splits \in [DeploymentIds -> Split \cup {None}]
  /\ endpoints \in [EndpointIds -> Endpoint \cup {None}]
  /\ minted \in SUBSET DeploymentIds

\* A live split only routes to revisions of its own deployment that have been
\* warmed and are serving or draining: staging, a failed gate, an archive or a
\* removal can never happen to a revision behind a split (archive_revision's
\* ActiveTrafficReference guard, remove_bundle's live-state guard and the
\* admission check of set and rollback together).
RoutedServing ==
  \A d \in DeploymentIds : traffic_splits[d] # None =>
    \A r \in RoutedBy(traffic_splits[d]) :
      /\ revisions[r] # None
      /\ revisions[r].deployment_id = d
      /\ revisions[r].lifecycle \in {"Ready", "Draining"}

\* No revision outlives its deployment, and it ships its deployment's bundle.
\* Environment::validate does not check this: it rests on stage_revision and
\* on remove_bundle pruning what it leaves behind.
RevisionsOwned ==
  \A r \in RevisionIds : revisions[r] # None =>
    /\ bundles[revisions[r].deployment_id] # None
    /\ bundles[revisions[r].deployment_id].bundle_id = revisions[r].bundle_id

\* Warming and Inactive exist only inside a chain walk; a committed document
\* never shows them, so a crash can never strand a revision between hops.
NoTransientLifecycle ==
  \A r \in RevisionIds : revisions[r] # None =>
    revisions[r].lifecycle \notin {"Warming", "Inactive"}

\* Sequence numbers order the revisions of a deployment strictly.
SequencesDistinct ==
  \A q, r \in RevisionIds :
    /\ q # r
    /\ revisions[q] # None
    /\ revisions[r] # None
    /\ revisions[q].deployment_id = revisions[r].deployment_id
    => revisions[q].sequence # revisions[r].sequence

\* The stash of a live split is the split it replaced, one generation back,
\* and still a complete split: same-key retries never overwrite it.
RollbackTarget ==
  \A d \in DeploymentIds :
    traffic_splits[d] # None /\ traffic_splits[d].previous # None =>
      /\ traffic_splits[d].previous.generation + 1 = traffic_splits[d].generation
      /\ traffic_splits[d].previous.bundle_id = traffic_splits[d].bundle_id
      /\ EntriesValid(traffic_splits[d].previous.entries)

\* At most one deployment per (bundle_id, customer_id), the billing anchor.
OneDeploymentPerCustomer ==
  \A c, d \in DeploymentIds :
    /\ c # d
    /\ bundles[c] # None
    /\ bundles[d] # None
    => <<bundles[c].bundle_id, bundles[c].customer_id>>
         # <<bundles[d].bundle_id, bundles[d].customer_id>>

\* An endpoint is never linked, or welcomed, into a bundle nobody deploys:
\* retiring a deployment and linking its bundle may interleave, and the
\* removal at the end of the retire is refused rather than stranding it.
NoStrandedEndpoint ==
  \A e \in EndpointIds : endpoints[e] # None =>
    \A b \in endpoints[e].linked_bundles \cup ({endpoints[e].welcome_flow} \ {None}) :
      \E d \in DeploymentIds : bundles[d] # None /\ bundles[d].bundle_id = b

\* Whatever changes what a deployment routes, a set or a rollback, routes to
\* Ready revisions only at that moment and advances the generation by one.
AdmissionStep ==
  \A d \in DeploymentIds :
    traffic_splits'[d] # None /\ traffic_splits'[d] # traffic_splits[d] =>
      /\ \A r \in RoutedBy(traffic_splits[d])' : revisions[r].lifecycle = "Ready"
      /\ traffic_splits[d] # None =>
           traffic_splits'[d].generation = traffic_splits[d].generation + 1
Admission == [][AdmissionStep]_vars

\* An archived revision never changes again; it only disappears, and then
\* with its deployment, whose id is never used again.
ArchivedStep ==
  \A r \in RevisionIds :
    revisions[r] # None /\ revisions[r].lifecycle = "Archived" =>
      \/ revisions'[r] = revisions[r]
      \/ /\ revisions'[r] = None
         /\ bundles'[revisions[r].deployment_id] = None
         /\ revisions[r].deployment_id \in minted'
ArchivedIsFinal == [][ArchivedStep]_vars

\* While a split carries a key, nothing but a removal changes what it routes
\* under that key: a retry of the live key is a no-op.
ReplayStep ==
  \A d \in DeploymentIds :
    traffic_splits[d] # None /\ traffic_splits'[d] # None =>
      (traffic_splits'[d].idempotency_key = traffic_splits[d].idempotency_key
         => traffic_splits'[d] = traffic_splits[d])
LiveKeyIsStable == [][ReplayStep]_vars

\* The document is well-formed after every sequence of verbs: no revision
\* outlives its deployment or rests between two hops of a chain, sequence
\* numbers are distinct, and a bundle has one deployment per customer.
DocumentSound ==
  /\ TypeOK
  /\ RevisionsOwned
  /\ NoTransientLifecycle
  /\ SequencesDistinct
  /\ OneDeploymentPerCustomer
=============================================================================
