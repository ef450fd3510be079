-------------------------- MODULE TrustedPolicies --------------------------
(***************************************************************************)
(* The trust root of an environment and the signed revenue policies behind *)
(* the operator store server (api.rs, sqlite.rs, greentic-operator-trust): *)
(* handlers that load rows, build a document from them and write it in a   *)
(* later transaction.  The environment is cut down to one deployment, its  *)
(* revenue share and the policy version it pins.  Answers, keys and the    *)
(* ledger are StoreServer's subject.                                       *)
(***************************************************************************)
EXTENDS Naturals, FiniteSets

CONSTANTS
  Handlers, Keys, Shares,
  OperatorKey,      \* the server's signing key
  MaxVersion,       \* bound on policy versions
  MaxCommits        \* bound on committed requests

None == "none"

ASSUME PoliciesAssumption ==
  /\ OperatorKey \in Keys
  /\ None \notin Shares
  /\ MaxVersion \in Nat \ {0}
  /\ MaxCommits \in Nat

VARIABLES
  root,         \* trust_roots row: [generation, keys], generation 0 if absent
  env,          \* environments row: [generation, share, ref]
  policies,     \* revenue_policies rows by version: [share, key]
  backups,      \* contents of the environment row, backed up
  work,         \* the request of each handler
  commits,
  recovered     \* history variable: a backup was restored or imported

vars == <<root, env, policies, backups, work, commits, recovered>>

Absent == [generation |-> 0, keys |-> {}]
NoPolicy == [share |-> None, key |-> None]
Content(row) == [share |-> row.share, ref |-> row.ref]

Idle == [pc |-> "idle", verb |-> None, key |-> None, share |-> None,
         root |-> Absent, env |-> [generation |-> 0, share |-> None, ref |-> 0], tries |-> 0]

Granting == {"bootstrap", "seed", "add"}
RootVerbs == Granting \cup {"remove"}

PoliciesInit ==
  /\ root = Absent
  /\ env = [generation |-> 1, share |-> None, ref |-> 0]
  /\ policies = [v \in 1 .. MaxVersion |-> NoPolicy]
  /\ backups = {}
  /\ work = [h \in Handlers |-> Idle]
  /\ commits = 0
  /\ recovered = FALSE

Set(h, w) == work' = [work EXCEPT ![h] = w]

Done(h) == Set(h, Idle)

Commit == commits < MaxCommits /\ commits' = commits + 1

-----------------------------------------------------------------------------
(* Trust-root verbs.                                                       *)

\* load_trust_root_request.  Bootstrap and seed grant the operator's key.
LoadRoot(h, verb, key) ==
  /\ work[h].pc = "idle"
  /\ verb \in {"bootstrap", "seed"} => key = OperatorKey
  /\ Set(h, [Idle EXCEPT !.pc = "upsert", !.verb = verb, !.key = key, !.root = root])
  /\ UNCHANGED <<root, env, policies, backups, commits, recovered>>

\* Mutant: a seed always grants.
NothingToWriteNever(w) == w.verb = "remove" /\ w.key \notin w.root.keys

\* A seed that finds a row, and a remove that removes nothing, write nothing.
NothingToWrite(w) ==
  \/ w.verb = "seed" /\ w.root.generation # 0
  \/ w.verb = "remove" /\ w.key \notin w.root.keys

\* apply_add and apply_remove
Edited(w) == IF w.verb = "remove" THEN w.root.keys \ {w.key} ELSE w.root.keys \cup {w.key}

\* Mutant: an existing row is overwritten whatever its generation.
MatchesAlways(w) == TRUE

\* The pin of doc_and_precondition holds: the row is the one that was loaded.
Matches(w) == w.root.generation = root.generation

\* Mutant: the retry of a lost first write comes without a pin again.
ReloadUnpinned(h) ==
  Set(h, [work[h] EXCEPT !.tries = @ + 1])

\* The first write raced a creator: load again, and write with a pin.
Reload(h) ==
  Set(h, [work[h] EXCEPT !.tries = @ + 1, !.root = root])

\* persist_trust_root_mutation over upsert_trust_root_journaled.
Upsert(h) ==
  LET w == work[h] IN
  /\ w.pc = "upsert"
  /\ \/ NothingToWrite(w) /\ Done(h) /\ UNCHANGED <<root, commits>>
     \/ /\ ~ NothingToWrite(w)
        /\ \/ /\ Matches(w)
              /\ Commit
              /\ root' = [generation |-> root.generation + 1, keys |-> Edited(w)]
              /\ Done(h)
           \/ /\ ~ Matches(w)
              /\ IF w.root.generation = 0 /\ w.verb \in {"bootstrap", "add"}
                 THEN Reload(h)
                 ELSE Done(h)                   \* seed: null; a stale pin: 412
              /\ UNCHANGED <<root, commits>>
  /\ UNCHANGED <<env, policies, backups, recovered>>

-----------------------------------------------------------------------------
(* Bundles and their revenue policies.                                     *)

\* add_bundle, or update_bundle with another share.
LoadEnv(h, share) ==
  /\ work[h].pc = "idle"
  /\ share # env.share
  /\ env.ref < MaxVersion
  /\ Set(h, [Idle EXCEPT !.pc = "build", !.verb = "policy", !.share = share, !.env = env])
  /\ UNCHANGED <<root, env, policies, backups, commits, recovered>>

\* build_revenue_policy refuses to sign with a key the root does not list.
BuildRevenuePolicy(h) ==
  /\ work[h].pc = "build"
  /\ IF OperatorKey \in root.keys
     THEN Set(h, [work[h] EXCEPT !.pc = "store", !.root = root])
     ELSE Done(h)
  /\ UNCHANGED <<root, env, policies, backups, commits, recovered>>

\* Mutant: the trust root is not checked again.
StillTrustedAssumed(w) == TRUE

StillTrusted(w) == w.root = root

\* Mutant: the artifact is written in a transaction of its own.
StoreRevenuePolicySplit(h) ==
  LET w == work[h]
      version == w.env.ref + 1
  IN  /\ w.pc = "store"
      /\ StillTrusted(w)
      /\ policies' = [policies EXCEPT ![version] = [share |-> w.share, key |-> OperatorKey]]
      /\ IF w.env = env
         THEN /\ Commit
              /\ env' = [generation |-> env.generation + 1, share |-> w.share, ref |-> version]
         ELSE UNCHANGED <<env, commits>>
      /\ Done(h)
      /\ UNCHANGED <<root, backups, recovered>>

\* update_env_with_revenue_policy_journaled: pin, artifact and environment in
\* one transaction.
StoreRevenuePolicy(h) ==
  LET w == work[h]
      version == w.env.ref + 1
  IN  /\ w.pc = "store"
      /\ IF StillTrusted(w) /\ w.env.generation = env.generation
         THEN /\ Commit
              /\ policies' = [policies EXCEPT ![version] = [share |-> w.share, key |-> OperatorKey]]
              /\ env' = [generation |-> env.generation + 1, share |-> w.share, ref |-> version]
         ELSE UNCHANGED <<policies, env, commits>>
      /\ Done(h)
      /\ UNCHANGED <<root, backups, recovered>>

\* Mutant: the version counter outlives the deployment.
RemoveBundleCounting ==
  /\ env.share # None
  /\ Commit
  /\ env' = [generation |-> env.generation + 1, share |-> None, ref |-> env.ref]
  /\ UNCHANGED <<root, policies, backups, work, recovered>>

\* remove_bundle; policy rows are never deleted.
RemoveBundle ==
  /\ env.share # None
  /\ Commit
  /\ env' = [generation |-> env.generation + 1, share |-> None, ref |-> 0]
  /\ UNCHANGED <<root, policies, backups, work, recovered>>

-----------------------------------------------------------------------------
(* Backups hold the environment row, without its trust root and policies.  *)

CreateBackup ==
  /\ backups' = backups \cup {Content(env)}
  /\ UNCHANGED <<root, env, policies, work, commits, recovered>>

RestoreEnv(b) ==
  /\ Commit
  /\ recovered' = TRUE
  /\ env' = [generation |-> env.generation + 1, share |-> b.share, ref |-> b.ref]
  /\ UNCHANGED <<root, policies, backups, work>>

\* The database is lost, with the requests in flight, and the exported backup
\* is imported into a new one.
ImportEnv(b) ==
  /\ Commit
  /\ recovered' = TRUE
  /\ env' = [generation |-> 1, share |-> b.share, ref |-> b.ref]
  /\ root' = Absent
  /\ policies' = [v \in 1 .. MaxVersion |-> NoPolicy]
  /\ work' = [h \in Handlers |-> Idle]
  /\ UNCHANGED backups

PoliciesNext ==
  \/ \E h \in Handlers :
       \/ \E verb \in RootVerbs, key \in Keys : LoadRoot(h, verb, key)
       \/ \E share \in Shares : LoadEnv(h, share)
       \/ Upsert(h) \/ BuildRevenuePolicy(h) \/ StoreRevenuePolicy(h)
  \/ RemoveBundle
  \/ CreateBackup
  \/ \E b \in backups : RestoreEnv(b) \/ ImportEnv(b)

PoliciesSpec == PoliciesInit /\ [][PoliciesNext]_vars

-----------------------------------------------------------------------------
(* Properties.                                                             *)

Artifact == [share : Shares, key : Keys]
EnvContent == [share : Shares \cup {None}, ref : 0 .. MaxVersion]

\* Rows and requests have the shape the schema and the handlers give them; an
\* undeployed bundle pins no policy.
PoliciesTypeOK ==
  /\ root.generation \in Nat /\ root.keys \subseteq Keys
  /\ root.generation = 0 => root.keys = {}
  /\ Content(env) \in EnvContent /\ env.generation \in Nat \ {0}
  /\ env.share = None <=> env.ref = 0
  /\ policies \in [1 .. MaxVersion -> Artifact \cup {NoPolicy}]
  /\ backups \subseteq EnvContent
  /\ \A h \in Handlers : work[h].pc \in {"idle", "upsert", "build", "store"}

Pinned == env.ref # 0 => policies[env.ref].share = env.share

\* "Committed env state, the artifact it references, and the trust root that
\* authorized the signature can never diverge": the pinned version exists and
\* holds the share of the deployment, as long as no backup came back.
PinnedMatches == recovered \/ Pinned

\* A revocation is not raced past: an artifact is only committed while the
\* key that signed it is trusted.
SignedWhileTrusted ==
  [][(\E v \in 1 .. MaxVersion : policies'[v] \notin {policies[v], NoPolicy})
       => OperatorKey \in root.keys]_vars

\* Only bootstrap and add grant a key on a root that exists: a seed that was
\* loaded before a removal cannot undo it.
SeedNeverRegrants ==
  [][\A key \in root'.keys \ root.keys :
       root.generation # 0 =>
         \E h \in Handlers : work[h].verb \in {"bootstrap", "add"} /\ work[h].key = key]_vars

\* Concurrent trust-root verbs do not overwrite each other: a commit adds or
\* removes the one key its request names.
OneKeyAtATime ==
  [][root'.generation > root.generation =>
       \E h \in Handlers : work[h].pc = "upsert"
         /\ root'.keys \ {work[h].key} = root.keys \ {work[h].key}]_vars

\* "Terminates after at most 2 iterations": the retry of a lost first write
\* carries a pin and is not retried again.
RetryBounded == \A h \in Handlers : work[h].tries <= 1

\* Rows agree with each other, and no first write is retried twice.
PoliciesSound ==
  /\ PoliciesTypeOK
  /\ PinnedMatches
  /\ RetryBounded

\* What a commit may do: sign only with a trusted key, grant only what was
\* asked for after the root it saw, and edit only the key it names.
TrustKept ==
  /\ SignedWhileTrusted
  /\ SeedNeverRegrants
  /\ OneKeyAtATime
=============================================================================
