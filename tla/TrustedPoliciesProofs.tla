----------------------- MODULE TrustedPoliciesProofs -----------------------
(***************************************************************************)
(* Proofs about TrustedPolicies.  A handler works on rows it loaded in an  *)
(* earlier transaction; what makes its commit safe is that a generation of *)
(* the trust root names one content: a handler whose generation is the     *)
(* row's holds the row (RootPinned).                                       *)
(***************************************************************************)
EXTENDS TrustedPolicies, TLAPS

RootRow == [generation : Nat, keys : SUBSET Keys]
EnvRow == [generation : Nat, share : Shares \cup {None}, ref : 0 .. MaxVersion]

Work == [pc : {"idle", "upsert", "build", "store"},
         verb : RootVerbs \cup {"policy", None}, key : Keys \cup {None},
         share : Shares \cup {None}, root : RootRow, env : EnvRow, tries : Nat]

RootOK(r) == r \in RootRow /\ (r.generation = 0 => r.keys = {})

RowsOK ==
  /\ RootOK(root)
  /\ env \in EnvRow /\ env.generation # 0
  /\ env.share = None <=> env.ref = 0
  /\ policies \in [1 .. MaxVersion -> Artifact \cup {NoPolicy}]
  /\ backups \subseteq EnvContent
  /\ \A b \in backups : b.share = None <=> b.ref = 0

\* The generation a trust-root request loaded names the root it loaded.
RootPinned(w, r) ==
  w.pc = "upsert" =>
    /\ w.verb \in RootVerbs /\ w.key \in Keys
    /\ w.root.generation <= r.generation
    /\ w.root.generation = r.generation => w.root = r

\* A policy request has a version left to write, and signs only with a root
\* that trusts the operator's key.
EnvPinned(w) ==
  w.pc \in {"build", "store"} =>
    /\ w.share \in Shares
    /\ w.env.ref < MaxVersion
    /\ w.pc = "store" => OperatorKey \in w.root.keys

\* A request that was retried holds a generation, so that it cannot lose
\* another first write.
Retried(w) == w.tries = 0 \/ (w.tries = 1 /\ w.root.generation # 0)

HandlerOK(w, r) == w \in Work /\ RootPinned(w, r) /\ EnvPinned(w) /\ Retried(w)

PoliciesInv ==
  /\ RowsOK
  /\ work \in [Handlers -> Work]
  /\ \A h \in Handlers : HandlerOK(work[h], root)
  /\ PinnedMatches

-----------------------------------------------------------------------------
(* What a handler knows.                                                   *)

\* A handler without a request knows nothing that could be wrong.
LEMMA IdleOK == \A r : HandlerOK(Idle, r)
BY PoliciesAssumption
   DEF HandlerOK, Work, Idle, RootRow, EnvRow, Absent, RootPinned, EnvPinned, Retried, None

\* A write moves the trust root to a new generation, so that what the other
\* handlers loaded stays true of the generation they loaded.
LEMMA NewerRoot ==
  ASSUME NEW w, NEW r \in RootRow, NEW s \in RootRow, HandlerOK(w, r),
         s.generation = r.generation + 1
  PROVE  HandlerOK(w, s)
BY DEF HandlerOK, Work, RootRow, RootPinned

\* A request that loads the trust root again keeps its shape.
LEMMA Loaded ==
  ASSUME NEW w \in Work, NEW r \in RootRow
  PROVE  [w EXCEPT !.tries = @ + 1, !.root = r] \in Work
<1>1. w.tries + 1 \in Nat
  BY DEF Work
<1>2. ASSUME NEW n \in Nat PROVE [w EXCEPT !.tries = n, !.root = r] \in Work
  BY DEF Work
<1> QED  BY <1>1, <1>2

\* A step of one handler leaves the requests of the others alone.
LEMMA OneHandler ==
  ASSUME work \in [Handlers -> Work], NEW h \in Handlers, NEW v, Set(h, v),
         HandlerOK(v, root'), \A g \in Handlers : HandlerOK(work[g], root')
  PROVE  work' \in [Handlers -> Work] /\ \A g \in Handlers : HandlerOK(work'[g], root')
BY DEF Set, HandlerOK

-----------------------------------------------------------------------------
(* The invariant.                                                          *)

\* A trust-root verb that finds its pin, loses it, or writes nothing.
LEMMA UpsertStep ==
  ASSUME PoliciesInv, NEW h \in Handlers, Upsert(h)
  PROVE  PoliciesInv'
<1> DEFINE w == work[h]
<1> USE DEF PoliciesInv
<1>1. /\ w \in Work /\ HandlerOK(w, root) /\ w.pc = "upsert"
      /\ UNCHANGED <<env, policies, backups, recovered>>
  BY DEF Upsert
<1>2. PinnedMatches'
  BY <1>1 DEF PinnedMatches, Pinned
<1>3. CASE UNCHANGED root /\ Done(h)
  <2>1. \A g \in Handlers : HandlerOK(work[g], root')
    BY <1>3
  <2> QED  BY <2>1, <1>1, <1>2, <1>3, OneHandler, IdleOK DEF RowsOK, Done
<1>4. CASE /\ ~NothingToWrite(w) /\ Matches(w) /\ Done(h)
           /\ root' = [generation |-> root.generation + 1, keys |-> Edited(w)]
  <2>1. root \in RootRow /\ root' \in RootRow /\ root'.generation = root.generation + 1
    BY <1>1, <1>4 DEF RowsOK, RootOK, RootRow, Edited, HandlerOK, RootPinned, Work
  <2>2. RowsOK'
    BY <1>1, <2>1 DEF RowsOK, RootOK, RootRow
  <2>3. \A g \in Handlers : HandlerOK(work[g], root')
    BY <2>1, NewerRoot
  <2> QED  BY <2>2, <2>3, <1>2, <1>4, OneHandler, IdleOK DEF Done
<1>5. CASE UNCHANGED root /\ ~Matches(w) /\ w.root.generation = 0 /\ Reload(h)
  <2> DEFINE v == [w EXCEPT !.tries = @ + 1, !.root = root]
  <2>1. root \in RootRow /\ root.generation # 0
    BY <1>5 DEF RowsOK, RootOK, Matches
  <2>2. w.tries = 0
    BY <1>1, <1>5 DEF HandlerOK, Retried
  <2>3. v \in Work
    BY <1>1, <2>1, <2>2, Loaded
  <2>4. HandlerOK(v, root')
    BY <1>1, <2>1, <2>2, <2>3, <1>5 DEF HandlerOK, Work, RootPinned, EnvPinned, Retried, RootRow
  <2>5. Set(h, v)
    BY <1>5 DEF Reload
  <2>6. \A g \in Handlers : HandlerOK(work[g], root')
    BY <1>5
  <2> HIDE DEF v
  <2> QED  BY <2>4, <2>5, <2>6, <1>1, <1>2, <1>5, OneHandler DEF RowsOK
<1> QED
  BY <1>3, <1>4, <1>5 DEF Upsert

\* A request is loaded, or a policy is signed: only that handler changes.
LEMMA LoadStep ==
  ASSUME PoliciesInv, NEW h \in Handlers,
         \/ \E verb \in RootVerbs, key \in Keys : LoadRoot(h, verb, key)
         \/ \E share \in Shares : LoadEnv(h, share)
         \/ BuildRevenuePolicy(h)
  PROVE  PoliciesInv'
<1> USE DEF PoliciesInv
<1>1. UNCHANGED <<root, env, policies, backups, recovered>>
  BY DEF LoadRoot, LoadEnv, BuildRevenuePolicy
<1>2. RowsOK' /\ PinnedMatches' /\ \A g \in Handlers : HandlerOK(work[g], root')
  BY <1>1 DEF RowsOK, PinnedMatches, Pinned
<1>3. root \in RootRow /\ env \in EnvRow
  BY DEF RowsOK, RootOK
<1>4. SUFFICES \E v : Set(h, v) /\ HandlerOK(v, root)
  BY <1>1, <1>2, OneHandler
<1>5. Idle \in Work /\ Idle.tries = 0
  BY IdleOK DEF HandlerOK, Idle
<1>6. ASSUME NEW verb \in RootVerbs, NEW key \in Keys, LoadRoot(h, verb, key)
      PROVE  \E v : Set(h, v) /\ HandlerOK(v, root)
  <2> DEFINE v == [Idle EXCEPT !.pc = "upsert", !.verb = verb, !.key = key, !.root = root]
  <2>1. v \in Work
    BY <1>3, <1>5 DEF Work
  <2>2. RootPinned(v, root)
    BY <1>3, <1>5, <2>1 DEF Work, RootPinned, RootRow
  <2>3. HandlerOK(v, root)
    BY <1>5, <2>1, <2>2 DEF HandlerOK, Work, EnvPinned, Retried
  <2> QED  BY <1>6, <2>3 DEF LoadRoot
<1>7. ASSUME NEW share \in Shares, LoadEnv(h, share)
      PROVE  \E v : Set(h, v) /\ HandlerOK(v, root)
  <2> DEFINE v == [Idle EXCEPT !.pc = "build", !.verb = "policy", !.share = share, !.env = env]
  <2>1. v \in Work
    BY <1>3, <1>5 DEF Work
  <2>2. HandlerOK(v, root)
    BY <1>5, <1>7, <2>1 DEF LoadEnv, HandlerOK, Work, RootPinned, EnvPinned, Retried
  <2> QED  BY <1>7, <2>2 DEF LoadEnv
<1>8. ASSUME BuildRevenuePolicy(h)
      PROVE  \E v : Set(h, v) /\ HandlerOK(v, root)
  <2>1. CASE OperatorKey \in root.keys
    <3> DEFINE v == [work[h] EXCEPT !.pc = "store", !.root = root]
    <3>0. work[h] \in Work /\ HandlerOK(work[h], root) /\ work[h].pc = "build"
      BY <1>8 DEF BuildRevenuePolicy
    <3>1. v \in Work
      BY <1>3, <3>0 DEF Work
    <3>2. root.generation # 0
      BY <2>1 DEF RowsOK, RootOK
    <3>3. HandlerOK(v, root)
      BY <2>1, <3>0, <3>1, <3>2 DEF HandlerOK, Work, RootPinned, EnvPinned, Retried
    <3> QED  BY <1>8, <2>1, <3>3 DEF BuildRevenuePolicy
  <2>2. CASE OperatorKey \notin root.keys
    BY <1>8, <2>2, IdleOK DEF BuildRevenuePolicy, Done
  <2> QED  BY <2>1, <2>2
<1> QED
  BY <1>6, <1>7, <1>8

\* A commit writes the artifact with the environment that pins it.
LEMMA StoreStep ==
  ASSUME PoliciesInv, NEW h \in Handlers, StoreRevenuePolicy(h)
  PROVE  PoliciesInv'
<1> DEFINE w == work[h]
           version == w.env.ref + 1
<1> USE PoliciesAssumption DEF PoliciesInv
<1>1. /\ w \in Work /\ HandlerOK(w, root) /\ w.pc = "store"
      /\ Done(h) /\ UNCHANGED <<root, backups, recovered>>
  BY DEF StoreRevenuePolicy
<1>2. /\ work' \in [Handlers -> Work]
      /\ \A g \in Handlers : HandlerOK(work'[g], root')
  BY <1>1, OneHandler, IdleOK DEF Done
<1>3. CASE UNCHANGED <<policies, env>>
  BY <1>1, <1>2, <1>3 DEF RowsOK, PinnedMatches, Pinned
<1>4. CASE /\ policies' = [policies EXCEPT ![version] = [share |-> w.share, key |-> OperatorKey]]
           /\ env' = [generation |-> env.generation + 1, share |-> w.share, ref |-> version]
  <2>1. w.share \in Shares /\ version \in 1 .. MaxVersion
    BY <1>1 DEF HandlerOK, EnvPinned, Work, EnvRow
  <2>2. policies' \in [1 .. MaxVersion -> Artifact \cup {NoPolicy}]
    BY <2>1, <1>4 DEF RowsOK, Artifact
  <2>3. env' \in EnvRow /\ env'.generation # 0 /\ (env'.share = None <=> env'.ref = 0)
    BY <2>1, <1>4 DEF RowsOK, EnvRow
  <2>4. Pinned'
    BY <2>1, <1>4 DEF RowsOK, Pinned
  <2> QED  BY <1>1, <1>2, <2>2, <2>3, <2>4 DEF RowsOK, PinnedMatches
<1> QED
  BY <1>3, <1>4 DEF StoreRevenuePolicy

\* Steps without a handler: the bundle goes, and backups are made and come back.
LEMMA BackupStep ==
  ASSUME PoliciesInv,
         RemoveBundle \/ CreateBackup \/ (\E b \in backups : RestoreEnv(b) \/ ImportEnv(b))
  PROVE  PoliciesInv'
<1> USE PoliciesAssumption DEF PoliciesInv
<1>1. ASSUME RemoveBundle PROVE PoliciesInv'
  <2>1. env' \in EnvRow /\ env'.generation # 0 /\ env'.share = None /\ env'.ref = 0
    BY <1>1 DEF RemoveBundle, RowsOK, EnvRow
  <2> QED  BY <1>1, <2>1 DEF RemoveBundle, RowsOK, PinnedMatches, Pinned
<1>2. ASSUME CreateBackup PROVE PoliciesInv'
  <2>1. Content(env) \in EnvContent /\ (Content(env).share = None <=> Content(env).ref = 0)
    BY DEF Content, EnvContent, RowsOK, EnvRow
  <2>2. RowsOK'
    BY <1>2, <2>1 DEF CreateBackup, RowsOK
  <2> QED  BY <1>2, <2>2 DEF CreateBackup, PinnedMatches, Pinned
<1>3. ASSUME NEW b \in backups, RestoreEnv(b) PROVE PoliciesInv'
  <2>1. env' \in EnvRow /\ env'.generation # 0 /\ (env'.share = None <=> env'.ref = 0)
    BY <1>3 DEF RestoreEnv, RowsOK, EnvRow, EnvContent
  <2> QED  BY <1>3, <2>1 DEF RestoreEnv, RowsOK, PinnedMatches
<1>4. ASSUME NEW b \in backups, ImportEnv(b) PROVE PoliciesInv'
  <2>1. env' \in EnvRow /\ env'.generation # 0 /\ (env'.share = None <=> env'.ref = 0)
    BY <1>4 DEF ImportEnv, RowsOK, EnvRow, EnvContent
  <2>2. RootOK(root') /\ policies' \in [1 .. MaxVersion -> Artifact \cup {NoPolicy}]
    BY <1>4 DEF ImportEnv, RootOK, RootRow, Absent
  <2>3. work' \in [Handlers -> Work] /\ \A g \in Handlers : HandlerOK(work'[g], root')
    BY <1>4, IdleOK DEF ImportEnv, HandlerOK
  <2> QED  BY <1>4, <2>1, <2>2, <2>3 DEF ImportEnv, RowsOK, PinnedMatches
<1> QED
  BY <1>1, <1>2, <1>3, <1>4

\* The invariant holds when the store is created.
LEMMA PoliciesStart == PoliciesInit => PoliciesInv
<1> USE PoliciesAssumption
<1> SUFFICES ASSUME PoliciesInit PROVE PoliciesInv
  OBVIOUS
<1>1. RowsOK
  BY DEF PoliciesInit, RowsOK, RootOK, RootRow, EnvRow, Absent
<1>2. work \in [Handlers -> Work] /\ \A h \in Handlers : HandlerOK(work[h], root)
  BY IdleOK DEF PoliciesInit, HandlerOK
<1> QED  BY <1>1, <1>2 DEF PoliciesInit, PoliciesInv, PinnedMatches, Pinned

\* Every step of every handler keeps the invariant.
LEMMA PoliciesStep == PoliciesInv /\ [PoliciesNext]_vars => PoliciesInv'
<1> SUFFICES ASSUME PoliciesInv, [PoliciesNext]_vars PROVE PoliciesInv'
  OBVIOUS
<1>1. CASE UNCHANGED vars
  BY <1>1 DEF vars, PoliciesInv, RowsOK, PinnedMatches, Pinned
<1>2. CASE PoliciesNext
  BY <1>2, UpsertStep, LoadStep, StoreStep, BackupStep DEF PoliciesNext
<1> QED
  BY <1>1, <1>2

\* The invariant holds of every behaviour.
THEOREM PoliciesInvariant == PoliciesSpec => []PoliciesInv
<1> QED
  BY PoliciesStart, PoliciesStep, PTL DEF PoliciesSpec

\* The invariant gives what the run checks in every state.
LEMMA PoliciesInvSound == PoliciesInv => PoliciesSound
<1> SUFFICES ASSUME PoliciesInv PROVE PoliciesSound
  OBVIOUS
<1> USE DEF PoliciesInv
<1>1. PoliciesTypeOK
  BY DEF RowsOK, RootOK, RootRow, EnvRow, Content, EnvContent, HandlerOK, Work, PoliciesTypeOK
<1>2. RetryBounded
  BY DEF RetryBounded, HandlerOK, Retried
<1> QED  BY <1>1, <1>2 DEF PoliciesSound

\* With any number of handlers, keys and versions: rows have their shape, the
\* pinned policy exists and holds the deployment's share until a backup comes
\* back, and no first write is retried twice.
THEOREM PoliciesSafe == PoliciesSpec => []PoliciesSound
<1> QED
  BY PoliciesInvariant, PoliciesInvSound, PTL

-----------------------------------------------------------------------------
(* What a commit may do.                                                   *)

\* A commit of a trust-root verb edits the root its handler holds.
LEMMA EditsWhatItHolds ==
  ASSUME PoliciesInv, NEW h \in Handlers, Upsert(h), root' # root
  PROVE  /\ work[h].pc = "upsert" /\ work[h].root = root /\ ~NothingToWrite(work[h])
         /\ work[h].verb \in RootVerbs
         /\ root'.keys = Edited(work[h])
BY DEF PoliciesInv, Upsert, Matches, HandlerOK, RootPinned

\* The trust root changes in a trust-root verb, or is gone with its database.
LEMMA RootWriters ==
  ASSUME PoliciesNext, root' # root
  PROVE  (\E h \in Handlers : Upsert(h)) \/ root' = Absent
BY DEF PoliciesNext, LoadRoot, LoadEnv, BuildRevenuePolicy, StoreRevenuePolicy,
       RemoveBundle, CreateBackup, RestoreEnv, ImportEnv

\* A policy row changes in a policy commit, or is gone with its database.
LEMMA PolicyWriters ==
  ASSUME PoliciesNext, policies' # policies
  PROVE  \/ \E h \in Handlers : StoreRevenuePolicy(h) /\ StillTrusted(work[h])
         \/ policies' = [v \in 1 .. MaxVersion |-> NoPolicy]
BY DEF PoliciesNext, LoadRoot, LoadEnv, BuildRevenuePolicy, StoreRevenuePolicy, Upsert,
       RemoveBundle, CreateBackup, RestoreEnv, ImportEnv

\* One step under the invariant signs only while the key is trusted.
LEMMA SignStep ==
  ASSUME PoliciesInv, PoliciesNext, NEW v \in 1 .. MaxVersion,
         policies'[v] \notin {policies[v], NoPolicy}
  PROVE  OperatorKey \in root.keys
<1>1. PICK h \in Handlers : StoreRevenuePolicy(h) /\ StillTrusted(work[h])
  BY PolicyWriters
<1>2. EnvPinned(work[h]) /\ work[h].pc = "store"
  BY <1>1 DEF PoliciesInv, HandlerOK, StoreRevenuePolicy
<1> QED  BY <1>1, <1>2 DEF EnvPinned, StillTrusted

\* One step under the invariant grants only what a request that saw the root
\* asks for, and edits one key.
LEMMA GrantStep ==
  ASSUME PoliciesInv, PoliciesNext, root' # root, root' # Absent
  PROVE  \E h \in Handlers :
           /\ work[h].pc = "upsert"
           /\ root'.keys \ {work[h].key} = root.keys \ {work[h].key}
           /\ \A key \in root'.keys \ root.keys :
                work[h].key = key
                /\ (root.generation # 0 => work[h].verb \in {"bootstrap", "add"})
<1>1. PICK h \in Handlers : Upsert(h)
  BY RootWriters
<1>2. /\ work[h].pc = "upsert" /\ work[h].root = root /\ ~NothingToWrite(work[h])
      /\ work[h].verb \in RootVerbs
      /\ root'.keys = Edited(work[h])
  BY <1>1, EditsWhatItHolds
<1> QED  BY <1>2 DEF Edited, NothingToWrite, RootVerbs, Granting

\* With any number of handlers and keys: an artifact is committed only while
\* its key is trusted, a seed never undoes a removal, and concurrent verbs
\* never overwrite each other's keys.
THEOREM TrustIsKept == PoliciesSpec => TrustKept
<1>1. PoliciesInv /\ [PoliciesNext]_vars
        => [(\E v \in 1 .. MaxVersion : policies'[v] \notin {policies[v], NoPolicy})
              => OperatorKey \in root.keys]_vars
  BY SignStep
<1>2. PoliciesInv /\ [PoliciesNext]_vars
        => [\A key \in root'.keys \ root.keys :
              root.generation # 0 =>
                \E h \in Handlers :
                  work[h].verb \in {"bootstrap", "add"} /\ work[h].key = key]_vars
  BY GrantStep DEF Absent
<1>3. PoliciesInv /\ [PoliciesNext]_vars
        => [root'.generation > root.generation =>
              \E h \in Handlers : work[h].pc = "upsert"
                /\ root'.keys \ {work[h].key} = root.keys \ {work[h].key}]_vars
  <2> SUFFICES ASSUME PoliciesInv, PoliciesNext, root'.generation > root.generation
               PROVE  root' # root /\ root' # Absent
    BY GrantStep
  <2> QED  BY DEF PoliciesInv, RowsOK, RootOK, RootRow, Absent
<1> QED
  BY <1>1, <1>2, <1>3, PoliciesInvariant, PTL
     DEF PoliciesSpec, TrustKept, SignedWhileTrusted, SeedNeverRegrants, OneKeyAtATime
=============================================================================
