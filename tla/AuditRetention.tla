--------------------------- MODULE AuditRetention ---------------------------
(***************************************************************************)
(* The audit log of the operator store server (sqlite.rs), its retention   *)
(* watermark, and the backups that carry both: restore into the database   *)
(* they were taken from, export, and import into the database that         *)
(* replaces a lost one.  Row ids are one AUTOINCREMENT sequence for all    *)
(* environments.  One connection serializes the transactions, so each is   *)
(* one action; the environment's content is StoreServer's subject.         *)
(***************************************************************************)
EXTENDS Naturals, FiniteSets

CONSTANTS
  Envs,
  Caps,         \* values of --audit-max-rows-per-env; 0 stands for no cap
  MaxBackups,   \* MAX_BACKUPS_PER_ENV
  MaxEvents,    \* bound on audit events
  MaxArtifacts, \* bound on exported artifacts
  MaxLosses     \* bound on losses of the database

ASSUME RetentionAssumption ==
  /\ Caps \subseteq Nat /\ Caps # {}
  /\ {MaxBackups, MaxEvents, MaxArtifacts, MaxLosses} \subseteq Nat

VARIABLES
  exists,       \* environments with a row
  rows,         \* audit_log, by environment: [id, event]
  nextId,       \* the AUTOINCREMENT sequence
  mark,         \* audit_retention, by environment: [through, total]
  backups,      \* by environment: snapshots of log and watermark
  pending,      \* snapshots a create_backup request has loaded and not yet stored
  cap,          \* the cap of the running server
  artifacts,    \* exported backups, which outlive the database
  events,       \* number of event ids handed out
  known,        \* history variable: the events of each environment's log, ever
  losses

database == <<exists, rows, nextId, mark, backups>>
vars == <<database, pending, cap, artifacts, events, known, losses>>

NoMark == [through |-> 0, total |-> 0]
HasMark(w) == w.total > 0

AuditRow == [id : Nat \ {0}, event : Nat \ {0}]
Mark == [through : Nat, total : Nat]
Snapshot == [rows : SUBSET AuditRow, mark : Mark, known : SUBSET (Nat \ {0})]

RetentionInit ==
  /\ exists = {}
  /\ rows = [e \in Envs |-> {}]
  /\ nextId = 1
  /\ mark = [e \in Envs |-> NoMark]
  /\ backups = [e \in Envs |-> {}]
  /\ pending = [e \in Envs |-> {}]
  /\ cap \in Caps
  /\ artifacts = {}
  /\ events = 0
  /\ known = [e \in Envs |-> {}]
  /\ losses = 0

-----------------------------------------------------------------------------
(* Appending and pruning.                                                  *)

\* The id of the (n+1)-th newest row.
Cutoff(R, n) == CHOOSE i \in {r.id : r \in R} : Cardinality({r \in R : r.id > i}) = n

\* prune_audit_log, on a log R with watermark w.
Overflow(R, n) == n # 0 /\ Cardinality(R) > n

Kept(R, n) == IF Overflow(R, n) THEN {r \in R : r.id > Cutoff(R, n)} ELSE R

\* Mutant: the watermark names the oldest row that is left.
ForgottenBehind(R, n, w) ==
  IF Overflow(R, n)
  THEN [through |-> Cutoff(R, n) - 1, total |-> w.total + Cardinality(R) - n]
  ELSE w

Forgotten(R, n, w) ==
  IF Overflow(R, n)
  THEN [through |-> Cutoff(R, n), total |-> w.total + Cardinality(R) - n]
  ELSE w

\* The audit half of journal_in_tx and record_audit: append, then prune.  R
\* and w are the log and the watermark the transaction has built so far, id
\* is the next of the sequence.
Journal(e, R, w, id) ==
  /\ events < MaxEvents
  /\ events' = events + 1
  /\ nextId' = id + 1
  /\ LET appended == R \cup {[id |-> id, event |-> events + 1]}
     IN  /\ rows' = [rows EXCEPT ![e] = Kept(appended, cap)]
         /\ mark' = [mark EXCEPT ![e] = Forgotten(appended, cap, w)]

Learn(e, more) == known' = [known EXCEPT ![e] = @ \cup more \cup {events + 1}]

\* A committed mutation, or a denied request of an authenticated caller: the
\* denial is recorded whether or not the environment exists.
Mutate(e) ==
  /\ e \in exists
  /\ Journal(e, rows[e], mark[e], nextId)
  /\ Learn(e, {})
  /\ UNCHANGED <<exists, backups, pending, cap, artifacts, losses>>

RecordDenial(e) ==
  /\ Journal(e, rows[e], mark[e], nextId)
  /\ Learn(e, {})
  /\ UNCHANGED <<exists, backups, pending, cap, artifacts, losses>>

CreateEnv(e) ==
  /\ e \notin exists
  /\ exists' = exists \cup {e}
  /\ Journal(e, rows[e], mark[e], nextId)
  /\ Learn(e, {})
  /\ UNCHANGED <<backups, pending, cap, artifacts, losses>>

-----------------------------------------------------------------------------
(* Backups.                                                                *)

Captured(e) == [rows |-> rows[e], mark |-> mark[e], known |-> known[e]]

\* create_backup loads its snapshot in a transaction of its own.
LoadEnvSnapshot(e) ==
  /\ e \in exists
  /\ pending[e] = {}
  /\ pending' = [pending EXCEPT ![e] = {Captured(e)}]
  /\ UNCHANGED <<database, cap, artifacts, events, known, losses>>

CreateBackup(e, snapshot) ==
  /\ pending' = [pending EXCEPT ![e] = {}]
  /\ \/ /\ Cardinality(backups[e]) < MaxBackups
        /\ backups' = [backups EXCEPT ![e] = @ \cup {snapshot}]
        /\ Journal(e, rows[e], mark[e], nextId)
        /\ Learn(e, {})
     \/ /\ Cardinality(backups[e]) >= MaxBackups
        /\ UNCHANGED <<backups, rows, mark, nextId, events, known>>
  /\ UNCHANGED <<exists, cap, artifacts, losses>>

DeleteBackup(e, b) ==
  /\ b \in backups[e]
  /\ backups' = [backups EXCEPT ![e] = @ \ {b}]
  /\ Journal(e, rows[e], mark[e], nextId)
  /\ Learn(e, {})
  /\ UNCHANGED <<exists, pending, cap, artifacts, losses>>

InUse == UNION {rows[e] : e \in Envs}

\* Mutant: every captured row is re-inserted.
ReplayedAll(e, b) ==
  {r \in b.rows : \A q \in InUse : q.id # r.id /\ q.event # r.event}

\* replay_audit_in_tx: rows above the live watermark that collide with none.
Replayed(e, b) ==
  {r \in b.rows : /\ r.id > mark[e].through
                  /\ \A q \in InUse : q.id # r.id /\ q.event # r.event}

Larger(i, j) == IF i > j THEN i ELSE j

\* Mutant: the captured id wins.
ReconciledCaptured(w, v) ==
  [through |-> IF HasMark(v) THEN v.through ELSE w.through, total |-> Larger(w.total, v.total)]

\* The watermark of a restore: reconciled by max.
Reconciled(w, v) == [through |-> Larger(w.through, v.through), total |-> Larger(w.total, v.total)]

\* restore_env_journaled
Restore(e, b) ==
  /\ e \in exists
  /\ b \in backups[e]
  /\ Journal(e, rows[e] \cup Replayed(e, b), Reconciled(mark[e], b.mark), nextId)
  /\ Learn(e, {})
  /\ UNCHANGED <<exists, backups, pending, cap, artifacts, losses>>

ExportBackup(e, b) ==
  /\ b \in backups[e]
  /\ Cardinality(artifacts) < MaxArtifacts
  /\ artifacts' = artifacts \cup {[env |-> e, snapshot |-> b]}
  /\ UNCHANGED <<database, pending, cap, events, known, losses>>

\* Mutant: the captured ids are kept.
RenumberedNot(R, first) == R

\* The captured rows in order, under the ids from `first` on.
Renumbered(R, first) ==
  {[id |-> first + Cardinality({q \in R : q.id < r.id}), event |-> r.event] : r \in R}

\* import_env_journaled.  The captured watermark is inserted as it is; a
\* watermark that is already there violates the primary key, and the storage
\* error undoes the whole import.
Import(a) ==
  LET e == a.env
      new == {r \in a.snapshot.rows : \A q \in InUse : q.event # r.event}
      carried == a.snapshot.mark
  IN  /\ e \notin exists
      /\ ~ (HasMark(carried) /\ HasMark(mark[e]))
      /\ exists' = exists \cup {e}
      /\ Journal(e, rows[e] \cup Renumbered(new, nextId),
                 IF HasMark(carried) THEN carried ELSE mark[e],
                 nextId + Cardinality(new))
      /\ Learn(e, a.snapshot.known)
      /\ UNCHANGED <<backups, pending, cap, artifacts, losses>>

-----------------------------------------------------------------------------
(* The server process and its disk.                                        *)

\* Mutant: a new cap only counts from the next append on.
RestartLazily(c) ==
  /\ cap' = c
  /\ pending' = [e \in Envs |-> {}]
  /\ UNCHANGED <<database, artifacts, events, known, losses>>

\* A restart with another cap runs reconcile_audit_retention.
Restart(c) ==
  /\ cap' = c
  /\ pending' = [e \in Envs |-> {}]
  /\ rows' = [e \in Envs |-> Kept(rows[e], c)]
  /\ mark' = [e \in Envs |-> Forgotten(rows[e], c, mark[e])]
  /\ UNCHANGED <<exists, nextId, backups, artifacts, events, known, losses>>

\* The database is lost; a server is started on a new one.
LoseStore ==
  /\ losses < MaxLosses
  /\ losses' = losses + 1
  /\ exists' = {}
  /\ rows' = [e \in Envs |-> {}]
  /\ nextId' = 1
  /\ mark' = [e \in Envs |-> NoMark]
  /\ backups' = [e \in Envs |-> {}]
  /\ pending' = [e \in Envs |-> {}]
  /\ known' = [e \in Envs |-> {}]
  /\ UNCHANGED <<cap, artifacts, events>>

RetentionNext ==
  \/ \E e \in Envs : Mutate(e) \/ RecordDenial(e) \/ CreateEnv(e) \/ LoadEnvSnapshot(e)
  \/ \E e \in Envs : \E b \in pending[e] : CreateBackup(e, b)
  \/ \E e \in Envs : \E b \in backups[e] : DeleteBackup(e, b) \/ Restore(e, b) \/ ExportBackup(e, b)
  \/ \E a \in artifacts : Import(a)
  \/ \E c \in Caps : Restart(c)
  \/ LoseStore

RetentionSpec == RetentionInit /\ [][RetentionNext]_vars

-----------------------------------------------------------------------------
(* Properties.                                                             *)

\* Logs, watermarks, backups and artifacts have the shape the schema gives
\* them, and no id is given out twice.
RetentionTypeOK ==
  /\ exists \subseteq Envs
  /\ nextId \in Nat \ {0}
  /\ rows \in [Envs -> SUBSET AuditRow]
  /\ \A q, r \in InUse : q.id = r.id => q = r
  /\ \A r \in InUse : r.id < nextId
  /\ mark \in [Envs -> Mark]
  /\ backups \in [Envs -> SUBSET Snapshot]
  /\ pending \in [Envs -> SUBSET Snapshot]
  /\ artifacts \subseteq [env : Envs, snapshot : Snapshot]
  /\ cap \in Caps

\* "The prune is recorded, not dropped silently": an event that entered an
\* environment's log is in the log or counted in pruned_total, exactly once,
\* across restores of old backups and imports of old artifacts.
AuditAccounted ==
  \A e \in Envs : mark[e].total + Cardinality(rows[e]) = Cardinality(known[e])

\* No environment is over the cap of the running server, not even one that is
\* never written again.
CapHolds == cap # 0 => \A e \in Envs : Cardinality(rows[e]) <= cap

\* "Live rows are never deleted": a row only goes with a watermark that
\* covers its id, or with the whole database.
ForgettingIsRecorded ==
  [][losses' # losses
     \/ \A e \in Envs : \A r \in rows[e] \ rows'[e] :
          r.id <= mark'[e].through /\ mark'[e].total > mark[e].total]_vars

\* "pruned_through_id always advances": true of the database that handed out
\* the ids, whatever backups are restored into it.  A watermark that came
\* with an import, from a lost database, may go back.
WatermarkAdvances ==
  [][losses' = 0 => \A e \in Envs : mark'[e].through >= mark[e].through]_vars

\* Rows, watermarks and counts agree, under the cap, whatever was restored,
\* imported or configured.
RetentionSound ==
  /\ RetentionTypeOK
  /\ AuditAccounted
  /\ CapHolds

\* No step forgets silently, and none forgets that it forgot: a row goes only
\* with a watermark that covers it, and the watermark does not go back.
RetentionMonotonic == ForgettingIsRecorded /\ WatermarkAdvances
=============================================================================
