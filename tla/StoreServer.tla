---------------------------- MODULE StoreServer ----------------------------
(***************************************************************************)
(* The mutation path of the operator store server (src/api.rs and          *)
(* src/sqlite.rs of crates/greentic-operator-store-server) for one         *)
(* environment.  A handler is a task with an await between the replay      *)
(* gate, the load, the commit transaction and the recheck, so handlers     *)
(* interleave there; clients time out and send the same key again while    *)
(* the first attempt still runs, and a crash drops every handler.  A       *)
(* transaction of SQLite is one step.                                      *)
(*                                                                         *)
(* versions and log are history: the server keeps the last version and the *)
(* newest rows of the log only.                                            *)
(***************************************************************************)
EXTENDS VersionedStore

CONSTANTS
  Pinned,       \* the verbs that must carry an If-Match (reconcile)
  Attempts,     \* handlers that can run at the same time
  MaxCommits    \* bound on the journaled requests

ASSUME ServerAssumption ==
  /\ Pinned \subseteq Verbs \ Creates
  /\ MaxCommits \in Nat

VARIABLES
  content,      \* environments.data, None while there is no row
  generation,   \* environments.generation
  ledger,       \* idempotency_ledger, oldest row first
  attempt       \* the handlers

stored == <<content, generation, ledger, versions, log>>
serverVars == <<content, generation, ledger, versions, log, attempt>>

\* What a handler has read of the environment row.
Loaded == [generation: Nat, content: Contents \cup {None}]

AttemptPc == {"free", "gate", "load", "commit", "recheck", "answered", "failed"}

Attempt == [pc: AttemptPc, key: Keys \cup {None}, verb: Verbs \cup {None},
            if_match: Contents \cup {None}, loaded: Loaded,
            response: Revision \cup {None}]

Nothing == [generation |-> 0, content |-> None]

Free == [pc |-> "free", key |-> None, verb |-> None, if_match |-> None,
         loaded |-> Nothing, response |-> None]

ServerInit ==
  /\ Init
  /\ content = None
  /\ generation = 0
  /\ ledger = <<>>
  /\ attempt = [a \in Attempts |-> Free]

Moves(a, pc) == attempt' = [attempt EXCEPT ![a].pc = pc]

-----------------------------------------------------------------------------
(* A client's request reaches the server: the first time, or again after a *)
(* timeout with the key and the body of an attempt that may still run.     *)
(* The If-Match is an ETag the client saw, or is left out.                 *)

Send(a, key, verb, etag) ==
  /\ attempt[a].pc = "free"
  /\ etag \in {versions[g] : g \in DOMAIN versions} \cup {None}
  /\ verb \in Pinned => etag # None
  /\ attempt' = [attempt EXCEPT ![a] =
       [pc |-> "gate", key |-> key, verb |-> verb, if_match |-> etag,
        loaded |-> Nothing, response |-> None]]
  /\ UNCHANGED stored

RowsOf(key) == {i \in DOMAIN ledger : ledger[i].key = key}

\* replay_gate found the key with the same fingerprint: i is its row.
Answer(a, i) ==
  attempt' = [attempt EXCEPT ![a].pc = "answered", ![a].response = ledger[i].response]

Gate(a) ==
  /\ attempt[a].pc = "gate"
  /\ \/ /\ RowsOf(attempt[a].key) = {}
        /\ Moves(a, "load")
     \/ \E i \in RowsOf(attempt[a].key) :
          IF ledger[i].verb = attempt[a].verb THEN Answer(a, i) ELSE Moves(a, "failed")
  /\ UNCHANGED stored

\* load_env found the row, and a reconcile's If-Match is its ETag.
Loadable(r) == content # None /\ (r.verb \in Pinned => r.if_match = content)

\* A create loads nothing.
Load(a) ==
  /\ attempt[a].pc = "load"
  /\ LET r == attempt[a]
     IN  \/ r.verb \in Creates /\ Moves(a, "commit")
         \/ /\ r.verb \notin Creates /\ Loadable(r)
            /\ attempt' = [attempt EXCEPT ![a].pc = "commit",
                 ![a].loaded = [generation |-> generation, content |-> content]]
         \/ r.verb \notin Creates /\ ~Loadable(r) /\ Moves(a, "recheck")
  /\ UNCHANGED stored

-----------------------------------------------------------------------------
(* The commit transaction.                                                 *)

\* Mutant: a client's If-Match replaces the pin on the loaded revision.
PreconditionEtagOnly(r) ==
  IF r.verb \in Creates THEN content = None
  ELSE content = (IF r.if_match = None THEN r.loaded.content ELSE r.if_match)

\* Mutant: the If-Match of the client is not looked at.
PreconditionGenerationOnly(r) == generation = r.loaded.generation

\* resolve_precondition pins the loaded generation and the client's ETag or
\* else the loaded one; a create needs the row to be absent.
Precondition(r) ==
  \/ r.verb \in Creates /\ content = None
  \/ /\ r.verb \notin Creates
     /\ generation = r.loaded.generation
     /\ content = (IF r.if_match = None THEN r.loaded.content ELSE r.if_match)

\* A reconcile, a completion, and a split or endpoint verb that changes nothing.
IsSilent(r) == <<r.verb, r.loaded.content>> \in Silent

\* The response is built from what was loaded, before the commit.
Prepared(r) ==
  IF IsSilent(r)
  THEN [generation |-> r.loaded.generation, etag |-> r.loaded.content]
  ELSE [generation |-> r.loaded.generation + 1, etag |-> Apply(r.verb, r.loaded.content)]

\* Mutant: an error of the engine is ignored.
RefusedUnchecked(r) ==
  \/ ~IsSilent(r) /\ ~Precondition(r)
  \/ RowsOf(r.key) # {}

\* The engine refuses, the precondition fails or the key is taken: the
\* transaction rolls back.
Refused(r) ==
  \/ ~IsSilent(r) /\ (Apply(r.verb, r.loaded.content) = None \/ ~Precondition(r))
  \/ RowsOf(r.key) # {}

\* Mutant: eviction leaves one row too few.
EvictedEarly(rows) == Newest(rows, MaxLedger - 1)

\* journal_in_tx keeps the newest MaxLedger rows.
Evicted(rows) == Newest(rows, MaxLedger)

Commit(a) ==
  /\ attempt[a].pc = "commit"
  /\ LET r == attempt[a]
         row == [key |-> r.key, verb |-> r.verb, response |-> Prepared(r)]
     IN  \/ Refused(r) /\ Moves(a, "recheck") /\ UNCHANGED stored
         \/ /\ ~Refused(r)
            /\ Len(log) < MaxCommits
            /\ attempt' = [attempt EXCEPT ![a].pc = "answered", ![a].response = row.response]
            /\ ledger' = Evicted(Append(ledger, row))
            /\ log' = Append(log, row)
            /\ \/ IsSilent(r) /\ UNCHANGED <<content, generation, versions>>
               \/ /\ ~IsSilent(r)
                  /\ content' = Apply(r.verb, r.loaded.content)
                  /\ generation' = generation + 1
                  /\ versions' = Append(versions, Apply(r.verb, r.loaded.content))

\* Mutant: the error is returned as it is.
RecheckNothing(a) ==
  /\ attempt[a].pc = "recheck"
  /\ Moves(a, "failed")
  /\ UNCHANGED stored

\* Mutant: any row of the key is replayed.
RecheckKeyOnly(a) ==
  /\ attempt[a].pc = "recheck"
  /\ IF RowsOf(attempt[a].key) # {}
     THEN \E i \in RowsOf(attempt[a].key) : Answer(a, i) ELSE Moves(a, "failed")
  /\ UNCHANGED stored

\* error_or_replay: a duplicate of the same request may have won meanwhile.
Recheck(a) ==
  /\ attempt[a].pc = "recheck"
  /\ LET same == {i \in RowsOf(attempt[a].key) : ledger[i].verb = attempt[a].verb}
     IN  IF same # {} THEN \E i \in same : Answer(a, i) ELSE Moves(a, "failed")
  /\ UNCHANGED stored

\* The client has its answer, or went away and the handler is dropped.
Done(a) ==
  /\ attempt[a].pc # "free"
  /\ attempt' = [attempt EXCEPT ![a] = Free]
  /\ UNCHANGED stored

\* A restart keeps the database and nothing else.
Crash ==
  /\ attempt # [a \in Attempts |-> Free]
  /\ attempt' = [a \in Attempts |-> Free]
  /\ UNCHANGED stored

ServerNext ==
  \/ \E a \in Attempts :
       \/ \E key \in Keys, verb \in Verbs, etag \in Contents \cup {None} :
            Send(a, key, verb, etag)
       \/ Gate(a) \/ Load(a) \/ Commit(a) \/ Recheck(a) \/ Done(a)
  \/ Crash

ServerSpec == ServerInit /\ [][ServerNext]_serverVars

-----------------------------------------------------------------------------
(* Properties.                                                             *)

\* The rows and the handlers have the shape the code gives them.
ServerTypeOK ==
  /\ content \in Contents \cup {None}
  /\ generation \in Nat
  /\ ledger \in Seq(Row)
  /\ attempt \in [Attempts -> Attempt]
  /\ versions \in Seq(Contents)
  /\ log \in Seq(Row)
  /\ \A a \in Attempts : attempt[a].pc # "free" => attempt[a].key # None /\ attempt[a].verb # None

\* Whatever handlers race, time out or crash, the server behaves like the
\* contract: each write replaced the version it was computed from, and no
\* remembered key was used twice.
ImplementsContract == Spec

\* Every answer a client gets, applied or replayed, is the response of a
\* request that was committed under its key with its fingerprint.
AnswersCommitted ==
  \A a \in Attempts : attempt[a].pc = "answered" =>
    \E i \in DOMAIN log : log[i] = [key |-> attempt[a].key, verb |-> attempt[a].verb,
                                    response |-> attempt[a].response]

\* Clients can rely on the history as well: a key that is remembered was used
\* once, a response names a revision that existed, and every version is the
\* answer to one journaled request on the version before it.
AnswersSound == AnswersCommitted /\ HistorySound

\* A write sent with an If-Match replaces the content the client saw: no
\* other writer's different document is overwritten unseen.
NoLostUpdateStep ==
  \A a \in Attempts :
    /\ attempt[a].pc = "commit" /\ attempt[a].if_match # None
    /\ attempt[a].verb \notin Creates
    /\ versions' # versions /\ attempt'[a].pc = "answered"
    => content = attempt[a].if_match
NoLostUpdate == [][NoLostUpdateStep]_serverVars

\* A request is told it failed only if no remembered row answers it: a
\* duplicate that lost the race gets the winner's response.
NoFalseFailureStep ==
  \A a \in Attempts :
    attempt[a].pc # "failed" /\ attempt'[a].pc = "failed" =>
      \A i \in RowsOf(attempt[a].key) : ledger[i].verb # attempt[a].verb
NoFalseFailure == [][NoFalseFailureStep]_serverVars
=============================================================================
