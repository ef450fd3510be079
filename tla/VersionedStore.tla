-------------------------- MODULE VersionedStore --------------------------
(***************************************************************************)
(* What the operator store server promises about one environment (the A8   *)
(* contract of crates/greentic-deploy-spec/src/remote.rs): the document is *)
(* a history of versions, every write is applied to the latest one and     *)
(* appends the next, and a key that is still remembered is used only once. *)
(* There are no requests, no races and no crashes here.                    *)
(***************************************************************************)
EXTENDS Integers, Sequences

CONSTANTS
  Keys,            \* Idempotency-Key values
  Verbs,           \* requests, told apart by their fingerprint
  Creates,         \* the verbs that make the environment
  Silent,          \* <<verb, content>>: journaled without a write
  Contents,        \* documents; an ETag is the hash of one
  Apply(_, _),     \* the engine: a verb on a document, None when refused
  MaxLedger,       \* MAX_LEDGER_ROWS_PER_ENV
  None

ASSUME StoreAssumption ==
  /\ Creates \subseteq Verbs
  /\ Silent \subseteq (Verbs \ Creates) \X Contents
  /\ None \notin Contents \cup Keys \cup Verbs
  /\ \A v \in Verbs, c \in Contents \cup {None} : Apply(v, c) \in Contents \cup {None}
  /\ MaxLedger \in Nat \ {0}

Revision == [generation: Nat, etag: Contents]

\* A ledger row: the request a key was used for and the revision its response
\* names (for an error that is committed, its audit record).
Row == [key: Keys, verb: Verbs, response: Revision]

VARIABLES
  versions,   \* the contents of generations 1, 2, ...
  log         \* the rows of all journaled requests, in commit order

storeVars == <<versions, log>>

\* The newest n elements of a sequence.
Newest(s, n) == SubSeq(s, IF Len(s) > n THEN Len(s) - n + 1 ELSE 1, Len(s))

KeysOf(rows) == {rows[i].key : i \in DOMAIN rows}

Init ==
  /\ versions = <<>>
  /\ log = <<>>

Latest == IF versions = <<>> THEN None ELSE versions[Len(versions)]

\* A write replaces the latest version, under a key not remembered.
Write(key, verb) ==
  /\ verb \in Creates <=> versions = <<>>
  /\ <<verb, Latest>> \notin Silent
  /\ key \notin KeysOf(Newest(log, MaxLedger))
  /\ Apply(verb, Latest) # None
  /\ versions' = Append(versions, Apply(verb, Latest))
  /\ log' = Append(log, [key |-> key, verb |-> verb,
                         response |-> [generation |-> Len(versions) + 1,
                                       etag |-> Apply(verb, Latest)]])

\* A note names a version that exists and changes none.
Note(key, verb) ==
  /\ key \notin KeysOf(Newest(log, MaxLedger))
  /\ \E g \in DOMAIN versions :
       /\ <<verb, versions[g]>> \in Silent
       /\ log' = Append(log, [key |-> key, verb |-> verb,
                              response |-> [generation |-> g, etag |-> versions[g]]])
  /\ UNCHANGED versions

Next == \E key \in Keys, verb \in Verbs : Write(key, verb) \/ Note(key, verb)

Spec == Init /\ [][Next]_storeVars

-----------------------------------------------------------------------------
(* What a client may rely on.                                              *)

\* A key is used again only after MaxLedger other requests were journaled.
KeyOnce ==
  \A i, j \in DOMAIN log : i < j /\ log[i].key = log[j].key => j - i > MaxLedger

\* The revision a response names did exist, with the content of its ETag.
ResponsesTrue ==
  \A i \in DOMAIN log :
    LET r == log[i].response IN r.generation \in DOMAIN versions /\ r.etag = versions[r.generation]

\* What a version was made of.
Prior(vs, g) == IF g = 1 THEN None ELSE vs[g - 1]

\* Every version is the journaled answer to one request, computed from the
\* version before it: no update is lost, and none comes from nowhere.
HistoryExplained ==
  \A g \in DOMAIN versions : \E i \in DOMAIN log :
    /\ log[i].response = [generation |-> g, etag |-> versions[g]]
    /\ <<log[i].verb, Prior(versions, g)>> \notin Silent
    /\ Apply(log[i].verb, Prior(versions, g)) = versions[g]

HistorySound == KeyOnce /\ ResponsesTrue /\ HistoryExplained
=============================================================================
