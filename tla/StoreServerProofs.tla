------------------------- MODULE StoreServerProofs -------------------------
(***************************************************************************)
(* The store server implements its contract for every set of keys, verbs   *)
(* and handlers, every engine and every size of the ledger; and the audit  *)
(* log it keeps beside the document (AuditRetention) loses nothing without *)
(* a count, for every cap and every history of backups.                    *)
(***************************************************************************)
EXTENDS StoreServer, AuditRetention, FiniteSetTheorems, SequenceTheorems, TLAPS

-----------------------------------------------------------------------------
(* The ledger holds the newest rows of the log.                            *)

\* Newest keeps the elements it keeps in their order.
LEMMA NewestProperties ==
  ASSUME NEW S, NEW s \in Seq(S), NEW n \in Nat
  PROVE  /\ Newest(s, n) \in Seq(S)
         /\ Len(Newest(s, n)) = IF Len(s) > n THEN n ELSE Len(s)
         /\ \A i \in 1..Len(Newest(s, n)) :
              /\ i + Len(s) - Len(Newest(s, n)) \in 1..Len(s)
              /\ Newest(s, n)[i] = s[i + Len(s) - Len(Newest(s, n))]
<1> DEFINE m == IF Len(s) > n THEN Len(s) - n + 1 ELSE 1
<1>1. Len(s) \in Nat /\ m \in Int /\ m \in 1..Len(s)+1
  BY LenProperties
<1>2. \A i \in m..Len(s) : s[i] \in S
  BY <1>1, LenProperties
<1>3. /\ SubSeq(s, m, Len(s)) \in Seq(S)
      /\ Len(SubSeq(s, m, Len(s))) = IF m <= Len(s) THEN Len(s) - m + 1 ELSE 0
      /\ \A i \in 1..Len(s) - m + 1 : SubSeq(s, m, Len(s))[i] = s[m + i - 1]
  <2> HIDE DEF m
  <2> QED BY <1>1, <1>2, SubSeqProperties
<1> DEFINE t == SubSeq(s, m, Len(s))
<1>4. Newest(s, n) = t
  BY DEF Newest
<1>5. m = IF Len(s) > n THEN Len(s) - n + 1 ELSE 1
  OBVIOUS
<1>6. /\ t \in Seq(S)
      /\ Len(t) = IF Len(s) > n THEN n ELSE Len(s)
      /\ \A i \in 1..Len(t) : /\ i + Len(s) - Len(t) \in 1..Len(s)
                              /\ t[i] = s[i + Len(s) - Len(t)]
  <2>1. /\ t \in Seq(S)
        /\ Len(t) = IF m <= Len(s) THEN Len(s) - m + 1 ELSE 0
        /\ \A i \in 1..Len(s) - m + 1 : t[i] = s[m + i - 1]
    BY <1>3
  <2> HIDE DEF t, m
  <2>2. Len(t) = IF Len(s) > n THEN n ELSE Len(s)
    <3>1. CASE Len(s) > n
      BY <1>1, <1>5, <2>1, <3>1
    <3>2. CASE ~(Len(s) > n)
      BY <1>1, <1>5, <2>1, <3>2
    <3> QED BY <3>1, <3>2
  <2>3. Len(t) = Len(s) - m + 1
    BY <1>1, <2>1
  <2>4. ASSUME NEW i \in 1..Len(t)
        PROVE  /\ i + Len(s) - Len(t) \in 1..Len(s)
               /\ t[i] = s[i + Len(s) - Len(t)]
    <3>1. m + i - 1 = i + Len(s) - Len(t) /\ m + i - 1 \in 1..Len(s)
      BY <1>1, <2>3
    <3>2. t[i] = s[m + i - 1]
      BY <2>1, <2>3
    <3> QED BY <3>1, <3>2
  <2> QED BY <2>1, <2>2, <2>4
<1> QED BY <1>4, <1>6

\* journal_in_tx may forget before it appends: only the newest rows of the
\* ledger matter for the ledger after the next commit.
LEMMA NewestOfAppend ==
  ASSUME NEW S, NEW s \in Seq(S), NEW x \in S, NEW n \in Nat \ {0}
  PROVE  Newest(Append(Newest(s, n), x), n) = Newest(Append(s, x), n)
<1> DEFINE t == Newest(s, n)
           p == Append(t, x)
           q == Append(s, x)
<1>1. /\ t \in Seq(S)
      /\ Len(t) = IF Len(s) > n THEN n ELSE Len(s)
      /\ \A i \in 1..Len(t) : /\ i + Len(s) - Len(t) \in 1..Len(s)
                              /\ t[i] = s[i + Len(s) - Len(t)]
  BY NewestProperties
<1>2. /\ p \in Seq(S) /\ Len(p) = Len(t) + 1
      /\ \A i \in 1..Len(t) : p[i] = t[i]
      /\ p[Len(t) + 1] = x
  BY <1>1, AppendProperties
<1>3. /\ q \in Seq(S) /\ Len(q) = Len(s) + 1
      /\ \A i \in 1..Len(s) : q[i] = s[i]
      /\ q[Len(s) + 1] = x
  BY AppendProperties
<1>4. Len(s) \in Nat /\ Len(t) \in Nat
  BY <1>1, LenProperties
<1> HIDE DEF t, p, q
<1>5. \A i \in 1..Len(p) : /\ i + Len(q) - Len(p) \in 1..Len(q)
                           /\ p[i] = q[i + Len(q) - Len(p)]
  <2> SUFFICES ASSUME NEW i \in 1..Len(p)
               PROVE  /\ i + Len(q) - Len(p) \in 1..Len(q)
                      /\ p[i] = q[i + Len(q) - Len(p)]
    OBVIOUS
  <2>1. i \in Int /\ i + Len(q) - Len(p) = i + Len(s) - Len(t) /\ Len(t) <= Len(s)
    BY <1>1, <1>2, <1>3, <1>4
  <2>2. CASE i = Len(t) + 1
    <3>1. i + Len(q) - Len(p) = Len(s) + 1
      BY <2>1, <2>2, <1>4
    <3> QED BY <3>1, <2>2, <1>2, <1>3, <1>4
  <2>3. CASE i \in 1..Len(t)
    <3>1. p[i] = s[i + Len(s) - Len(t)] /\ i + Len(s) - Len(t) \in 1..Len(s)
      BY <2>3, <1>1, <1>2
    <3>2. q[i + Len(s) - Len(t)] = s[i + Len(s) - Len(t)]
      BY <3>1, <1>3
    <3> QED BY <2>1, <3>1, <3>2, <1>3, <1>4
  <2> QED BY <2>2, <2>3, <1>2, <1>4
<1> DEFINE u == Newest(p, n)
           v == Newest(q, n)
<1>6. /\ u \in Seq(S)
      /\ Len(u) = IF Len(p) > n THEN n ELSE Len(p)
      /\ \A i \in 1..Len(u) : /\ i + Len(p) - Len(u) \in 1..Len(p)
                              /\ u[i] = p[i + Len(p) - Len(u)]
  BY <1>2, NewestProperties
<1>7. /\ v \in Seq(S)
      /\ Len(v) = IF Len(q) > n THEN n ELSE Len(q)
      /\ \A i \in 1..Len(v) : /\ i + Len(q) - Len(v) \in 1..Len(q)
                              /\ v[i] = q[i + Len(q) - Len(v)]
  BY <1>3, NewestProperties
<1> HIDE DEF u, v
<1>8. Len(u) = Len(v) /\ Len(u) \in Nat /\ Len(p) \in Nat /\ Len(q) \in Nat
  BY <1>1, <1>2, <1>3, <1>4, <1>6, <1>7
<1>9. ASSUME NEW i \in 1..Len(u)
      PROVE  u[i] = v[i]
  <2>1. u[i] = p[i + Len(p) - Len(u)] /\ i + Len(p) - Len(u) \in 1..Len(p)
    BY <1>6
  <2>2. p[i + Len(p) - Len(u)] = q[(i + Len(p) - Len(u)) + Len(q) - Len(p)]
    BY <1>5, <2>1
  <2>3. v[i] = q[i + Len(q) - Len(v)]
    BY <1>7, <1>8
  <2>4. (i + Len(p) - Len(u)) + Len(q) - Len(p) = i + Len(q) - Len(v)
    BY <1>8
  <2> QED BY <2>1, <2>2, <2>3, <2>4
<1>10. u = v
  BY <1>6, <1>7, <1>8, <1>9, SeqEqual
<1> QED BY <1>10 DEF u, v, p, q, t

-----------------------------------------------------------------------------
(* The inductive invariant.                                                *)

\* The row of the environment is the last version of the history.
RowIsLatest ==
  /\ generation = Len(versions)
  /\ content = Latest

\* The ledger is the end of the history, and holds a key once.
LedgerIsNewest ==
  /\ ledger = Newest(log, MaxLedger)
  /\ \A i, j \in DOMAIN ledger : ledger[i].key = ledger[j].key => i = j

\* A handler works on a version that existed, under its generation.
HoldsVersion(r) ==
  /\ r.pc \in {"gate", "load"} => r.loaded = Nothing
  /\ r.pc = "commit" /\ r.verb \in Creates => r.loaded = Nothing
  /\ r.pc = "commit" /\ r.verb \notin Creates =>
       /\ r.loaded.generation \in DOMAIN versions
       /\ r.loaded.content = versions[r.loaded.generation]
LoadedVersions == \A a \in Attempts : HoldsVersion(attempt[a])

ServerInv ==
  ServerTypeOK /\ RowIsLatest /\ LedgerIsNewest /\ LoadedVersions /\ AnswersCommitted

\* A remembered row is a row of the history.
LEMMA LedgerInLog ==
  ASSUME ServerTypeOK, LedgerIsNewest, NEW i \in DOMAIN ledger
  PROVE  ledger[i] \in Row /\ \E j \in DOMAIN log : log[j] = ledger[i]
<1>1. log \in Seq(Row) /\ ledger \in Seq(Row) /\ MaxLedger \in Nat
  BY StoreAssumption DEF ServerTypeOK
<1>2. DOMAIN ledger = 1..Len(ledger) /\ DOMAIN log = 1..Len(log) /\ ledger[i] \in Row
  BY <1>1, LenProperties
<1>3. /\ i + Len(log) - Len(ledger) \in 1..Len(log)
      /\ ledger[i] = log[i + Len(log) - Len(ledger)]
  BY <1>1, <1>2, NewestProperties DEF LedgerIsNewest
<1> QED BY <1>2, <1>3

\* A commit that is not refused applies the verb to the last version, or
\* notes a version that exists, under a key that is not remembered.
LEMMA CommitIsContractStep ==
  ASSUME ServerInv, NEW a \in Attempts, Commit(a), ~Refused(attempt[a])
  PROVE  /\ attempt[a].key \in Keys /\ attempt[a].verb \in Verbs
         /\ Write(attempt[a].key, attempt[a].verb) \/ Note(attempt[a].key, attempt[a].verb)
         /\ Prepared(attempt[a]) \in Revision
<1> DEFINE r == attempt[a]
<1>1. r \in Attempt /\ r.pc = "commit" /\ r.key \in Keys /\ r.verb \in Verbs
  BY DEF ServerInv, ServerTypeOK, Attempt, Commit
<1>2. r.key \notin KeysOf(Newest(log, MaxLedger))
  BY DEF Refused, RowsOf, ServerInv, LedgerIsNewest, KeysOf
<1>3. versions \in Seq(Contents) /\ DOMAIN versions = 1..Len(versions) /\ Len(versions) \in Nat
  BY LenProperties DEF ServerInv, ServerTypeOK
<1>4. log' = Append(log, [key |-> r.key, verb |-> r.verb, response |-> Prepared(r)])
  BY DEF Commit
<1>5. HoldsVersion(r)
  BY DEF ServerInv, LoadedVersions
<1>6. CASE IsSilent(r)
  <2>1. r.verb \notin Creates
    BY <1>6, StoreAssumption DEF IsSilent
  <2>2. r.loaded.generation \in DOMAIN versions
        /\ r.loaded.content = versions[r.loaded.generation]
    BY <1>1, <1>5, <2>1 DEF HoldsVersion
  <2>3. Prepared(r) = [generation |-> r.loaded.generation, etag |-> r.loaded.content]
    BY <1>6 DEF Prepared
  <2>4. versions' = versions
    BY <1>6 DEF Commit
  <2>5. Note(r.key, r.verb)
    BY <1>2, <1>4, <1>6, <2>2, <2>3, <2>4 DEF Note, IsSilent
  <2>6. Prepared(r) \in Revision
    BY <1>3, <2>2, <2>3 DEF Revision
  <2> QED BY <1>1, <2>5, <2>6
<1>7. CASE ~IsSilent(r)
  <2>1. Apply(r.verb, r.loaded.content) # None /\ Precondition(r)
    BY <1>7 DEF Refused
  <2>2. r.loaded.content \in Contents \cup {None} /\ r.loaded.generation \in Nat
    BY <1>1 DEF Attempt, Loaded
  <2>3. Apply(r.verb, r.loaded.content) \in Contents
    BY <1>1, <2>1, <2>2, StoreAssumption
  <2>4. Prepared(r) = [generation |-> r.loaded.generation + 1,
                       etag |-> Apply(r.verb, r.loaded.content)]
    BY <1>7 DEF Prepared
  <2>5. versions' = Append(versions, Apply(r.verb, r.loaded.content))
    BY <1>7 DEF Commit
  <2>6. generation = Len(versions) /\ content = Latest
    BY DEF ServerInv, RowIsLatest
  <2>7. versions = <<>> <=> content = None
    <3>1. versions = <<>> <=> Len(versions) = 0
      BY <1>3
    <3>2. versions # <<>> => versions[Len(versions)] \in Contents
      BY <1>3, <3>1
    <3> QED BY <2>6, <3>2, StoreAssumption DEF Latest
  <2>8. r.loaded.content = Latest /\ r.loaded.generation = Len(versions)
        /\ (r.verb \in Creates <=> versions = <<>>)
    <3>1. CASE r.verb \in Creates
      <4>1. r.loaded = Nothing
        BY <1>1, <1>5, <3>1 DEF HoldsVersion
      <4>2. versions = <<>>
        BY <2>1, <2>7, <3>1 DEF Precondition
      <4> QED BY <4>1, <4>2, <3>1, <1>3 DEF Nothing, Latest
    <3>2. CASE r.verb \notin Creates
      <4>1. r.loaded.generation \in DOMAIN versions
            /\ r.loaded.content = versions[r.loaded.generation]
        BY <1>1, <1>5, <3>2 DEF HoldsVersion
      <4>2. r.loaded.generation = Len(versions)
        BY <2>1, <2>6, <3>2 DEF Precondition
      <4>3. versions # <<>>
        BY <1>3, <4>1
      <4> QED BY <3>2, <4>1, <4>2, <4>3 DEF Latest
    <3> QED BY <3>1, <3>2
  <2>9. Write(r.key, r.verb)
    BY <1>2, <1>4, <1>7, <2>1, <2>4, <2>5, <2>8 DEF Write, IsSilent
  <2>10. Prepared(r) \in Revision
    BY <2>2, <2>3, <2>4 DEF Revision
  <2> QED BY <1>1, <2>9, <2>10
<1> QED BY <1>6, <1>7

\* What the invariant asks of one handler.
Sound(r) ==
  /\ r \in Attempt
  /\ r.pc # "free" => r.key # None /\ r.verb # None
  /\ HoldsVersion(r)
  /\ r.pc = "answered" =>
       \E i \in DOMAIN log : log[i] = [key |-> r.key, verb |-> r.verb, response |-> r.response]

\* Every handler holds a version and committed answers.
LEMMA SoundHandlers ==
  ASSUME ServerInv
  PROVE  \A a \in Attempts : Sound(attempt[a])
BY DEF ServerInv, ServerTypeOK, LoadedVersions, AnswersCommitted, Sound

\* A handler that is free holds nothing.
LEMMA FreeIsSound == Sound(Free)
<1>1. Free \in Attempt
  BY DEF Free, Attempt, AttemptPc, Nothing, Loaded
<1> QED BY <1>1 DEF Sound, HoldsVersion, Free

\* A step that changes one handler and nothing stored keeps the invariant when
\* the handler it leaves is sound.
LEMMA HandlerStep ==
  ASSUME ServerInv, UNCHANGED stored, NEW a \in Attempts, NEW r,
         attempt' = [attempt EXCEPT ![a] = r], Sound(r)
  PROVE  ServerInv'
<1>1. attempt \in [Attempts -> Attempt] /\ attempt' \in [Attempts -> Attempt]
  BY DEF ServerInv, ServerTypeOK, Sound
<1>2. \A b \in Attempts : Sound(attempt'[b])
  BY <1>1, SoundHandlers
<1>3. /\ content' = content /\ generation' = generation /\ ledger' = ledger
      /\ versions' = versions /\ log' = log
  BY DEF stored
<1>4. ServerTypeOK'
  BY <1>1, <1>2, <1>3 DEF ServerInv, ServerTypeOK, Sound
<1>5. RowIsLatest' /\ LedgerIsNewest'
  BY <1>3 DEF ServerInv, RowIsLatest, LedgerIsNewest, Latest, Newest
<1>6. LoadedVersions' /\ AnswersCommitted'
  BY <1>2, <1>3 DEF LoadedVersions, AnswersCommitted, Sound, HoldsVersion
<1> QED BY <1>4, <1>5, <1>6 DEF ServerInv

\* The answer of a remembered row is sound.
LEMMA AnswerIsSound ==
  ASSUME ServerInv, NEW a \in Attempts, attempt[a].pc # "free",
         NEW i \in RowsOf(attempt[a].key), ledger[i].verb = attempt[a].verb
  PROVE  Sound([attempt[a] EXCEPT !.pc = "answered", !.response = ledger[i].response])
<1> DEFINE r == [attempt[a] EXCEPT !.pc = "answered", !.response = ledger[i].response]
<1>1. attempt[a] \in Attempt /\ Sound(attempt[a])
  BY SoundHandlers DEF Sound
<1>2. ledger[i] \in Row /\ \E j \in DOMAIN log : log[j] = ledger[i]
  BY LedgerInLog DEF RowsOf, ServerInv
<1>3. ledger[i] = [key |-> attempt[a].key, verb |-> attempt[a].verb,
                   response |-> ledger[i].response]
  BY <1>2 DEF Row, RowsOf
<1>4. /\ r \in Attempt /\ r.pc = "answered" /\ r.key = attempt[a].key
      /\ r.verb = attempt[a].verb /\ r.response = ledger[i].response
  BY <1>1, <1>2 DEF Attempt, AttemptPc, Row
<1> QED BY <1>1, <1>2, <1>3, <1>4 DEF Sound, HoldsVersion

\* So is a handler that only moves on, unless it is answered or commits.
LEMMA MoveIsSound ==
  ASSUME ServerInv, NEW a \in Attempts, attempt[a].pc # "free", NEW pc \in AttemptPc,
         \/ pc \in {"recheck", "failed"}
         \/ attempt[a].pc = "gate" /\ pc = "load"
         \/ attempt[a].pc = "load" /\ attempt[a].verb \in Creates /\ pc = "commit"
  PROVE  Sound([attempt[a] EXCEPT !.pc = pc])
<1> DEFINE r == [attempt[a] EXCEPT !.pc = pc]
<1>1. attempt[a] \in Attempt /\ Sound(attempt[a])
  BY SoundHandlers DEF Sound
<1>2. /\ r \in Attempt /\ r.pc = pc /\ r.key = attempt[a].key
      /\ r.verb = attempt[a].verb /\ r.loaded = attempt[a].loaded
  BY <1>1 DEF Attempt
<1> QED BY <1>1, <1>2 DEF Sound, HoldsVersion

\* A load reads the last version.
LEMMA LoadIsSound ==
  ASSUME ServerInv, NEW a \in Attempts, attempt[a].pc = "load",
         attempt[a].verb \notin Creates, content # None
  PROVE  Sound([attempt[a] EXCEPT !.pc = "commit",
                  !.loaded = [generation |-> generation, content |-> content]])
<1> DEFINE r == [attempt[a] EXCEPT !.pc = "commit",
                   !.loaded = [generation |-> generation, content |-> content]]
<1>1. attempt[a] \in Attempt /\ Sound(attempt[a])
  BY SoundHandlers DEF Sound
<1>2. /\ r \in Attempt /\ r.pc = "commit" /\ r.key = attempt[a].key /\ r.verb = attempt[a].verb
      /\ r.loaded.generation = generation /\ r.loaded.content = content
  BY <1>1 DEF Attempt, AttemptPc, Loaded, ServerInv, ServerTypeOK
<1>3. versions # <<>> /\ content = versions[Len(versions)] /\ generation = Len(versions)
  BY DEF ServerInv, RowIsLatest, Latest
<1>4. Len(versions) \in DOMAIN versions
  BY <1>3, LenProperties DEF ServerInv, ServerTypeOK
<1> QED BY <1>1, <1>2, <1>3, <1>4 DEF Sound, HoldsVersion

\* A commit that is not refused keeps the invariant.
LEMMA CommitStep ==
  ASSUME ServerInv, NEW a \in Attempts, Commit(a), ~Refused(attempt[a])
  PROVE  ServerInv'
<1> DEFINE r == attempt[a]
           row == [key |-> r.key, verb |-> r.verb, response |-> Prepared(r)]
           ra == [r EXCEPT !.pc = "answered", !.response = Prepared(r)]
<1>1. /\ r.key \in Keys /\ r.verb \in Verbs /\ Prepared(r) \in Revision
      /\ Write(r.key, r.verb) \/ Note(r.key, r.verb)
  BY CommitIsContractStep
<1>2. row \in Row
  BY <1>1 DEF Row
<1>3. /\ ledger' = Newest(Append(ledger, row), MaxLedger)
      /\ log' = Append(log, row)
      /\ attempt' = [attempt EXCEPT ![a] = ra]
  BY DEF Commit, Evicted
<1>4. /\ log \in Seq(Row) /\ ledger \in Seq(Row) /\ versions \in Seq(Contents)
      /\ attempt \in [Attempts -> Attempt] /\ MaxLedger \in Nat \ {0}
  BY StoreAssumption DEF ServerInv, ServerTypeOK
<1>5. /\ log' \in Seq(Row) /\ Len(log') = Len(log) + 1
      /\ log'[Len(log) + 1] = row
      /\ DOMAIN log' = 1..Len(log) + 1 /\ DOMAIN log = 1..Len(log)
      /\ \A i \in DOMAIN log : i \in DOMAIN log' /\ log'[i] = log[i]
  <2> HIDE DEF row
  <2>1. /\ Append(log, row) \in Seq(Row) /\ Len(Append(log, row)) = Len(log) + 1
        /\ \A i \in 1..Len(log) : Append(log, row)[i] = log[i]
        /\ Append(log, row)[Len(log) + 1] = row
    BY <1>2, <1>4, AppendProperties
  <2>2. DOMAIN log = 1..Len(log) /\ Len(log) \in Nat
    BY <1>4, LenProperties
  <2>3. DOMAIN log' = 1..Len(log')
    BY <1>3, <2>1, LenProperties
  <2> QED BY <1>3, <2>1, <2>2, <2>3
<1>6. LedgerIsNewest'
  <2> HIDE DEF row
  <2>1. ledger' = Newest(log', MaxLedger)
    BY <1>2, <1>3, <1>4, NewestOfAppend DEF ServerInv, LedgerIsNewest
  <2> DEFINE p == Append(ledger, row)
  <2>2. /\ p \in Seq(Row) /\ Len(p) = Len(ledger) + 1
        /\ \A i \in 1..Len(ledger) : p[i] = ledger[i]
        /\ p[Len(ledger) + 1] = row
    BY <1>2, <1>4, AppendProperties
  <2>3. Len(ledger) \in Nat /\ DOMAIN ledger = 1..Len(ledger)
    BY <1>4, LenProperties
  <2>4. \A i \in 1..Len(ledger) : ledger[i].key # row.key
    BY <2>3 DEF Refused, RowsOf, row
  <2>5. \A i, j \in 1..Len(ledger) : ledger[i].key = ledger[j].key => i = j
    BY <2>3 DEF ServerInv, LedgerIsNewest
  <2>6. \A i, j \in 1..Len(p) : p[i].key = p[j].key => i = j
    <3> HIDE DEF p
    <3> SUFFICES ASSUME NEW i \in 1..Len(p), NEW j \in 1..Len(p), p[i].key = p[j].key
                 PROVE  i = j
      OBVIOUS
    <3>1. (i \in 1..Len(ledger) \/ i = Len(ledger) + 1)
          /\ (j \in 1..Len(ledger) \/ j = Len(ledger) + 1)
      BY <2>2, <2>3
    <3> QED BY <2>2, <2>4, <2>5, <3>1
  <2>7. /\ ledger' \in Seq(Row) /\ Len(ledger') \in Nat /\ DOMAIN ledger' = 1..Len(ledger')
        /\ \A i \in 1..Len(ledger') : /\ i + Len(p) - Len(ledger') \in 1..Len(p)
                                      /\ ledger'[i] = p[i + Len(p) - Len(ledger')]
    <3>1. ledger' = Newest(p, MaxLedger)
      BY <1>3
    <3> HIDE DEF p
    <3>2. ledger' \in Seq(Row)
      BY <1>4, <2>2, <3>1, NewestProperties
    <3>3. \A i \in 1..Len(ledger') : /\ i + Len(p) - Len(ledger') \in 1..Len(p)
                                     /\ ledger'[i] = p[i + Len(p) - Len(ledger')]
      BY <1>4, <2>2, <3>1, NewestProperties
    <3> QED BY <3>2, <3>3, LenProperties
  <2>8. \A i, j \in DOMAIN ledger' : ledger'[i].key = ledger'[j].key => i = j
    <3> HIDE DEF p
    <3> SUFFICES ASSUME NEW i \in DOMAIN ledger', NEW j \in DOMAIN ledger',
                        ledger'[i].key = ledger'[j].key
                 PROVE  i = j
      OBVIOUS
    <3>1. /\ i + Len(p) - Len(ledger') \in 1..Len(p)
          /\ j + Len(p) - Len(ledger') \in 1..Len(p)
          /\ ledger'[i] = p[i + Len(p) - Len(ledger')]
          /\ ledger'[j] = p[j + Len(p) - Len(ledger')]
      BY <2>7
    <3>2. i + Len(p) - Len(ledger') = j + Len(p) - Len(ledger')
      BY <2>6, <3>1
    <3>3. i \in Int /\ j \in Int /\ Len(p) \in Nat /\ Len(ledger') \in Nat
      BY <2>2, <2>3, <2>7
    <3> QED BY <3>2, <3>3
  <2> QED BY <2>1, <2>8 DEF LedgerIsNewest
<1>7. ledger' \in Seq(Row)
  BY <1>4, <1>5, <1>6, NewestProperties DEF LedgerIsNewest
<1>8. /\ versions' \in Seq(Contents)
      /\ generation' = Len(versions') /\ generation' \in Nat
      /\ content' = Latest' /\ content' \in Contents \cup {None}
      /\ \A g \in DOMAIN versions : g \in DOMAIN versions' /\ versions'[g] = versions[g]
  <2>1. CASE IsSilent(r)
    <3>1. UNCHANGED <<content, generation, versions>>
      BY <2>1 DEF Commit
    <3> QED BY <3>1 DEF ServerInv, ServerTypeOK, RowIsLatest, Latest
  <2>2. CASE ~IsSilent(r)
    <3> DEFINE c == Apply(r.verb, r.loaded.content)
    <3>1. content' = c /\ generation' = generation + 1 /\ versions' = Append(versions, c)
      BY <2>2 DEF Commit
    <3>2. c \in Contents
      <4>1. r.loaded.content \in Contents \cup {None}
        BY <1>4 DEF Attempt, Loaded
      <4> QED BY <1>1, <2>2, <4>1, StoreAssumption DEF Refused
    <3> HIDE DEF c
    <3>3. /\ versions' \in Seq(Contents) /\ versions' # <<>>
          /\ Len(versions') = Len(versions) + 1
          /\ \A g \in 1..Len(versions) : versions'[g] = versions[g]
          /\ versions'[Len(versions) + 1] = c
      BY <1>4, <3>1, <3>2, AppendProperties
    <3>4. /\ Len(versions) \in Nat /\ DOMAIN versions = 1..Len(versions)
          /\ DOMAIN versions' = 1..Len(versions')
      BY <1>4, <3>3, LenProperties
    <3>5. generation = Len(versions)
      BY DEF ServerInv, RowIsLatest
    <3> QED BY <3>1, <3>2, <3>3, <3>4, <3>5 DEF Latest
  <2> QED BY <2>1, <2>2
<1>9. ra \in Attempt /\ ra.pc = "answered" /\ ra.key = r.key /\ ra.verb = r.verb
      /\ ra.response = Prepared(r)
  BY <1>1, <1>4 DEF Attempt, AttemptPc
<1>10. attempt' \in [Attempts -> Attempt]
       /\ attempt'[a] = ra /\ \A b \in Attempts \ {a} : attempt'[b] = attempt[b]
  BY <1>3, <1>4, <1>9
<1> HIDE DEF ra
<1>11. ServerTypeOK'
  <2>1. r.key # None /\ r.verb # None
    BY <1>1, StoreAssumption
  <2> QED BY <1>5, <1>7, <1>8, <1>9, <1>10, <2>1 DEF ServerInv, ServerTypeOK
<1>12. LoadedVersions'
  <2> SUFFICES ASSUME NEW b \in Attempts PROVE HoldsVersion(attempt[b])'
    BY DEF LoadedVersions
  <2>1. HoldsVersion(attempt[b])
    BY DEF ServerInv, LoadedVersions
  <2> QED BY <1>8, <1>9, <1>10, <2>1 DEF HoldsVersion
<1>13. AnswersCommitted'
  <2> SUFFICES ASSUME NEW b \in Attempts, attempt'[b].pc = "answered"
               PROVE  \E i \in DOMAIN log' :
                        log'[i] = [key |-> attempt'[b].key, verb |-> attempt'[b].verb,
                                   response |-> attempt'[b].response]
    BY DEF AnswersCommitted
  <2>1. CASE b = a
    <3>1. Len(log) + 1 \in DOMAIN log'
      BY <1>4, <1>5, LenProperties
    <3> QED BY <1>5, <1>9, <1>10, <2>1, <3>1
  <2>2. CASE b # a
    <3>1. PICK i \in DOMAIN log :
            log[i] = [key |-> attempt[b].key, verb |-> attempt[b].verb,
                      response |-> attempt[b].response]
      BY <1>10, <2>2 DEF ServerInv, AnswersCommitted
    <3> QED BY <1>5, <1>10, <2>2, <3>1
  <2> QED BY <2>1, <2>2
<1> QED BY <1>6, <1>8, <1>11, <1>12, <1>13 DEF ServerInv, RowIsLatest

-----------------------------------------------------------------------------
(* The theorems.                                                           *)

\* Every step of every handler keeps the invariant.
LEMMA ServerStep ==
  ASSUME ServerInv, [ServerNext]_serverVars
  PROVE  ServerInv'
<1>1. attempt \in [Attempts -> Attempt]
  BY DEF ServerInv, ServerTypeOK
<1>2. ASSUME NEW a \in Attempts, NEW key \in Keys, NEW verb \in Verbs,
             NEW etag \in Contents \cup {None}, Send(a, key, verb, etag)
      PROVE  ServerInv'
  <2> DEFINE r == [pc |-> "gate", key |-> key, verb |-> verb, if_match |-> etag,
                   loaded |-> Nothing, response |-> None]
  <2>1. r \in Attempt
    BY DEF Attempt, AttemptPc, Loaded, Nothing
  <2>2. Sound(r)
    BY <2>1, StoreAssumption DEF Sound, HoldsVersion
  <2>3. UNCHANGED stored /\ attempt' = [attempt EXCEPT ![a] = r]
    BY <1>2 DEF Send
  <2> HIDE DEF r
  <2> QED BY <2>2, <2>3, HandlerStep
<1>3. ASSUME NEW a \in Attempts, NEW pc \in AttemptPc, Moves(a, pc), UNCHANGED stored,
             Sound([attempt[a] EXCEPT !.pc = pc])
      PROVE  ServerInv'
  <2>1. attempt' = [attempt EXCEPT ![a] = [attempt[a] EXCEPT !.pc = pc]]
    BY <1>1, <1>3 DEF Moves
  <2> QED BY <1>3, <2>1, HandlerStep
<1>4. ASSUME NEW a \in Attempts, attempt[a].pc # "free", NEW i \in RowsOf(attempt[a].key),
             ledger[i].verb = attempt[a].verb, Answer(a, i), UNCHANGED stored
      PROVE  ServerInv'
  <2> DEFINE r == [attempt[a] EXCEPT !.pc = "answered", !.response = ledger[i].response]
  <2>1. Sound(r)
    BY <1>4, AnswerIsSound
  <2>2. attempt' = [attempt EXCEPT ![a] = r]
    BY <1>1, <1>4 DEF Answer
  <2> HIDE DEF r
  <2> QED BY <1>4, <2>1, <2>2, HandlerStep
<1>5. ASSUME NEW a \in Attempts, Gate(a)
      PROVE  ServerInv'
  <2>1. attempt[a].pc = "gate" /\ UNCHANGED stored
    BY <1>5 DEF Gate
  <2>2. CASE Moves(a, "load")
    BY <1>3, <2>1, <2>2, MoveIsSound DEF AttemptPc
  <2>3. CASE Moves(a, "failed")
    BY <1>3, <2>1, <2>3, MoveIsSound DEF AttemptPc
  <2>4. CASE \E i \in RowsOf(attempt[a].key) :
               ledger[i].verb = attempt[a].verb /\ Answer(a, i)
    BY <1>4, <2>1, <2>4
  <2> QED BY <1>5, <2>2, <2>3, <2>4 DEF Gate
<1>6. ASSUME NEW a \in Attempts, Load(a)
      PROVE  ServerInv'
  <2>1. attempt[a].pc = "load" /\ UNCHANGED stored
    BY <1>6 DEF Load
  <2>2. CASE attempt[a].verb \in Creates /\ Moves(a, "commit")
    BY <1>3, <2>1, <2>2, MoveIsSound DEF AttemptPc
  <2>3. CASE Moves(a, "recheck")
    BY <1>3, <2>1, <2>3, MoveIsSound DEF AttemptPc
  <2>4. CASE /\ attempt[a].verb \notin Creates /\ Loadable(attempt[a])
             /\ attempt' = [attempt EXCEPT ![a].pc = "commit",
                  ![a].loaded = [generation |-> generation, content |-> content]]
    <3> DEFINE r == [attempt[a] EXCEPT !.pc = "commit",
                       !.loaded = [generation |-> generation, content |-> content]]
    <3>1. Sound(r)
      BY <2>1, <2>4, LoadIsSound DEF Loadable
    <3>2. attempt' = [attempt EXCEPT ![a] = r]
      BY <1>1, <2>4
    <3> HIDE DEF r
    <3> QED BY <2>1, <3>1, <3>2, HandlerStep
  <2> QED BY <1>6, <2>2, <2>3, <2>4 DEF Load
<1>7. ASSUME NEW a \in Attempts, Commit(a)
      PROVE  ServerInv'
  <2>1. CASE Refused(attempt[a])
    <3>1. attempt[a].pc = "commit" /\ UNCHANGED stored /\ Moves(a, "recheck")
      BY <1>7, <2>1 DEF Commit
    <3> QED BY <1>3, <3>1, MoveIsSound DEF AttemptPc
  <2>2. CASE ~Refused(attempt[a])
    BY <1>7, <2>2, CommitStep
  <2> QED BY <2>1, <2>2
<1>8. ASSUME NEW a \in Attempts, Recheck(a)
      PROVE  ServerInv'
  <2>1. attempt[a].pc = "recheck" /\ UNCHANGED stored
    BY <1>8 DEF Recheck
  <2>2. CASE Moves(a, "failed")
    BY <1>3, <2>1, <2>2, MoveIsSound DEF AttemptPc
  <2>3. CASE \E i \in RowsOf(attempt[a].key) :
               ledger[i].verb = attempt[a].verb /\ Answer(a, i)
    BY <1>4, <2>1, <2>3
  <2> QED BY <1>8, <2>2, <2>3 DEF Recheck
<1>9. ASSUME NEW a \in Attempts, Done(a)
      PROVE  ServerInv'
  BY <1>9, FreeIsSound, HandlerStep DEF Done
<1>10. CASE Crash
  <2>1. /\ content' = content /\ generation' = generation /\ ledger' = ledger
        /\ versions' = versions /\ log' = log /\ attempt' = [a \in Attempts |-> Free]
    BY <1>10 DEF Crash, stored
  <2>2. \A a \in Attempts : Sound(attempt'[a]) /\ attempt'[a].pc = "free"
    BY <2>1, FreeIsSound DEF Free
  <2>3. ServerTypeOK'
    BY <2>1, <2>2 DEF ServerInv, ServerTypeOK, Sound
  <2>4. RowIsLatest' /\ LedgerIsNewest'
    BY <2>1 DEF ServerInv, RowIsLatest, LedgerIsNewest, Latest, Newest
  <2>5. LoadedVersions' /\ AnswersCommitted'
    BY <2>2 DEF LoadedVersions, AnswersCommitted, HoldsVersion
  <2> QED BY <2>3, <2>4, <2>5 DEF ServerInv
<1>11. CASE UNCHANGED serverVars
  BY <1>11 DEF ServerInv, ServerTypeOK, RowIsLatest, LedgerIsNewest, LoadedVersions,
       AnswersCommitted, Latest, Newest, HoldsVersion, serverVars
<1> QED
  BY <1>2, <1>5, <1>6, <1>7, <1>8, <1>9, <1>10, <1>11 DEF ServerNext

\* The invariant holds of a server that starts with an empty database.
LEMMA ServerStart ==
  ASSUME ServerInit
  PROVE  ServerInv
<1>1. attempt \in [Attempts -> Attempt] /\ \A a \in Attempts : attempt[a] = Free
  BY FreeIsSound DEF ServerInit, Sound
<1>2. /\ content = None /\ generation = 0 /\ ledger = <<>> /\ versions = <<>> /\ log = <<>>
  BY DEF ServerInit, Init
<1>3. ServerTypeOK
  BY <1>1, <1>2 DEF ServerTypeOK, Free
<1>4. RowIsLatest
  BY <1>2 DEF RowIsLatest, Latest
<1>5. LedgerIsNewest
  <2>1. Newest(log, MaxLedger) = <<>>
    BY <1>2, StoreAssumption, SubSeqEmpty DEF Newest
  <2> QED BY <1>2, <2>1 DEF LedgerIsNewest
<1>6. LoadedVersions /\ AnswersCommitted
  BY <1>1 DEF LoadedVersions, AnswersCommitted, HoldsVersion, Free
<1> QED BY <1>3, <1>4, <1>5, <1>6 DEF ServerInv

\* The row is the last version, the ledger the end of the history, every
\* handler's copy a version that existed, and every answer committed.
THEOREM ServerInvariant == ServerSpec => []ServerInv
<1>1. ServerInit => ServerInv
  BY ServerStart
<1>2. ServerInv /\ [ServerNext]_serverVars => ServerInv'
  BY ServerStep
<1> QED BY <1>1, <1>2, PTL DEF ServerSpec

\* Rows and handlers keep their shape: no document the engine refused is
\* ever stored.
THEOREM ServerTypeCorrect == ServerSpec => []ServerTypeOK
<1>1. ServerInv => ServerTypeOK
  BY DEF ServerInv
<1> QED BY <1>1, ServerInvariant, PTL

\* A client is only ever answered with the response of a request that was
\* committed under its key and fingerprint.
THEOREM AnswersCommittedHolds == ServerSpec => []AnswersCommitted
<1>1. ServerInv => AnswersCommitted
  BY DEF ServerInv
<1> QED BY <1>1, ServerInvariant, PTL

\* Each step of the server is a step of the contract or none.
LEMMA ServerStepSimulation ==
  ASSUME ServerInv, [ServerNext]_serverVars
  PROVE  [Next]_storeVars
<1>1. CASE UNCHANGED <<versions, log>>
  BY <1>1 DEF storeVars
<1>2. CASE \E a \in Attempts : Commit(a) /\ ~Refused(attempt[a])
  <2>1. PICK a \in Attempts : Commit(a) /\ ~Refused(attempt[a])
    BY <1>2
  <2> QED BY <2>1, CommitIsContractStep DEF Next
<1>3. UNCHANGED <<versions, log>> \/ \E a \in Attempts : Commit(a) /\ ~Refused(attempt[a])
  <2>1. CASE \E a \in Attempts : Commit(a)
    BY <2>1 DEF Commit, stored
  <2> QED BY <2>1 DEF ServerNext, Send, Gate, Load, Recheck, Done, Crash, stored, serverVars
<1> QED BY <1>1, <1>2, <1>3

\* Whatever handlers race, are retried, dropped or lost in a crash, the server
\* implements the contract of the versioned store.
THEOREM ServerImplementsContract == ServerSpec => ImplementsContract
<1>1. ServerInit => Init
  BY DEF ServerInit
<1>2. ServerInv /\ [ServerNext]_serverVars => [Next]_storeVars
  BY ServerStepSimulation
<1> QED BY <1>1, <1>2, ServerInvariant, PTL DEF ServerSpec, ImplementsContract, Spec

\* A write with an If-Match only replaces the content the client named.
THEOREM NoLostUpdateHolds == ServerSpec => NoLostUpdate
<1>1. ServerInv /\ [ServerNext]_serverVars => [NoLostUpdateStep]_serverVars
  <2> SUFFICES ASSUME ServerInv, ServerNext, NEW b \in Attempts,
                      attempt[b].pc = "commit", attempt[b].if_match # None,
                      attempt[b].verb \notin Creates,
                      versions' # versions, attempt'[b].pc = "answered"
               PROVE  content = attempt[b].if_match
    BY DEF NoLostUpdateStep
  <2>1. attempt \in [Attempts -> Attempt]
    BY DEF ServerInv, ServerTypeOK
  <2>2. PICK a \in Attempts : Commit(a) /\ ~Refused(attempt[a])
    <3>1. CASE \E a \in Attempts : Commit(a)
      BY <3>1 DEF Commit, stored
    <3> QED BY <3>1 DEF ServerNext, Send, Gate, Load, Recheck, Done, Crash, stored
  <2>3. a = b
    <3>1. attempt' = [attempt EXCEPT ![a].pc = "answered",
                        ![a].response = Prepared(attempt[a])]
      BY <2>2 DEF Commit
    <3> QED BY <2>1, <3>1
  <2>4. ~IsSilent(attempt[a])
    BY <2>2 DEF Commit
  <2> QED BY <2>2, <2>3, <2>4 DEF Refused, Precondition
<1> QED BY <1>1, ServerInvariant, PTL DEF ServerSpec, NoLostUpdate

\* A request fails only when the ledger has no answer for it.
THEOREM NoFalseFailureHolds == ServerSpec => NoFalseFailure
<1>1. ServerInv /\ [ServerNext]_serverVars => [NoFalseFailureStep]_serverVars
  <2> SUFFICES ASSUME ServerInv, ServerNext, NEW b \in Attempts,
                      attempt[b].pc # "failed", attempt'[b].pc = "failed",
                      NEW i \in RowsOf(attempt[b].key), ledger[i].verb = attempt[b].verb
               PROVE  FALSE
    BY DEF NoFalseFailureStep
  <2>1. attempt \in [Attempts -> Attempt]
    BY DEF ServerInv, ServerTypeOK
  <2>2. \A j \in RowsOf(attempt[b].key) : j = i
    BY DEF ServerInv, LedgerIsNewest, RowsOf
  <2>a. ASSUME NEW a \in Attempts, NEW r \in Attempt, attempt' = [attempt EXCEPT ![a] = r]
        PROVE  a = b /\ r.pc = "failed"
    BY <2>1, <2>a
  <2>b. ASSUME NEW a \in Attempts, NEW pc \in AttemptPc, Moves(a, pc)
        PROVE  a = b /\ pc = "failed"
    <3> DEFINE r == [attempt[a] EXCEPT !.pc = pc]
    <3>1. r \in Attempt /\ r.pc = pc
      BY <2>1 DEF Attempt
    <3>2. attempt' = [attempt EXCEPT ![a] = r]
      BY <2>1, <2>b DEF Moves
    <3> HIDE DEF r
    <3> QED BY <2>a, <3>1, <3>2
  <2>c. ASSUME NEW a \in Attempts, NEW response \in Revision,
               attempt' = [attempt EXCEPT ![a].pc = "answered", ![a].response = response]
        PROVE  FALSE
    <3> DEFINE r == [attempt[a] EXCEPT !.pc = "answered", !.response = response]
    <3>1. r \in Attempt /\ r.pc = "answered"
      BY <2>1 DEF Attempt, AttemptPc
    <3>2. attempt' = [attempt EXCEPT ![a] = r]
      BY <2>1, <2>c
    <3> HIDE DEF r
    <3> QED BY <2>a, <3>1, <3>2
  <2>d. ASSUME NEW a \in Attempts, NEW j \in RowsOf(attempt[a].key), Answer(a, j)
        PROVE  FALSE
    <3>1. ledger[j].response \in Revision
      BY LedgerInLog DEF ServerInv, RowsOf, Row
    <3> QED BY <2>c, <2>d, <3>1 DEF Answer
  <2>3. \A a \in Attempts : Gate(a) => FALSE
    BY <2>2, <2>b, <2>d DEF Gate, AttemptPc
  <2>4. \A a \in Attempts : Recheck(a) => FALSE
    BY <2>b, <2>d DEF Recheck, AttemptPc
  <2>5. \A a \in Attempts, key \in Keys, verb \in Verbs, etag \in Contents \cup {None} :
          Send(a, key, verb, etag) => FALSE
    BY <2>1 DEF Send
  <2>6. ASSUME NEW a \in Attempts, Load(a)
        PROVE  FALSE
    <3>1. attempt' = [attempt EXCEPT ![a].pc = "commit",
                        ![a].loaded = [generation |-> generation, content |-> content]]
      BY <2>6, <2>b DEF Load, AttemptPc
    <3> DEFINE r == [attempt[a] EXCEPT !.pc = "commit",
                       !.loaded = [generation |-> generation, content |-> content]]
    <3>2. r \in Attempt /\ r.pc = "commit"
      BY <2>1 DEF Attempt, AttemptPc, Loaded, ServerInv, ServerTypeOK
    <3>3. attempt' = [attempt EXCEPT ![a] = r]
      BY <2>1, <3>1
    <3> HIDE DEF r
    <3> QED BY <2>a, <3>2, <3>3
  <2>7. ASSUME NEW a \in Attempts, Commit(a)
        PROVE  FALSE
    <3>1. CASE Refused(attempt[a])
      BY <2>7, <2>b, <3>1 DEF Commit, AttemptPc
    <3>2. CASE ~Refused(attempt[a])
      <4>1. Prepared(attempt[a]) \in Revision
        BY <2>7, <3>2, CommitIsContractStep
      <4>2. attempt' = [attempt EXCEPT ![a].pc = "answered",
                          ![a].response = Prepared(attempt[a])]
        BY <2>7, <3>2 DEF Commit
      <4> QED BY <2>c, <4>1, <4>2
    <3> QED BY <3>1, <3>2
  <2>8. \A a \in Attempts : Done(a) => FALSE
    BY <2>1 DEF Done, Free
  <2>9. Crash => FALSE
    BY DEF Crash, Free
  <2> QED BY <2>3, <2>4, <2>5, <2>6, <2>7, <2>8, <2>9 DEF ServerNext
<1> QED BY <1>1, ServerInvariant, PTL DEF ServerSpec, NoFalseFailure

-----------------------------------------------------------------------------
(* What the contract promises, and with it the server.                     *)

\* The newest rows of the log are remembered.
LEMMA NewestHolds ==
  ASSUME NEW S, NEW s \in Seq(S), NEW n \in Nat, NEW i \in 1 .. Len(s), Len(s) - i < n
  PROVE  \E k \in DOMAIN Newest(s, n) : Newest(s, n)[k] = s[i]
<1> DEFINE t == Newest(s, n)
           k == i - Len(s) + Len(t)
<1>1. /\ t \in Seq(S) /\ Len(t) = IF Len(s) > n THEN n ELSE Len(s)
      /\ \A j \in 1 .. Len(t) : t[j] = s[j + Len(s) - Len(t)]
  BY NewestProperties
<1>2. Len(s) \in Nat /\ Len(t) \in Nat /\ DOMAIN t = 1 .. Len(t)
  BY <1>1, LenProperties
<1> HIDE DEF t
<1>3. k \in 1 .. Len(t) /\ k + Len(s) - Len(t) = i
  BY <1>1, <1>2
<1> HIDE DEF k
<1>4. t[k] = s[i]
  BY <1>1, <1>3
<1> QED  BY <1>2, <1>3, <1>4 DEF t

ContractInv == versions \in Seq(Contents) /\ log \in Seq(Row) /\ HistorySound

\* One more row, for a version that exists or was just appended.
LEMMA RowAppended ==
  ASSUME ContractInv, NEW key \in Keys, NEW verb \in Verbs, NEW g, NEW c,
         key \notin KeysOf(Newest(log, MaxLedger)),
         versions' \in Seq(Contents), Len(versions) <= Len(versions'),
         \A h \in DOMAIN versions : versions'[h] = versions[h],
         g \in DOMAIN versions' /\ c = versions'[g],
         log' = Append(log, [key |-> key, verb |-> verb, response |-> [generation |-> g, etag |-> c]]),
         \A h \in DOMAIN versions' : h \in DOMAIN versions \/
           /\ h = g /\ <<verb, Prior(versions', g)>> \notin Silent
           /\ Apply(verb, Prior(versions', g)) = c
  PROVE  ContractInv'
<1> DEFINE row == [key |-> key, verb |-> verb, response |-> [generation |-> g, etag |-> c]]
           n == Len(log)
<1>0. /\ n \in Nat /\ MaxLedger \in Nat /\ DOMAIN log = 1 .. n
      /\ DOMAIN versions = 1 .. Len(versions) /\ DOMAIN versions' = 1 .. Len(versions')
      /\ Len(versions) \in Nat /\ Len(versions') \in Nat /\ versions \in Seq(Contents) /\ log \in Seq(Row)
  BY StoreAssumption, LenProperties DEF ContractInv
<1>1. g \in Nat /\ c \in Contents /\ row \in Row
  BY <1>0, LenProperties DEF Row, Revision
<1>2. /\ log' = Append(log, row) /\ row.key = key /\ row.verb = verb
      /\ row.response = [generation |-> g, etag |-> c]
  OBVIOUS
<1> HIDE DEF row
<1>3. /\ log' \in Seq(Row) /\ Len(log') = n + 1 /\ log'[n + 1] = row
      /\ \A i \in 1 .. n : log'[i] = log[i]
  BY <1>0, <1>1, <1>2, AppendProperties
<1> HIDE DEF n
<1>4. DOMAIN log' = 1 .. n + 1
  BY <1>3, LenProperties
<1>5. \A h \in DOMAIN versions : h \in DOMAIN versions'
  BY <1>0
<1>6. KeyOnce'
  <2> SUFFICES ASSUME NEW i \in 1 .. n + 1, NEW j \in 1 .. n + 1, i < j, log'[i].key = log'[j].key
               PROVE  j - i > MaxLedger
    BY <1>4 DEF KeyOnce
  <2>1. i \in 1 .. n /\ log'[i] = log[i]
    BY <1>0, <1>3
  <2>2. CASE j \in 1 .. n
    BY <1>0, <1>3, <2>1, <2>2 DEF ContractInv, HistorySound, KeyOnce
  <2>3. CASE j = n + 1
    <3>1. log[i].key = key
      BY <1>2, <1>3, <2>1, <2>3
    <3>2. ~ (n - i < MaxLedger)
      <4> SUFFICES ASSUME n - i < MaxLedger PROVE FALSE
        OBVIOUS
      <4>1. PICK k \in DOMAIN Newest(log, MaxLedger) : Newest(log, MaxLedger)[k] = log[i]
        BY <1>0, <2>1, NewestHolds DEF n
      <4> QED  BY <3>1, <4>1 DEF KeysOf
    <3> QED  BY <1>0, <2>1, <2>3, <3>2
  <2> QED  BY <1>0, <2>2, <2>3
<1>7. ResponsesTrue'
  <2> SUFFICES ASSUME NEW i \in 1 .. n + 1
               PROVE  /\ log'[i].response.generation \in DOMAIN versions'
                      /\ log'[i].response.etag = versions'[log'[i].response.generation]
    BY <1>4 DEF ResponsesTrue
  <2>1. CASE i = n + 1
    BY <1>2, <1>3, <2>1
  <2>2. CASE i \in 1 .. n
    <3>1. /\ log[i].response.generation \in DOMAIN versions
          /\ log[i].response.etag = versions[log[i].response.generation]
      BY <1>0, <2>2 DEF ContractInv, HistorySound, ResponsesTrue
    <3>2. log'[i] = log[i]
      BY <1>3, <2>2
    <3>3. versions'[log[i].response.generation] = versions[log[i].response.generation]
      BY <3>1
    <3> QED  BY <1>5, <3>1, <3>2, <3>3
  <2> QED  BY <1>0, <2>1, <2>2
<1>8. HistoryExplained'
  <2> SUFFICES ASSUME NEW h \in DOMAIN versions'
               PROVE  \E i \in DOMAIN log' :
                        /\ log'[i].response = [generation |-> h, etag |-> versions'[h]]
                        /\ <<log'[i].verb, Prior(versions', h)>> \notin Silent
                        /\ Apply(log'[i].verb, Prior(versions', h)) = versions'[h]
    BY DEF HistoryExplained
  <2>1. CASE h \in DOMAIN versions
    <3>1. PICK i \in 1 .. n : /\ log[i].response = [generation |-> h, etag |-> versions[h]]
                              /\ <<log[i].verb, Prior(versions, h)>> \notin Silent
                              /\ Apply(log[i].verb, Prior(versions, h)) = versions[h]
      BY <1>0, <2>1 DEF ContractInv, HistorySound, HistoryExplained
    <3>2. h \in Nat \ {0} /\ (h # 1 => h - 1 \in DOMAIN versions)
      BY <1>0, <2>1
    <3>3. Prior(versions', h) = Prior(versions, h)
      BY <3>2 DEF Prior
    <3>4. i \in DOMAIN log' /\ log'[i] = log[i] /\ versions'[h] = versions[h]
      BY <1>0, <1>3, <1>4, <2>1
    <3> QED  BY <3>1, <3>3, <3>4
  <2>2. CASE h \notin DOMAIN versions
    <3>1. h = g /\ <<verb, Prior(versions', g)>> \notin Silent /\ Apply(verb, Prior(versions', g)) = c
      BY <2>2
    <3>2. n + 1 \in DOMAIN log'
      BY <1>0, <1>4
    <3> QED  BY <1>2, <1>3, <3>1, <3>2
  <2> QED  BY <2>1, <2>2
<1> QED  BY <1>3, <1>6, <1>7, <1>8 DEF ContractInv, HistorySound

\* A key that is remembered is not used again, every response names a revision
\* that existed, and every version is the answer to a journaled request on the
\* version before it: what the A8 contract gives to clients.
THEOREM ContractKeepsHistory == Spec => []HistorySound
<1>1. Init => ContractInv
  BY DEF Init, ContractInv, HistorySound, KeyOnce, ResponsesTrue, HistoryExplained
<1>2. ContractInv /\ [Next]_storeVars => ContractInv'
  <2> SUFFICES ASSUME ContractInv, [Next]_storeVars PROVE ContractInv'
    OBVIOUS
  <2>0. /\ versions \in Seq(Contents) /\ Len(versions) \in Nat
        /\ DOMAIN versions = 1 .. Len(versions)
    BY LenProperties DEF ContractInv
  <2>1. CASE UNCHANGED storeVars
    BY <2>1 DEF storeVars, ContractInv, HistorySound, KeyOnce, ResponsesTrue, HistoryExplained
  <2>2. ASSUME NEW key \in Keys, NEW verb \in Verbs, Write(key, verb) PROVE ContractInv'
    <3> DEFINE c == Apply(verb, Latest)
               g == Len(versions) + 1
    <3>1. Latest \in Contents \cup {None}
      BY <2>0 DEF Latest
    <3>2. c \in Contents /\ versions' = Append(versions, c)
      BY <2>2, <3>1, StoreAssumption DEF Write
    <3>3. /\ log' = Append(log, [key |-> key, verb |-> verb, response |-> [generation |-> g, etag |-> c]])
          /\ key \notin KeysOf(Newest(log, MaxLedger)) /\ <<verb, Latest>> \notin Silent
      BY <2>2 DEF Write
    <3>4. c = Apply(verb, Latest) /\ g = Len(versions) + 1
      OBVIOUS
    <3> HIDE DEF c, g
    <3>5. /\ versions' \in Seq(Contents) /\ Len(versions') = g /\ versions'[g] = c
          /\ \A h \in DOMAIN versions : versions'[h] = versions[h]
      BY <2>0, <3>2, <3>4, AppendProperties
    <3>6. Prior(versions', g) = Latest
      <4>1. CASE versions = <<>>
        BY <3>4, <4>1 DEF Prior, Latest
      <4>2. CASE versions # <<>>
        <5>1. Len(versions) # 0
          BY <2>0, <4>2, EmptySeq
        <5>2. Latest = versions[Len(versions)]
          BY <4>2 DEF Latest
        <5>3. g # 1 /\ g - 1 = Len(versions) /\ Len(versions) \in DOMAIN versions
          BY <2>0, <3>4, <5>1
        <5>4. versions'[g - 1] = versions[Len(versions)]
          BY <3>5, <5>3
        <5> QED  BY <5>2, <5>3, <5>4 DEF Prior
      <4> QED  BY <4>1, <4>2
    <3>7. /\ DOMAIN versions' = 1 .. g /\ g \in DOMAIN versions' /\ Len(versions) <= Len(versions')
          /\ \A h \in DOMAIN versions' : h \in DOMAIN versions \/ h = g
      BY <2>0, <3>4, <3>5, LenProperties
    <3> QED  BY <3>3, <3>4, <3>5, <3>6, <3>7, RowAppended
  <2>3. ASSUME NEW key \in Keys, NEW verb \in Verbs, Note(key, verb) PROVE ContractInv'
    <3>1. PICK g \in DOMAIN versions :
            log' = Append(log, [key |-> key, verb |-> verb,
                                response |-> [generation |-> g, etag |-> versions[g]]])
      BY <2>3 DEF Note
    <3>2. versions' = versions /\ key \notin KeysOf(Newest(log, MaxLedger))
      BY <2>3 DEF Note
    <3>3. /\ versions' \in Seq(Contents) /\ Len(versions) <= Len(versions') /\ g \in DOMAIN versions'
          /\ \A h \in DOMAIN versions : versions'[h] = versions[h]
          /\ \A h \in DOMAIN versions' : h \in DOMAIN versions
      BY <2>0, <3>2
    <3> DEFINE c == versions[g]
    <3>4. /\ log' = Append(log, [key |-> key, verb |-> verb, response |-> [generation |-> g, etag |-> c]])
          /\ c = versions'[g]
      BY <3>1, <3>2
    <3> HIDE DEF c
    <3> QED  BY <3>2, <3>3, <3>4, RowAppended
  <2> QED  BY <2>1, <2>2, <2>3 DEF Next
<1>3. ContractInv => HistorySound
  BY DEF ContractInv
<1> QED  BY <1>1, <1>2, <1>3, PTL DEF Spec

\* Whatever handlers race, are retried, dropped or lost in a crash: every
\* answer was committed under its key and fingerprint, a remembered key was
\* used once, and every version is the answer to one journaled request on the
\* version before it.
THEOREM AnswersSoundHolds == ServerSpec => []AnswersSound
<1>1. AnswersCommitted /\ HistorySound => AnswersSound
  BY DEF AnswersSound
<1> QED  BY <1>1, AnswersCommittedHolds, ServerImplementsContract, ContractKeepsHistory, PTL
         DEF ImplementsContract

-----------------------------------------------------------------------------
(* The audit log: what a prune keeps and what it forgets.                  *)

\* A log R with watermark w that was ever given the events k: every event is
\* in the log or counted as pruned, exactly once.
Log(R, w, k) ==
  /\ R \subseteq AuditRow /\ IsFiniteSet(R)
  /\ w \in Mark /\ IsFiniteSet(k)
  /\ \A q, r \in R : q.id = r.id \/ q.event = r.event => q = r
  /\ \A r \in R : r.event \in k
  /\ w.total + Cardinality(R) = Cardinality(k)

Above(R, i) == {r \in R : r.id > i}

\* A bounded log has a newest row.
LEMMA NewestRow ==
  ASSUME NEW R, R \subseteq AuditRow, R # {}, NEW b \in Nat, \A r \in R : r.id < b
  PROVE  \E m \in R : \A r \in R : r.id <= m.id
<1> DEFINE Gaps == {n \in Nat : \E r \in R : n = b - r.id}
           Less == OpToRel(<, Nat)
<1>1. Gaps \subseteq Nat /\ \A r \in R : r.id \in Nat /\ b - r.id \in Gaps
  BY DEF AuditRow
<1>2. Gaps # {}
  BY <1>1
<1>3. IsWellFoundedOn(Less, Nat)
  BY NatLessThanWellFounded
<1>4. \E g \in Gaps : \A n \in Gaps : ~ (<<n, g>> \in Less)
  <2> HIDE DEF Gaps, Less
  <2> QED  BY <1>1, <1>2, <1>3, WFMin, Zenon
<1>5. PICK g \in Gaps : \A n \in Gaps : ~ (n < g)
  BY <1>4 DEF OpToRel
<1>6. PICK m \in R : g = b - m.id
  OBVIOUS
<1>7. \A r \in R : ~ (b - r.id < b - m.id)
  <2> HIDE DEF Gaps
  <2> QED  BY <1>1, <1>5, <1>6
<1> QED  BY <1>1, <1>6, <1>7

\* In a log with more than n rows one row has exactly n newer ones: the least
\* n without such a row would have one next to the row of n - 1.
LEMMA CutoffExists ==
  ASSUME NEW R, R \subseteq AuditRow, IsFiniteSet(R), \A q, r \in R : q.id = r.id => q = r,
         NEW b \in Nat, \A r \in R : r.id < b,
         NEW n \in Nat, n < Cardinality(R)
  PROVE  \E m \in R : Cardinality(Above(R, m.id)) = n
<1> DEFINE Bad == {k \in Nat : k < Cardinality(R) /\ ~ \E m \in R : Cardinality(Above(R, m.id)) = k}
           Less == OpToRel(<, Nat)
<1>0. Cardinality(R) \in Nat /\ \A r \in R : r.id \in Nat
  BY FS_CardinalityType DEF AuditRow
<1> SUFFICES ASSUME Bad # {} PROVE FALSE
  OBVIOUS
<1>1. IsWellFoundedOn(Less, Nat) /\ Bad \subseteq Nat
  BY NatLessThanWellFounded
<1>2. \E g \in Bad : \A k \in Bad : ~ (<<k, g>> \in Less)
  <2> HIDE DEF Bad, Less
  <2> QED  BY <1>1, WFMin, Zenon
<1>3. PICK g \in Bad : \A k \in Bad : ~ (k < g)
  BY <1>2 DEF OpToRel
<1>4. R # {}
  BY <1>0, FS_EmptySet
<1>5. CASE g = 0
  <2>1. PICK m \in R : \A r \in R : r.id <= m.id
    BY <1>4, NewestRow
  <2>2. Above(R, m.id) = {}
    BY <1>0, <2>1 DEF Above
  <2> QED  BY <1>5, <2>2, FS_EmptySet
<1>6. CASE g # 0
  <2>1. PICK p \in R : Cardinality(Above(R, p.id)) = g - 1
    <3>1. g - 1 \in Nat /\ g - 1 < g /\ g - 1 < Cardinality(R)
      BY <1>0, <1>6
    <3>2. g - 1 \notin Bad
      <4> HIDE DEF Bad
      <4> QED  BY <1>3, <3>1
    <3> QED  BY <3>1, <3>2
  <2> DEFINE From == Above(R, p.id) \cup {p}
             Rest == R \ From
  <2>2. /\ IsFiniteSet(Above(R, p.id)) /\ p \notin Above(R, p.id)
        /\ From \subseteq R
    BY <1>0, FS_Subset DEF Above
  <2>3. IsFiniteSet(From) /\ Cardinality(From) = g
    <3>1. g \in Nat
      OBVIOUS
    <3>2. IsFiniteSet(From) /\ Cardinality(From) = Cardinality(Above(R, p.id)) + 1
      BY <2>2, FS_AddElement
    <3> QED  BY <2>1, <3>1, <3>2
  <2>4. Rest # {}
    <3> HIDE DEF From
    <3> SUFFICES ASSUME Rest = {} PROVE FALSE
      OBVIOUS
    <3>1. From = R
      BY <2>2
    <3> QED  BY <1>3, <2>3, <3>1
  <2>5. PICK m \in Rest : \A r \in Rest : r.id <= m.id
    <3> HIDE DEF From
    <3> QED  BY <2>4, NewestRow
  <2>6. Above(R, m.id) = From
    <3>1. \A r \in R : r.id > m.id => r \in From
      BY <1>0, <2>5
    <3>2. \A r \in From : r.id > m.id
      BY <1>0, <2>5 DEF Above
    <3> QED  BY <2>2, <3>1, <3>2 DEF Above
  <2> QED  BY <2>3, <2>6
<1> QED  BY <1>5, <1>6

\* What is left of the log R with watermark w under a cap of n rows: K and W.
Pruned(R, w, n, K, W) ==
  /\ K \subseteq R /\ W \in Mark
  /\ n # 0 => Cardinality(K) <= n
  /\ W.total >= w.total
  /\ \A r \in R \ K : r.id <= W.through /\ W.total > w.total
  /\ \A r \in R \ K, q \in K : r.id < q.id
  /\ W # w => (\E m \in R : W.through = m.id) /\ \A q \in K : W.through < q.id

\* prune_audit_log keeps the newest rows and records the others.
LEMMA PruneLog ==
  ASSUME NEW R, NEW w, NEW k, Log(R, w, k), NEW b \in Nat, \A r \in R : r.id < b, NEW n \in Nat
  PROVE  /\ Log(Kept(R, n), Forgotten(R, n, w), k)
         /\ Pruned(R, w, n, Kept(R, n), Forgotten(R, n, w))
<1>0. /\ Cardinality(R) \in Nat /\ \A r \in R : r.id \in Nat
      /\ w.total \in Nat
  BY FS_CardinalityType DEF AuditRow, Log, Mark
<1>1. CASE ~Overflow(R, n)
  BY <1>0, <1>1 DEF Kept, Forgotten, Overflow, Log, Pruned
<1>2. CASE Overflow(R, n)
  <2>1. PICK m \in R : Cardinality(Above(R, m.id)) = n
    BY <1>0, <1>2, CutoffExists DEF Overflow, Log
  <2>2. Cutoff(R, n) \in {r.id : r \in R} /\ Cardinality(Above(R, Cutoff(R, n))) = n
    BY <2>1 DEF Cutoff, Above
  <2> DEFINE c == Cutoff(R, n)
             K == Kept(R, n)
             W == Forgotten(R, n, w)
  <2>3. K = Above(R, c) /\ W = [through |-> c, total |-> w.total + Cardinality(R) - n]
    BY <1>2 DEF Kept, Forgotten, Above
  <2>4. c \in Nat /\ \E q \in R : c = q.id
    BY <1>0, <2>2
  <2>5. K \subseteq R /\ Cardinality(K) = n /\ IsFiniteSet(K)
    BY <2>2, <2>3, FS_Subset DEF Above, Log
  <2>6. W \in Mark /\ W.total = w.total + Cardinality(R) - n /\ W.through = c /\ W.total > w.total
    BY <1>0, <1>2, <2>3, <2>4 DEF Mark, Overflow
  <2>7. \A r \in R : r \in K <=> r.id > c
    BY <2>3 DEF Above
  <2> HIDE DEF K, W, c
  <2>8. Log(K, W, k)
    BY <1>0, <2>5, <2>6 DEF Log
  <2>9. Pruned(R, w, n, K, W)
    BY <1>0, <2>4, <2>5, <2>6, <2>7 DEF Pruned
  <2> QED  BY <2>8, <2>9 DEF K, W
<1> QED  BY <1>1, <1>2

\* An append adds one row and one event.
LEMMA AppendLog ==
  ASSUME NEW R, NEW w, NEW k, Log(R, w, k), NEW i \in Nat \ {0}, \A r \in R : r.id < i,
         NEW n \in Nat \ {0}, n \notin k
  PROVE  Log(R \cup {[id |-> i, event |-> n]}, w, k \cup {n})
<1> DEFINE row == [id |-> i, event |-> n]
<1>1. row \in AuditRow /\ row \notin R /\ \A r \in R : r.id # row.id /\ r.event # row.event
  BY DEF Log, AuditRow
<1>2. /\ IsFiniteSet(R \cup {row}) /\ Cardinality(R \cup {row}) = Cardinality(R) + 1
      /\ IsFiniteSet(k \cup {n}) /\ Cardinality(k \cup {n}) = Cardinality(k) + 1
  BY <1>1, FS_AddElement DEF Log
<1>3. Cardinality(R) \in Nat /\ Cardinality(k) \in Nat /\ w.total \in Nat
  BY FS_CardinalityType DEF Log, Mark
<1>4. row.event = n
  OBVIOUS
<1> HIDE DEF row
<1>5. \A q, r \in R \cup {row} : q.id = r.id \/ q.event = r.event => q = r
  BY <1>1 DEF Log
<1>6. \A r \in R \cup {row} : r.event \in k \cup {n}
  BY <1>4 DEF Log
<1>7. w.total + (Cardinality(R) + 1) = Cardinality(k) + 1
  BY <1>3 DEF Log
<1> QED  BY <1>1, <1>2, <1>5, <1>6, <1>7 DEF Log, row

\* An import gives the captured rows the next ids in their order.
LEMMA RenumberLog ==
  ASSUME NEW R, NEW w, NEW k, Log(R, w, k), NEW first \in Nat \ {0}
  PROVE  /\ Log(Renumbered(R, first), w, k)
         /\ \A r \in Renumbered(R, first) : first <= r.id /\ r.id < first + Cardinality(R)
         /\ Cardinality(Renumbered(R, first)) = Cardinality(R)
<1> DEFINE Before(r) == {q \in R : q.id < r.id}
           f == [r \in R |-> [id |-> first + Cardinality(Before(r)), event |-> r.event]]
           T == Renumbered(R, first)
<1>0. Cardinality(R) \in Nat /\ \A r \in R : r.id \in Nat /\ r.event \in Nat \ {0}
  BY FS_CardinalityType DEF AuditRow, Log
<1>1. ASSUME NEW r \in R
      PROVE  IsFiniteSet(Before(r)) /\ Cardinality(Before(r)) \in 0 .. Cardinality(R) - 1
  <2>1. Before(r) \in SUBSET R /\ Before(r) # R
    BY <1>0
  <2> HIDE DEF Before
  <2>2. IsFiniteSet(Before(r)) /\ Cardinality(Before(r)) <= Cardinality(R)
        /\ Cardinality(Before(r)) # Cardinality(R)
    BY <2>1, FS_Subset DEF Log
  <2> QED  BY <1>0, <2>2, FS_CardinalityType
<1>2. ASSUME NEW q \in R, NEW r \in R, q.id < r.id
      PROVE  Cardinality(Before(q)) < Cardinality(Before(r))
  <2>1. Before(q) \in SUBSET Before(r) /\ Before(q) # Before(r)
    BY <1>0, <1>2
  <2> HIDE DEF Before
  <2> QED  BY <1>1, <2>1, FS_Subset
<1>3. /\ T = {[id |-> first + Cardinality(Before(r)), event |-> r.event] : r \in R}
      /\ f \in [R -> T]
      /\ \A t \in T : \E r \in R : t = f[r]
  BY DEF Renumbered
<1>4. \A r \in R : f[r] = [id |-> first + Cardinality(Before(r)), event |-> r.event]
  OBVIOUS
<1> HIDE DEF T, f, Before
<1>5. \A r \in R : f[r] \in AuditRow /\ f[r].event = r.event /\ f[r].id = first + Cardinality(Before(r))
  <2> SUFFICES ASSUME NEW r \in R
               PROVE  f[r] \in AuditRow /\ f[r].event = r.event /\ f[r].id = first + Cardinality(Before(r))
    OBVIOUS
  <2>1. first + Cardinality(Before(r)) \in Nat \ {0}
    BY <1>1
  <2>2. f[r] = [id |-> first + Cardinality(Before(r)), event |-> r.event]
    BY <1>4
  <2> QED  BY <1>0, <2>1, <2>2 DEF AuditRow
<1>6. \A q, r \in R : f[q].id = f[r].id \/ f[q].event = f[r].event => q = r
  <2>1. \A q, r \in R : f[q].id = f[r].id => ~ (q.id < r.id)
    BY <1>1, <1>2, <1>5
  <2> QED  BY <1>0, <1>5, <2>1 DEF Log
<1>7. IsFiniteSet(T) /\ Cardinality(T) = Cardinality(R)
  <2>1. f \in Bijection(R, T)
    BY <1>3, <1>6 DEF Bijection, Injection, Surjection, IsInjective
  <2> QED  BY <2>1, FS_Bijection DEF ExistsBijection, Log
<1>8. T \subseteq AuditRow /\ \A r \in T : r.event \in k /\ first <= r.id /\ r.id < first + Cardinality(R)
  BY <1>0, <1>1, <1>3, <1>5 DEF Log
<1>9. \A q, r \in T : q.id = r.id \/ q.event = r.event => q = r
  <2> SUFFICES ASSUME NEW q \in T, NEW r \in T, q.id = r.id \/ q.event = r.event PROVE q = r
    OBVIOUS
  <2>1. PICK x \in R : q = f[x]
    BY <1>3
  <2>2. PICK y \in R : r = f[y]
    BY <1>3
  <2>3. x = y
    BY <1>6, <2>1, <2>2
  <2> QED  BY <2>1, <2>2, <2>3
<1>10. Log(T, w, k)
  BY <1>7, <1>8, <1>9 DEF Log
<1> QED  BY <1>7, <1>8, <1>10 DEF T

\* Two logs of different rows and events are one log.
LEMMA JoinLogs ==
  ASSUME NEW R, NEW S, NEW w, NEW v, NEW k, NEW m, Log(R, w, k), Log(S, v, m), k \cap m = {},
         \A r \in R, s \in S : r.id # s.id, v.total = 0
  PROVE  Log(R \cup S, w, k \cup m)
<1>1. R \cap S = {}
  OBVIOUS
<1>2. /\ IsFiniteSet(R \cup S) /\ Cardinality(R \cup S) = Cardinality(R) + Cardinality(S) - Cardinality({})
      /\ IsFiniteSet(k \cup m) /\ Cardinality(k \cup m) = Cardinality(k) + Cardinality(m) - Cardinality({})
  <2>1. IsFiniteSet(R) /\ IsFiniteSet(S) /\ IsFiniteSet(k) /\ IsFiniteSet(m)
    BY DEF Log
  <2>2. IsFiniteSet(R \cup S) /\ Cardinality(R \cup S) = Cardinality(R) + Cardinality(S) - Cardinality(R \cap S)
    BY <2>1, FS_Union
  <2>3. IsFiniteSet(k \cup m) /\ Cardinality(k \cup m) = Cardinality(k) + Cardinality(m) - Cardinality(k \cap m)
    BY <2>1, FS_Union
  <2> QED  BY <1>1, <2>2, <2>3
<1>3. /\ Cardinality(R) \in Nat /\ Cardinality(S) \in Nat /\ Cardinality(k) \in Nat
      /\ Cardinality(m) \in Nat /\ w.total \in Nat /\ Cardinality({}) = 0
  BY FS_CardinalityType, FS_EmptySet DEF Log, Mark
<1>4. \A q, r \in R \cup S : q.id = r.id \/ q.event = r.event => q = r
  BY DEF Log
<1>5. w.total + Cardinality(R \cup S) = Cardinality(k \cup m)
  BY <1>2, <1>3 DEF Log
<1> QED  BY <1>2, <1>4, <1>5 DEF Log

-----------------------------------------------------------------------------
(* The invariant of logs, backups and artifacts.                           *)

SnapshotsOf(e) == backups[e] \cup pending[e]

\* The live log of an environment.
LogOf(e) ==
  /\ Log(rows[e], mark[e], known[e])
  /\ known[e] \subseteq 1 .. events
  /\ \A r \in rows[e] : r.id < nextId

\* Two environments share neither events nor row ids.
Apart(e, f) ==
  /\ known[e] \cap known[f] = {}
  /\ \A q \in rows[e], r \in rows[f] : q.id # r.id

Logs ==
  /\ exists \subseteq Envs /\ cap \in Caps
  /\ nextId \in Nat \ {0} /\ events \in Nat /\ losses \in Nat
  /\ rows \in [Envs -> SUBSET AuditRow]
  /\ mark \in [Envs -> Mark]
  /\ known \in [Envs -> SUBSET (Nat \ {0})]
  /\ \A e \in Envs : LogOf(e)
  /\ \A e, f \in Envs : e # f => Apart(e, f)

\* What a snapshot taken in this database has and the log has not was pruned:
\* it lies under the watermark and below every live row.
CapturedOK(e, s) ==
  /\ s \in Snapshot /\ Log(s.rows, s.mark, s.known)
  /\ s.mark.total <= mark[e].total
  /\ s.known \subseteq known[e]
  /\ \A r \in s.rows : r.id < nextId
  /\ \A r \in s.rows \ rows[e] : r.id <= mark[e].through /\ \A q \in rows[e] : r.id < q.id

Snapshots ==
  /\ backups \in [Envs -> SUBSET Snapshot]
  /\ pending \in [Envs -> SUBSET Snapshot]
  /\ \A e \in Envs : \A s \in SnapshotsOf(e) : e \in exists /\ CapturedOK(e, s)

\* An artifact shares no event with another environment, nor with its own
\* before it is imported.
ArtifactOK(a) ==
  /\ a \in [env : Envs, snapshot : Snapshot]
  /\ Log(a.snapshot.rows, a.snapshot.mark, a.snapshot.known)
  /\ a.snapshot.known \subseteq 1 .. events
  /\ \A e \in Envs : e # a.env \/ e \notin exists => a.snapshot.known \cap known[e] = {}
  /\ \A c \in artifacts : c.env # a.env => c.snapshot.known \cap a.snapshot.known = {}

Artifacts == \A a \in artifacts : ArtifactOK(a)

\* The watermark of an environment lies below its live rows.
MarkBelow(e) ==
  /\ mark[e].through < nextId
  /\ \A r \in rows[e] : mark[e].through < r.id
  /\ \A s \in SnapshotsOf(e) : s.mark.through <= mark[e].through

\* So it is until a database was lost; and artifacts belong to environments
\* that exist.
Unlost ==
  losses = 0 => /\ \A a \in artifacts : a.env \in exists
                /\ \A e \in Envs : MarkBelow(e)

RetentionInv == Logs /\ Snapshots /\ Artifacts /\ Unlost /\ CapHolds

-----------------------------------------------------------------------------
(* A step of the log of one environment.                                   *)

\* The log of e after a step: what went is recorded, what came is new, and
\* the watermark still covers what it covered of this database's rows.
LogMoves(e) ==
  /\ LogOf(e)'
  /\ mark[e].total <= mark'[e].total
  /\ known[e] \subseteq known'[e]
  /\ \A r \in rows[e] \ rows'[e] : /\ r.id <= mark'[e].through /\ mark[e].total < mark'[e].total
                                   /\ \A q \in rows'[e] : r.id < q.id
  /\ \A q \in rows'[e] \ rows[e] : nextId <= q.id
  /\ e \in exists => \/ mark[e].through <= mark'[e].through
                     \/ \E m \in rows[e] : mark'[e].through = m.id
                     \/ nextId <= mark'[e].through
  /\ cap' # 0 => Cardinality(rows'[e]) <= cap'

\* Snapshots of an environment whose log moves stay what they are.
LEMMA CapturedMoves ==
  ASSUME Logs, NEW e \in exists, NEW s, CapturedOK(e, s), LogMoves(e), nextId' \in Nat, nextId <= nextId'
  PROVE  CapturedOK(e, s)'
<1>0. e \in Envs
  BY DEF Logs
<1>1. /\ mark[e] \in Mark /\ nextId \in Nat /\ rows[e] \subseteq AuditRow /\ mark'[e] \in Mark
      /\ rows'[e] \subseteq AuditRow /\ s.rows \subseteq AuditRow /\ s.mark \in Mark
  BY <1>0 DEF Logs, LogMoves, LogOf, Log, CapturedOK
<1>2. s.mark.total <= mark'[e].total /\ s.known \subseteq known'[e]
  BY <1>1 DEF CapturedOK, LogMoves, Mark
<1>3. \A r \in s.rows : r.id < nextId'
  BY <1>1 DEF CapturedOK, AuditRow
<1>4. ASSUME NEW r \in s.rows, r \notin rows'[e]
      PROVE  r.id <= mark'[e].through /\ \A q \in rows'[e] : r.id < q.id
  <2>1. CASE r \in rows[e]
    BY <1>4, <2>1 DEF LogMoves
  <2>2. CASE r \notin rows[e]
    <3>1. r.id \in Nat /\ mark[e].through \in Nat /\ mark'[e].through \in Nat
      BY <1>1 DEF AuditRow, Mark
    <3>2. r.id <= mark[e].through /\ r.id < nextId /\ \A q \in rows[e] : r.id < q.id
      BY <2>2 DEF CapturedOK
    <3>3. r.id <= mark'[e].through
      BY <1>1, <3>1, <3>2 DEF LogMoves, AuditRow
    <3>4. \A q \in rows'[e] : r.id < q.id
      BY <1>1, <3>1, <3>2 DEF LogMoves, AuditRow
    <3> QED  BY <3>3, <3>4
  <2> QED  BY <2>1, <2>2
<1> QED  BY <1>2, <1>3, <1>4 DEF CapturedOK

\* A step that only moves logs, one of which may grow.
LEMMA LogsMove ==
  ASSUME Logs, Snapshots, exists \subseteq exists', exists' \subseteq Envs, cap' \in Caps,
         nextId' \in Nat, nextId <= nextId', events' \in Nat, events <= events', losses' \in Nat,
         rows' \in [Envs -> SUBSET AuditRow], mark' \in [Envs -> Mark],
         known' \in [Envs -> SUBSET (Nat \ {0})],
         \A e \in Envs : LogMoves(e),
         NEW g, \A e \in Envs : e # g => rows'[e] \subseteq rows[e] /\ known'[e] = known[e],
         \A e \in Envs : e # g /\ g \in Envs => known[e] \cap known'[g] = {}
  PROVE  Logs' /\ CapHolds'
<1>1. \A e \in Envs : LogOf(e)'
  BY DEF LogMoves
<1>2. ASSUME NEW e \in Envs, NEW f \in Envs, e # f PROVE Apart(e, f)'
  <2>1. Apart(e, f) /\ Apart(f, e)
    BY <1>2 DEF Logs
  <2>2. known'[e] \cap known'[f] = {}
    BY <1>2, <2>1 DEF Apart
  <2>3. ASSUME NEW q \in rows'[e], NEW r \in rows'[f] PROVE q.id # r.id
    <3>1. /\ q \in rows[e] \/ (e = g /\ nextId <= q.id)
          /\ r \in rows[f] \/ (f = g /\ nextId <= r.id)
      BY DEF LogMoves
    <3>2. /\ q \in rows[e] => q.id < nextId
          /\ r \in rows[f] => r.id < nextId
      BY DEF Logs, LogOf
    <3>3. q.id \in Nat /\ r.id \in Nat /\ nextId \in Nat
      BY DEF AuditRow, Logs
    <3> QED  BY <1>2, <2>1, <3>1, <3>2, <3>3 DEF Apart
  <2> QED  BY <2>2, <2>3 DEF Apart
<1>3. nextId' \in Nat \ {0}
  BY DEF Logs
<1>4. CapHolds'
  BY DEF LogMoves, CapHolds
<1> QED  BY <1>1, <1>2, <1>3, <1>4 DEF Logs

\* And the snapshots and artifacts, where no snapshot is new.
LEMMA RecordsMove ==
  ASSUME Logs, Snapshots, Artifacts, exists \subseteq exists',
         nextId' \in Nat, nextId <= nextId', events' \in Nat, events <= events',
         \A e \in Envs : LogMoves(e), artifacts' = artifacts,
         backups' \in [Envs -> SUBSET Snapshot], pending' \in [Envs -> SUBSET Snapshot],
         \A e \in Envs : SnapshotsOf(e)' \subseteq SnapshotsOf(e),
         \A a \in artifacts, e \in Envs :
           e # a.env \/ e \notin exists' => a.snapshot.known \cap known'[e] = {}
  PROVE  Snapshots' /\ Artifacts'
<1>1. ASSUME NEW e \in Envs, NEW s \in SnapshotsOf(e)' PROVE e \in exists' /\ CapturedOK(e, s)'
  <2>1. e \in exists /\ CapturedOK(e, s)
    BY DEF Snapshots
  <2> QED  BY <2>1, CapturedMoves
<1>2. ASSUME NEW a \in artifacts PROVE ArtifactOK(a)'
  <2>1. ArtifactOK(a)
    BY DEF Artifacts
  <2>2. a.snapshot.known \subseteq 1 .. events'
    BY <2>1 DEF ArtifactOK, Logs
  <2> QED  BY <2>1, <2>2 DEF ArtifactOK
<1> QED  BY <1>1, <1>2 DEF Snapshots, Artifacts

\* A log that stays stays as it is.
LEMMA StillMoves ==
  ASSUME Logs, CapHolds, NEW e \in Envs, rows'[e] = rows[e], mark'[e] = mark[e], known'[e] = known[e],
         nextId' \in Nat, nextId <= nextId', events' \in Nat, events <= events', cap' = cap
  PROVE  LogMoves(e)
<1>1. LogOf(e)'
  <2>1. LogOf(e) /\ nextId \in Nat /\ events \in Nat /\ rows[e] \subseteq AuditRow
    BY DEF Logs
  <2>2. known[e] \subseteq 1 .. events'
    BY <2>1 DEF LogOf
  <2>3. \A r \in rows[e] : r.id < nextId'
    BY <2>1 DEF LogOf, AuditRow
  <2> QED  BY <2>1, <2>2, <2>3 DEF LogOf
<1>2. mark[e].total \in Nat /\ mark[e].through \in Nat
  BY DEF Logs, Mark
<1> QED  BY <1>1, <1>2 DEF LogMoves, CapHolds

-----------------------------------------------------------------------------
(* Appends.                                                                *)

\* A transaction that built the log R and the watermark w of the environment e
\* and journals its event under the id i; it learns of the events more.
Journals(e, R, w, i, more) ==
  /\ e \in Envs /\ i \in Nat /\ nextId <= i
  /\ Log(R, w, known[e] \cup more) /\ more \subseteq 1 .. events
  /\ rows[e] \subseteq R
  /\ \A r \in R : r.id < i /\ (r \in rows[e] \/ nextId <= r.id)
  /\ mark[e].total <= w.total
  /\ e \in exists => mark[e].through <= w.through
  /\ Journal(e, R, w, i) /\ Learn(e, more) /\ cap' = cap

\* What it does to the log of e, and that it leaves the other logs alone.
LEMMA JournalMoves ==
  ASSUME Logs, NEW e, NEW R, NEW w, NEW i, NEW more, Journals(e, R, w, i, more)
  PROVE  /\ LogMoves(e)
         /\ rows' \in [Envs -> SUBSET AuditRow] /\ mark' \in [Envs -> Mark]
         /\ known' \in [Envs -> SUBSET (Nat \ {0})]
         /\ known'[e] = known[e] \cup more \cup {events + 1}
         /\ nextId' = i + 1 /\ nextId' \in Nat /\ nextId <= nextId'
         /\ events' \in Nat /\ events <= events'
         /\ \A f \in Envs : f # e => rows'[f] = rows[f] /\ mark'[f] = mark[f] /\ known'[f] = known[f]
         /\ rows'[e] \subseteq R \cup {[id |-> i, event |-> events + 1]}
         /\ mark'[e] # w => /\ mark'[e].through = i \/ \E m \in R : mark'[e].through = m.id
                            /\ \A q \in rows'[e] : mark'[e].through < q.id
<1> USE DEF Journals
<1> DEFINE row == [id |-> i, event |-> events + 1]
           A == R \cup {row}
           k == known[e] \cup more \cup {events + 1}
<1>0. /\ nextId \in Nat \ {0} /\ events \in Nat /\ cap \in Nat /\ i \in Nat \ {0}
      /\ R \subseteq AuditRow /\ known[e] \subseteq 1 .. events /\ w \in Mark
      /\ mark[e] \in Mark /\ rows[e] \subseteq AuditRow
  BY RetentionAssumption DEF Logs, LogOf, Log
<1>1. Log(A, w, k)
  <2>1. events + 1 \in Nat \ {0} /\ events + 1 \notin known[e] \cup more
    BY <1>0
  <2> QED  BY <1>0, <2>1, AppendLog
<1>2. row \in AuditRow /\ row.id = i
  BY <1>0 DEF AuditRow
<1>3. A \subseteq AuditRow /\ \A r \in A : r.id < i + 1
  BY <1>0, <1>2 DEF AuditRow
<1>4. Log(Kept(A, cap), Forgotten(A, cap, w), k) /\ Pruned(A, w, cap, Kept(A, cap), Forgotten(A, cap, w))
  BY <1>0, <1>1, <1>3, PruneLog
<1>5. /\ rows' = [rows EXCEPT ![e] = Kept(A, cap)]
      /\ mark' = [mark EXCEPT ![e] = Forgotten(A, cap, w)]
      /\ known' = [known EXCEPT ![e] = k]
      /\ nextId' = i + 1 /\ events' = events + 1
  BY DEF Journal, Learn
<1> HIDE DEF row, A, k
<1>6. /\ rows'[e] = Kept(A, cap) /\ mark'[e] = Forgotten(A, cap, w) /\ known'[e] = k
      /\ \A f \in Envs : f # e => rows'[f] = rows[f] /\ mark'[f] = mark[f] /\ known'[f] = known[f]
  BY <1>5 DEF Logs
<1>7. /\ rows'[e] \subseteq A /\ mark'[e] \in Mark /\ k \subseteq 1 .. events + 1 /\ k \subseteq Nat \ {0}
      /\ known[e] \subseteq k
  <2>1. rows'[e] \subseteq A /\ mark'[e] \in Mark
    BY <1>4, <1>6 DEF Pruned
  <2>2. k \subseteq 1 .. events + 1
    <3>1. \A x \in 1 .. events : x \in 1 .. events + 1
      BY <1>0
    <3>2. events + 1 \in 1 .. events + 1
      BY <1>0
    <3> HIDE DEF Journal, Learn
    <3> QED  BY <1>0, <3>1, <3>2, Zenon DEF k
  <2>3. \A x \in 1 .. events + 1 : x \in Nat \ {0}
    BY <1>0
  <2>4. known[e] \subseteq k
    BY DEF k
  <2> QED  BY <2>1, <2>2, <2>3, <2>4
<1>8. /\ rows' \in [Envs -> SUBSET AuditRow] /\ mark' \in [Envs -> Mark]
      /\ known' \in [Envs -> SUBSET (Nat \ {0})]
  <2>1. Kept(A, cap) \subseteq AuditRow /\ Forgotten(A, cap, w) \in Mark
    BY <1>3, <1>6, <1>7
  <2> QED  BY <1>5, <1>7, <2>1 DEF Logs
<1>9. /\ nextId' \in Nat /\ nextId <= nextId' /\ events' \in Nat /\ events <= events'
  BY <1>0, <1>5
<1>10. mark'[e] # w => /\ mark'[e].through = i \/ \E m \in R : mark'[e].through = m.id
                       /\ \A q \in rows'[e] : mark'[e].through < q.id
  BY <1>2, <1>4, <1>6 DEF Pruned, A
<1>11. LogMoves(e)
  <2>1. LogOf(e)'
    BY <1>3, <1>4, <1>5, <1>6, <1>7 DEF LogOf
  <2>2. mark[e].total <= mark'[e].total
    BY <1>0, <1>4, <1>6, <1>7 DEF Pruned, Mark
  <2>3. ASSUME NEW r \in rows[e], r \notin rows'[e]
        PROVE  /\ r.id <= mark'[e].through /\ mark[e].total < mark'[e].total
               /\ \A q \in rows'[e] : r.id < q.id
    <3>1. r \in A
      BY DEF A
    <3>2. r.id <= mark'[e].through /\ w.total < mark'[e].total /\ \A q \in rows'[e] : r.id < q.id
      BY <1>4, <1>6, <2>3, <3>1 DEF Pruned
    <3> QED  BY <1>0, <1>7, <3>2 DEF Mark
  <2>4. \A q \in rows'[e] \ rows[e] : nextId <= q.id
    BY <1>2, <1>7 DEF A
  <2>5. e \in exists => \/ mark[e].through <= mark'[e].through
                        \/ \E m \in rows[e] : mark'[e].through = m.id
                        \/ nextId <= mark'[e].through
    <3>1. CASE mark'[e] = w
      BY <3>1
    <3>2. CASE mark'[e] # w
      BY <1>10, <3>2
    <3> QED  BY <3>1, <3>2
  <2>6. cap # 0 => Cardinality(rows'[e]) <= cap
    BY <1>4, <1>6 DEF Pruned
  <2> QED  BY <1>6, <1>7, <2>1, <2>2, <2>3, <2>4, <2>5, <2>6 DEF LogMoves
<1>12. rows'[e] \subseteq R \cup {[id |-> i, event |-> events + 1]}
  BY <1>7 DEF A, row
<1>13. known'[e] = known[e] \cup more \cup {events + 1}
  BY <1>6 DEF k
<1> QED  BY <1>5, <1>6, <1>8, <1>9, <1>10, <1>11, <1>12, <1>13

\* What a step shows of the logs: the rows that went are recorded, and before
\* a loss no watermark goes back.
Remembers ==
  /\ \A e \in Envs : LogMoves(e)
  /\ losses' = 0 => \A e \in Envs : mark[e].through <= mark'[e].through

\* A journaled request that works on the live log, with the watermark as it is
\* or raised.
LEMMA Journaled ==
  ASSUME RetentionInv, NEW e \in Envs, NEW w \in Mark, w.total = mark[e].total,
         mark[e].through <= w.through, losses = 0 => w.through = mark[e].through,
         Journal(e, rows[e], w, nextId), Learn(e, {}),
         exists \subseteq exists', exists' \subseteq Envs,
         cap' = cap, artifacts' = artifacts, losses' = losses,
         backups' \in [Envs -> SUBSET Snapshot], pending' \in [Envs -> SUBSET Snapshot],
         \A f \in Envs : SnapshotsOf(f)' \subseteq SnapshotsOf(f)
  PROVE  RetentionInv' /\ Remembers
<1> USE DEF RetentionInv
<1>0. /\ Logs /\ LogOf(e) /\ known[e] \cup {} = known[e] /\ nextId \in Nat /\ cap \in Caps
      /\ mark[e] \in Mark /\ losses \in Nat
  BY DEF Logs
<1>1. Log(rows[e], w, known[e] \cup {})
  BY <1>0 DEF LogOf, Log
<1>2. /\ LogMoves(e)
      /\ rows' \in [Envs -> SUBSET AuditRow] /\ mark' \in [Envs -> Mark]
      /\ known' \in [Envs -> SUBSET (Nat \ {0})]
      /\ known'[e] = known[e] \cup {} \cup {events + 1}
      /\ nextId' = nextId + 1 /\ nextId' \in Nat /\ nextId <= nextId'
      /\ events' \in Nat /\ events <= events'
      /\ \A f \in Envs : f # e => rows'[f] = rows[f] /\ mark'[f] = mark[f] /\ known'[f] = known[f]
      /\ rows'[e] \subseteq rows[e] \cup {[id |-> nextId, event |-> events + 1]}
      /\ mark'[e] # w => /\ mark'[e].through = nextId \/ \E m \in rows[e] : mark'[e].through = m.id
                         /\ \A q \in rows'[e] : mark'[e].through < q.id
  <2>1. \A r \in rows[e] : r.id < nextId /\ (r \in rows[e] \/ nextId <= r.id)
    BY <1>0 DEF LogOf
  <2>2. nextId <= nextId /\ mark[e].total <= w.total /\ {} \subseteq 1 .. events
    BY <1>0 DEF Mark
  <2>3. Journals(e, rows[e], w, nextId, {})
    BY <1>0, <1>1, <2>1, <2>2 DEF Journals
  <2> QED  BY <1>0, <2>3, JournalMoves
<1>3. \A f \in Envs : LogMoves(f)
  <2> SUFFICES ASSUME NEW f \in Envs, f # e PROVE LogMoves(f)
    BY <1>2
  <2> QED  BY <1>0, <1>2, StillMoves
<1>4. \A f \in Envs : known[f] \subseteq 1 .. events /\ events \in Nat
  BY DEF Logs, LogOf
<1>5. Logs' /\ CapHolds'
  <2>1. \A f \in Envs : f # e => known[f] \cap known'[e] = {}
    BY <1>0, <1>2, <1>4 DEF Logs, Apart
  <2> QED  BY <1>0, <1>2, <1>3, <2>1, LogsMove
<1>6. Snapshots' /\ Artifacts'
  <2>1. ASSUME NEW a \in artifacts, NEW f \in Envs, f # a.env \/ f \notin exists'
        PROVE  a.snapshot.known \cap known'[f] = {}
    <3>1. a.snapshot.known \cap known[f] = {} /\ a.snapshot.known \subseteq 1 .. events
      BY <2>1 DEF Artifacts, ArtifactOK
    <3> QED  BY <1>2, <1>4, <3>1
  <2> QED  BY <1>0, <1>2, <1>3, <2>1, RecordsMove
<1>7. ASSUME losses = 0
      PROVE  \A f \in Envs : MarkBelow(f)' /\ mark[f].through <= mark'[f].through
  <2> TAKE f \in Envs
  <2>1. MarkBelow(f) /\ mark[f] \in Mark /\ rows[f] \subseteq AuditRow
    BY <1>7 DEF Unlost, Logs
  <2>2. CASE f # e
    BY <1>0, <1>2, <2>1, <2>2 DEF MarkBelow, Mark
  <2>3. CASE f = e
    <3>1. w.through = mark[e].through /\ mark'[e] \in Mark /\ mark[e].through \in Nat
      BY <1>2, <1>7, <2>1, <2>3 DEF Mark
    <3>2. mark[e].through <= mark'[e].through /\ mark'[e].through < nextId'
      <4>1. /\ mark[e].through < nextId /\ nextId' = nextId + 1
            /\ \A m \in rows[e] : m.id \in Nat /\ mark[e].through < m.id /\ m.id < nextId
        BY <1>0, <1>2, <2>1, <2>3 DEF MarkBelow, AuditRow, LogOf
      <4>2. CASE mark'[e] = w
        BY <1>0, <3>1, <4>1, <4>2
      <4>3. CASE mark'[e] # w
        BY <1>0, <1>2, <3>1, <4>1, <4>3
      <4> QED  BY <4>2, <4>3
    <3>3. \A r \in rows'[e] : mark'[e].through < r.id
      <4>1. CASE mark'[e] = w
        BY <1>2, <2>1, <2>3, <3>1, <4>1 DEF MarkBelow
      <4> QED  BY <1>2, <4>1
    <3>4. \A s \in SnapshotsOf(e)' : s.mark.through <= mark'[e].through
      <4>1. \A s \in SnapshotsOf(e) : s.mark \in Mark /\ s.mark.through <= mark[e].through
        BY <2>1, <2>3 DEF MarkBelow, Snapshots, CapturedOK, Log
      <4> QED  BY <3>1, <3>2, <4>1 DEF Mark
    <3> QED  BY <2>3, <3>2, <3>3, <3>4 DEF MarkBelow
  <2> QED  BY <2>2, <2>3
<1>8. Unlost'
  BY <1>7 DEF Unlost
<1> QED  BY <1>3, <1>5, <1>6, <1>7, <1>8 DEF Remembers

\* Requests on an environment: mutations, denials, creation, backups stored
\* and deleted.
LEMMA RequestStep ==
  ASSUME RetentionInv, NEW e \in Envs, Mutate(e) \/ RecordDenial(e) \/ CreateEnv(e)
  PROVE  RetentionInv' /\ Remembers
<1>1. /\ Journal(e, rows[e], mark[e], nextId) /\ Learn(e, {})
      /\ exists \subseteq exists' /\ exists' \subseteq Envs
      /\ UNCHANGED <<backups, pending, cap, artifacts, losses>>
  BY DEF Mutate, RecordDenial, CreateEnv, RetentionInv, Logs
<1>2. mark[e] \in Mark /\ mark[e].through <= mark[e].through
  BY DEF RetentionInv, Logs, Mark
<1>3. /\ backups' \in [Envs -> SUBSET Snapshot] /\ pending' \in [Envs -> SUBSET Snapshot]
      /\ \A f \in Envs : SnapshotsOf(f)' \subseteq SnapshotsOf(f)
  BY <1>1 DEF RetentionInv, Snapshots, SnapshotsOf
<1> QED  BY <1>1, <1>2, <1>3, Journaled

\* A step that leaves the logs alone.
LEMMA QuietStep ==
  ASSUME RetentionInv, UNCHANGED <<exists, rows, nextId, mark, cap, events, known, losses>>
  PROVE  Logs' /\ CapHolds' /\ Remembers
<1>1. Logs' /\ CapHolds'
  BY DEF RetentionInv, Logs, LogOf, Apart, CapHolds
<1>2. \A e \in Envs : LogMoves(e)
  BY StillMoves DEF RetentionInv, Logs
<1>3. \A e \in Envs : mark[e].through <= mark'[e].through
  BY DEF RetentionInv, Logs, Mark
<1> QED  BY <1>1, <1>2, <1>3 DEF Remembers

\* What a snapshot of the live log is.
LEMMA CapturedNow ==
  ASSUME RetentionInv, NEW e \in Envs
  PROVE  CapturedOK(e, Captured(e))
<1>1. Captured(e) \in Snapshot /\ Captured(e).rows = rows[e]
      /\ Captured(e).mark = mark[e] /\ Captured(e).known = known[e]
  BY DEF RetentionInv, Logs, Captured, Snapshot
<1>2. LogOf(e) /\ mark[e].total <= mark[e].total
  BY DEF RetentionInv, Logs, Mark
<1> QED  BY <1>1, <1>2 DEF CapturedOK, LogOf

\* create_backup loads a snapshot.
LEMMA LoadStep ==
  ASSUME RetentionInv, NEW e \in Envs, LoadEnvSnapshot(e)
  PROVE  RetentionInv' /\ Remembers
<1>1. /\ e \in exists /\ UNCHANGED <<exists, rows, nextId, mark, backups, cap, events, known, losses>>
      /\ artifacts' = artifacts /\ pending' = [pending EXCEPT ![e] = {Captured(e)}]
  BY DEF LoadEnvSnapshot, database
<1>2. Logs' /\ CapHolds' /\ Remembers
  BY <1>1, QuietStep
<1>3. CapturedOK(e, Captured(e)) /\ Captured(e) \in Snapshot
  BY CapturedNow DEF CapturedOK
<1>4. ASSUME NEW f \in Envs, NEW s, CapturedOK(f, s) PROVE CapturedOK(f, s)'
  BY <1>1, <1>4 DEF CapturedOK
<1>5. \A f \in Envs : \A s \in SnapshotsOf(f)' : s \in SnapshotsOf(f) \/ (f = e /\ s = Captured(e))
  BY <1>1 DEF SnapshotsOf, RetentionInv, Snapshots
<1>6. Snapshots'
  <2>1. backups' \in [Envs -> SUBSET Snapshot] /\ pending' \in [Envs -> SUBSET Snapshot]
    BY <1>1, <1>3 DEF RetentionInv, Snapshots
  <2> QED  BY <1>1, <1>3, <1>4, <1>5, <2>1 DEF RetentionInv, Snapshots
<1>7. Artifacts'
  BY <1>1 DEF RetentionInv, Artifacts, ArtifactOK
<1>8. Unlost'
  <2> SUFFICES ASSUME losses = 0 PROVE \A f \in Envs : MarkBelow(f)'
    BY <1>1 DEF Unlost, RetentionInv
  <2> TAKE f \in Envs
  <2>1. MarkBelow(f) /\ mark[f].through <= mark[f].through
    BY DEF RetentionInv, Unlost, Logs, Mark
  <2>2. Captured(e).mark = mark[e]
    BY DEF Captured
  <2> QED  BY <1>1, <1>5, <2>1, <2>2 DEF MarkBelow
<1> QED  BY <1>2, <1>6, <1>7, <1>8 DEF RetentionInv

\* A backup is stored or deleted.
LEMMA BackupStep ==
  ASSUME RetentionInv, NEW e \in Envs, NEW b,
         \/ b \in pending[e] /\ CreateBackup(e, b)
         \/ b \in backups[e] /\ DeleteBackup(e, b)
  PROVE  RetentionInv' /\ Remembers
<1>0. /\ backups \in [Envs -> SUBSET Snapshot] /\ pending \in [Envs -> SUBSET Snapshot]
      /\ mark[e] \in Mark /\ mark[e].through <= mark[e].through /\ exists \subseteq Envs
  BY DEF RetentionInv, Snapshots, Logs, Mark
<1>1. /\ backups' \in [Envs -> SUBSET Snapshot] /\ pending' \in [Envs -> SUBSET Snapshot]
      /\ \A f \in Envs : SnapshotsOf(f)' \subseteq SnapshotsOf(f)
      /\ UNCHANGED <<exists, cap, artifacts, losses>>
  <2>1. CASE b \in pending[e] /\ CreateBackup(e, b)
    <3>1. /\ pending' = [pending EXCEPT ![e] = {}]
          /\ backups' = backups \/ backups' = [backups EXCEPT ![e] = @ \cup {b}]
          /\ UNCHANGED <<exists, cap, artifacts, losses>>
      BY <2>1 DEF CreateBackup
    <3>2. b \in Snapshot
      BY <1>0, <2>1
    <3> QED  BY <1>0, <2>1, <3>1, <3>2 DEF SnapshotsOf
  <2>2. CASE b \in backups[e] /\ DeleteBackup(e, b)
    <3>1. /\ backups' = [backups EXCEPT ![e] = @ \ {b}] /\ pending' = pending
          /\ UNCHANGED <<exists, cap, artifacts, losses>>
      BY <2>2 DEF DeleteBackup
    <3> QED  BY <1>0, <2>2, <3>1 DEF SnapshotsOf
  <2> QED  BY <2>1, <2>2
<1>2. CASE Journal(e, rows[e], mark[e], nextId) /\ Learn(e, {})
  BY <1>0, <1>1, <1>2, Journaled
<1>3. CASE UNCHANGED <<rows, mark, nextId, events, known>>
  <2>1. Logs' /\ CapHolds' /\ Remembers
    BY <1>1, <1>3, QuietStep
  <2>2. Snapshots'
    BY <1>1, <1>3 DEF RetentionInv, Snapshots, CapturedOK
  <2>3. Artifacts' /\ Unlost'
    BY <1>1, <1>3 DEF RetentionInv, Artifacts, ArtifactOK, Unlost, MarkBelow
  <2> QED  BY <2>1, <2>2, <2>3 DEF RetentionInv
<1> QED  BY <1>2, <1>3 DEF CreateBackup, DeleteBackup

\* A restore brings no row back: what the backup has and the log has not was
\* pruned and lies under the watermark.
LEMMA RestoreStep ==
  ASSUME RetentionInv, NEW e \in Envs, NEW b \in backups[e], Restore(e, b)
  PROVE  RetentionInv' /\ Remembers
<1>0. /\ mark[e] \in Mark /\ exists \subseteq Envs /\ rows[e] \subseteq AuditRow
      /\ CapturedOK(e, b) /\ b \in SnapshotsOf(e)
  BY DEF RetentionInv, Logs, Snapshots, SnapshotsOf
<1>1. Replayed(e, b) = {}
  <2>1. \A r \in b.rows : r \in rows[e] => r \in InUse
    BY DEF InUse
  <2>2. \A r \in b.rows : r.id \in Nat
    BY <1>0 DEF CapturedOK, Log, AuditRow
  <2>3. \A r \in b.rows : r \notin rows[e] => ~ (r.id > mark[e].through)
    BY <1>0, <2>2 DEF CapturedOK, Mark
  <2> QED  BY <2>1, <2>3 DEF Replayed
<1> DEFINE w == Reconciled(mark[e], b.mark)
<1>2. /\ w \in Mark /\ w.total = mark[e].total /\ mark[e].through <= w.through
      /\ b.mark.through <= mark[e].through => w.through = mark[e].through
  <2>1. b.mark \in Mark /\ b.mark.total <= mark[e].total
    BY <1>0 DEF CapturedOK, Log
  <2> QED  BY <1>0, <2>1 DEF Reconciled, Larger, Mark
<1> HIDE DEF w
<1>3. losses = 0 => w.through = mark[e].through
  BY <1>0, <1>2 DEF RetentionInv, Unlost, MarkBelow
<1>4. /\ Journal(e, rows[e], w, nextId) /\ Learn(e, {})
      /\ UNCHANGED <<exists, backups, pending, cap, artifacts, losses>>
  <2>1. rows[e] \cup {} = rows[e]
    OBVIOUS
  <2> QED  BY <1>1, <2>1 DEF Restore, w
<1>5. /\ backups' \in [Envs -> SUBSET Snapshot] /\ pending' \in [Envs -> SUBSET Snapshot]
      /\ \A f \in Envs : SnapshotsOf(f)' \subseteq SnapshotsOf(f)
  BY <1>4 DEF RetentionInv, Snapshots, SnapshotsOf
<1> QED  BY <1>0, <1>2, <1>3, <1>4, <1>5, Journaled

\* A backup is exported.
LEMMA ExportStep ==
  ASSUME RetentionInv, NEW e \in Envs, NEW b \in backups[e], ExportBackup(e, b)
  PROVE  RetentionInv' /\ Remembers
<1> DEFINE x == [env |-> e, snapshot |-> b]
<1>1. /\ UNCHANGED <<exists, rows, nextId, mark, backups, pending, cap, events, known, losses>>
      /\ artifacts' = artifacts \cup {x}
  BY DEF ExportBackup, database
<1>2. Logs' /\ CapHolds' /\ Remembers
  BY <1>1, QuietStep
<1>3. /\ e \in exists /\ CapturedOK(e, b) /\ known[e] \subseteq 1 .. events
      /\ b \in Snapshot /\ b.known \subseteq known[e]
  BY DEF RetentionInv, Snapshots, SnapshotsOf, Logs, LogOf, CapturedOK
<1>4. Snapshots'
  BY <1>1 DEF RetentionInv, Snapshots, SnapshotsOf, CapturedOK
<1>5. Artifacts'
  <2>0. x.env = e /\ x.snapshot = b /\ x \in [env : Envs, snapshot : Snapshot]
    BY <1>3
  <2> HIDE DEF x
  <2>1. \A f \in Envs : f # e => b.known \cap known[f] = {}
    BY <1>3 DEF RetentionInv, Logs, Apart
  <2>2. \A a \in artifacts : a.env # e => a.snapshot.known \cap b.known = {}
    BY <1>3 DEF RetentionInv, Artifacts, ArtifactOK
  <2>3. ArtifactOK(x)'
    BY <1>1, <1>3, <2>0, <2>1, <2>2 DEF ArtifactOK, CapturedOK
  <2>4. ASSUME NEW a \in artifacts PROVE ArtifactOK(a)'
    BY <1>1, <2>0, <2>2 DEF ArtifactOK, RetentionInv, Artifacts
  <2> QED  BY <1>1, <2>3, <2>4 DEF Artifacts
<1>6. Unlost'
  BY <1>1, <1>3 DEF RetentionInv, Unlost, MarkBelow, SnapshotsOf
<1> QED  BY <1>2, <1>4, <1>5, <1>6 DEF RetentionInv

\* An import into a database that replaces a lost one joins the captured log
\* to that of the denials recorded since.
LEMMA ImportStep ==
  ASSUME RetentionInv, NEW a \in artifacts, Import(a)
  PROVE  RetentionInv' /\ Remembers
<1> DEFINE e == a.env
           c == a.snapshot.mark
           S == a.snapshot.rows
           k == a.snapshot.known
           new == {r \in S : \A q \in InUse : q.event # r.event}
           N == Renumbered(S, nextId)
           w == IF HasMark(c) THEN c ELSE mark[e]
           i == nextId + Cardinality(S)
<1>0. /\ e \in Envs /\ Log(S, c, k) /\ k \subseteq 1 .. events /\ k \cap known[e] = {}
      /\ \A f \in Envs : k \cap known[f] = {}
      /\ e \notin exists /\ nextId \in Nat \ {0} /\ events \in Nat /\ mark[e] \in Mark /\ c \in Mark
  <2>1. ArtifactOK(a) /\ e \notin exists
    BY DEF RetentionInv, Artifacts, Import
  <2>2. e \in Envs
    BY <2>1 DEF ArtifactOK
  <2> QED  BY <2>1, <2>2 DEF ArtifactOK, RetentionInv, Logs, Log
<1>1. new = S
  <2>1. ASSUME NEW r \in S, NEW q \in InUse PROVE q.event # r.event
    <3>1. PICK f \in Envs : q \in rows[f]
      BY DEF InUse
    <3>2. q.event \in known[f]
      BY <3>1 DEF RetentionInv, Logs, LogOf, Log
    <3>3. r.event \in k
      BY <1>0 DEF Log
    <3> QED  BY <1>0, <3>2, <3>3
  <2> QED  BY <2>1
<1>2. /\ ~ (HasMark(c) /\ HasMark(mark[e]))
      /\ exists' = exists \cup {e}
      /\ Journal(e, rows[e] \cup N, w, i) /\ Learn(e, k)
      /\ UNCHANGED <<backups, pending, cap, artifacts, losses>>
  <2>1. /\ ~ (HasMark(c) /\ HasMark(mark[e]))
        /\ exists' = exists \cup {e}
        /\ Journal(e, rows[e] \cup Renumbered(new, nextId), w, nextId + Cardinality(new)) /\ Learn(e, k)
        /\ UNCHANGED <<backups, pending, cap, artifacts, losses>>
    BY DEF Import
  <2> QED  BY <1>1, <2>1
<1> HIDE DEF e, c, S, k, new, N, w, i
<1>3. /\ Log(N, c, k) /\ \A r \in N : nextId <= r.id /\ r.id < i
      /\ i \in Nat /\ nextId <= i
  <2>1. Cardinality(S) \in Nat
    BY <1>0, FS_CardinalityType DEF Log
  <2> QED  BY <1>0, <2>1, RenumberLog DEF N, i
<1>4. LogOf(e) /\ rows[e] \subseteq AuditRow /\ Logs
  BY <1>0 DEF RetentionInv, Logs
<1>5. \A r \in rows[e], s \in N : r.id # s.id
  BY <1>0, <1>3, <1>4 DEF LogOf, AuditRow, Log
<1>6. /\ Log(rows[e] \cup N, w, known[e] \cup k) /\ mark[e].total <= w.total
  <2>1. CASE HasMark(c)
    <3>1. mark[e].total = 0 /\ w = c
      BY <1>0, <1>2, <2>1 DEF HasMark, Mark, w
    <3>2. Log(N \cup rows[e], c, k \cup known[e])
      <4>1. \A r \in N, s \in rows[e] : r.id # s.id
        BY <1>5
      <4> QED  BY <1>0, <1>3, <1>4, <3>1, <4>1, JoinLogs DEF LogOf
    <3>3. N \cup rows[e] = rows[e] \cup N /\ k \cup known[e] = known[e] \cup k
      OBVIOUS
    <3>4. mark[e].total <= w.total
      BY <1>0, <3>1 DEF Mark
    <3> QED  BY <3>1, <3>2, <3>3, <3>4
  <2>2. CASE ~HasMark(c)
    <3>1. c.total = 0 /\ w = mark[e] /\ mark[e].total <= mark[e].total /\ known[e] \cap k = {}
      BY <1>0, <2>2 DEF HasMark, Mark, w
    <3> QED  BY <1>3, <1>4, <1>5, <3>1, JoinLogs DEF LogOf
  <2> QED  BY <2>1, <2>2
<1>7. \A r \in rows[e] \cup N : r.id < i /\ (r \in rows[e] \/ nextId <= r.id)
  BY <1>0, <1>3, <1>4 DEF LogOf, AuditRow
<1>8. /\ LogMoves(e)
      /\ rows' \in [Envs -> SUBSET AuditRow] /\ mark' \in [Envs -> Mark]
      /\ known' \in [Envs -> SUBSET (Nat \ {0})]
      /\ known'[e] = known[e] \cup k \cup {events + 1}
      /\ nextId' \in Nat /\ nextId <= nextId' /\ events' \in Nat /\ events <= events'
      /\ \A f \in Envs : f # e => rows'[f] = rows[f] /\ mark'[f] = mark[f] /\ known'[f] = known[f]
  <2> DEFINE R == rows[e] \cup N
  <2>1. /\ Log(R, w, known[e] \cup k) /\ rows[e] \subseteq R /\ Journal(e, R, w, i)
        /\ \A r \in R : r.id < i /\ (r \in rows[e] \/ nextId <= r.id)
    BY <1>2, <1>6, <1>7
  <2> HIDE DEF R
  <2>2. /\ mark[e].total <= w.total /\ Learn(e, k) /\ cap' = cap
        /\ e \in exists => mark[e].through <= w.through
    BY <1>0, <1>2, <1>6
  <2>3. /\ Logs /\ e \in Envs /\ i \in Nat /\ nextId <= i /\ k \subseteq 1 .. events
    BY <1>0, <1>3, <1>4
  <2>4. Journals(e, R, w, i, k)
    BY <2>1, <2>2, <2>3 DEF Journals
  <2> QED  BY <2>3, <2>4, JournalMoves
<1>9. \A f \in Envs : LogMoves(f)
  <2> SUFFICES ASSUME NEW f \in Envs, f # e PROVE LogMoves(f)
    BY <1>8
  <2> QED  BY <1>2, <1>4, <1>8, StillMoves DEF RetentionInv
<1>10. \A f \in Envs : known[f] \subseteq 1 .. events
  BY DEF RetentionInv, Logs, LogOf
<1>11. exists \subseteq exists' /\ exists' \subseteq Envs /\ cap' = cap /\ cap \in Caps /\ losses' \in Nat
  BY <1>0, <1>2, <1>4 DEF Logs
<1>12. Logs' /\ CapHolds'
  <2>1. \A f \in Envs : f # e => known[f] \cap known'[e] = {}
    <3> SUFFICES ASSUME NEW f \in Envs, f # e PROVE known[f] \cap known'[e] = {}
      OBVIOUS
    <3>1. known[f] \cap known[e] = {} /\ known[f] \cap k = {} /\ events + 1 \notin known[f]
      BY <1>0, <1>4, <1>10 DEF Logs, Apart
    <3> QED  BY <1>8, <3>1
  <2> QED  BY <1>0, <1>4, <1>8, <1>9, <1>11, <2>1, LogsMove DEF RetentionInv
<1>13. Snapshots' /\ Artifacts'
  <2>1. ASSUME NEW x \in artifacts, NEW f \in Envs, f # x.env \/ f \notin exists'
        PROVE  x.snapshot.known \cap known'[f] = {}
    <3>1. ArtifactOK(x) /\ ArtifactOK(a)
      BY DEF RetentionInv, Artifacts
    <3>2. x.snapshot.known \cap known[f] = {} /\ x.snapshot.known \subseteq 1 .. events
      BY <1>11, <2>1, <3>1 DEF ArtifactOK
    <3>3. CASE f # e
      BY <1>8, <3>2, <3>3
    <3>4. CASE f = e
      <4>1. x.env # a.env
        BY <1>2, <2>1, <3>4 DEF e
      <4>2. x.snapshot.known \cap k = {}
        BY <3>1, <4>1 DEF ArtifactOK, k
      <4>3. events + 1 \notin x.snapshot.known
        BY <1>0, <3>2
      <4> QED  BY <1>8, <3>2, <3>4, <4>2, <4>3
    <3> QED  BY <3>3, <3>4
  <2>2. /\ backups' \in [Envs -> SUBSET Snapshot] /\ pending' \in [Envs -> SUBSET Snapshot]
        /\ \A f \in Envs : SnapshotsOf(f)' \subseteq SnapshotsOf(f)
    BY <1>2 DEF RetentionInv, Snapshots, SnapshotsOf
  <2> QED  BY <1>2, <1>4, <1>8, <1>9, <1>11, <2>1, <2>2, RecordsMove DEF RetentionInv
<1>14. losses' # 0
  BY <1>0, <1>2 DEF RetentionInv, Unlost, e
<1> QED  BY <1>9, <1>12, <1>13, <1>14 DEF RetentionInv, Unlost, Remembers

\* A restart prunes every log to the new cap.
LEMMA RestartStep ==
  ASSUME RetentionInv, NEW n \in Caps, Restart(n)
  PROVE  RetentionInv' /\ Remembers
<1>0. /\ Logs /\ Snapshots /\ Artifacts /\ n \in Nat /\ nextId \in Nat /\ events \in Nat
      /\ UNCHANGED <<exists, nextId, backups, artifacts, events, known, losses>>
      /\ cap' = n /\ cap' \in Caps /\ pending' = [e \in Envs |-> {}]
  BY RetentionAssumption DEF RetentionInv, Logs, Restart
<1>1. ASSUME NEW e \in Envs
      PROVE  /\ rows'[e] = Kept(rows[e], n) /\ mark'[e] = Forgotten(rows[e], n, mark[e])
             /\ Log(rows'[e], mark'[e], known[e]) /\ Pruned(rows[e], mark[e], n, rows'[e], mark'[e])
             /\ LogOf(e) /\ mark[e] \in Mark /\ mark'[e] \in Mark /\ rows[e] \subseteq AuditRow
             /\ rows'[e] \subseteq rows[e]
  <2>1. LogOf(e) /\ mark[e] \in Mark /\ rows[e] \subseteq AuditRow
    BY <1>0 DEF Logs
  <2>2. rows'[e] = Kept(rows[e], n) /\ mark'[e] = Forgotten(rows[e], n, mark[e])
    BY DEF Restart
  <2>3. Log(rows'[e], mark'[e], known[e]) /\ Pruned(rows[e], mark[e], n, rows'[e], mark'[e])
    BY <1>0, <2>1, <2>2, PruneLog DEF LogOf
  <2> QED  BY <2>1, <2>2, <2>3 DEF Pruned
<1>2. ASSUME NEW e \in Envs PROVE LogMoves(e)
  <2>1. LogOf(e)'
    BY <1>0, <1>1 DEF LogOf
  <2>2. mark[e].total <= mark'[e].total
    BY <1>1 DEF Pruned, Mark
  <2>3. \/ mark[e].through <= mark'[e].through
        \/ \E m \in rows[e] : mark'[e].through = m.id
    BY <1>1 DEF Pruned, Mark
  <2> QED  BY <1>0, <1>1, <2>1, <2>2, <2>3 DEF LogMoves, Pruned
<1>3. rows' \in [Envs -> SUBSET AuditRow] /\ mark' \in [Envs -> Mark]
  <2>1. /\ rows' = [e \in Envs |-> Kept(rows[e], n)]
        /\ mark' = [e \in Envs |-> Forgotten(rows[e], n, mark[e])]
    BY DEF Restart
  <2>2. \A e \in Envs : Kept(rows[e], n) \in SUBSET AuditRow /\ Forgotten(rows[e], n, mark[e]) \in Mark
    BY <1>1
  <2> QED  BY <2>1, <2>2
<1>4. \A e, f \in Envs : e # f => known[e] \cap known[f] = {}
  BY <1>0 DEF Logs, Apart
<1>5. Logs' /\ CapHolds'
  <2>1. /\ exists \subseteq exists' /\ exists' \subseteq Envs /\ nextId' \in Nat /\ nextId <= nextId'
        /\ events' \in Nat /\ events <= events' /\ losses' \in Nat
        /\ known' \in [Envs -> SUBSET (Nat \ {0})]
    BY <1>0 DEF Logs
  <2>2. /\ \A e \in Envs : e # 0 => rows'[e] \subseteq rows[e] /\ known'[e] = known[e]
        /\ \A e \in Envs : e # 0 /\ 0 \in Envs => known[e] \cap known'[0] = {}
    BY <1>0, <1>1, <1>4
  <2> QED  BY <1>0, <1>2, <1>3, <2>1, <2>2, LogsMove
<1>6. /\ pending' \in [Envs -> SUBSET Snapshot] /\ backups' \in [Envs -> SUBSET Snapshot]
      /\ \A e \in Envs : SnapshotsOf(e)' \subseteq SnapshotsOf(e)
  BY <1>0 DEF Snapshots, SnapshotsOf
<1>7. Snapshots' /\ Artifacts'
  <2>1. \A a \in artifacts, e \in Envs :
          e # a.env \/ e \notin exists' => a.snapshot.known \cap known'[e] = {}
    BY <1>0 DEF Artifacts, ArtifactOK
  <2>2. exists \subseteq exists' /\ nextId' \in Nat /\ nextId <= nextId' /\ events' \in Nat /\ events <= events'
    BY <1>0
  <2> QED  BY <1>0, <1>2, <1>6, <2>1, <2>2, RecordsMove
<1>8. ASSUME losses = 0, NEW e \in Envs
      PROVE  MarkBelow(e)' /\ mark[e].through <= mark'[e].through
  <2>1. MarkBelow(e)
    BY <1>8 DEF RetentionInv, Unlost
  <2>2. mark[e].through \in Nat /\ mark'[e].through \in Nat /\ \A r \in rows[e] : r.id \in Nat /\ r.id < nextId
    BY <1>1 DEF Mark, AuditRow, LogOf
  <2>3. mark[e].through <= mark'[e].through /\ mark'[e].through < nextId
    BY <1>0, <1>1, <2>1, <2>2 DEF MarkBelow, Pruned
  <2>4. \A r \in rows'[e] : mark'[e].through < r.id
    BY <1>1, <2>1 DEF MarkBelow, Pruned
  <2>5. \A s \in SnapshotsOf(e)' : s.mark.through <= mark'[e].through
    <3>1. \A s \in SnapshotsOf(e) : s.mark \in Mark /\ s.mark.through <= mark[e].through
      BY <1>0, <2>1 DEF MarkBelow, Snapshots, CapturedOK, Log
    <3> QED  BY <1>6, <2>2, <2>3, <3>1 DEF Mark
  <2> QED  BY <1>0, <2>3, <2>4, <2>5 DEF MarkBelow
<1>9. Unlost'
  BY <1>0, <1>8 DEF Unlost, RetentionInv
<1> QED  BY <1>0, <1>2, <1>5, <1>7, <1>8, <1>9 DEF RetentionInv, Remembers

\* An empty database.
LEMMA EmptyLog == Log({}, NoMark, {})
<1>1. IsFiniteSet({}) /\ Cardinality({}) = 0
  BY FS_EmptySet
<1>2. NoMark \in Mark /\ NoMark.total = 0
  BY DEF NoMark, Mark
<1> QED  BY <1>1, <1>2 DEF Log

\* The database is lost; the artifacts stay.
LEMMA LoseStep ==
  ASSUME RetentionInv, LoseStore
  PROVE  RetentionInv' /\ losses' # losses /\ losses' # 0
<1>0. losses \in Nat /\ losses' = losses + 1 /\ cap \in Nat
  BY RetentionAssumption DEF LoseStore, RetentionInv, Logs
<1>1. \A e \in Envs : LogOf(e)'
  BY EmptyLog DEF LoseStore, LogOf
<1>2. Logs'
  <2>1. NoMark \in Mark
    BY EmptyLog DEF Log
  <2> QED  BY <1>0, <1>1, <2>1 DEF LoseStore, RetentionInv, Logs, Apart
<1>3. Snapshots'
  BY DEF LoseStore, Snapshots, SnapshotsOf
<1>4. Artifacts'
  BY DEF LoseStore, RetentionInv, Artifacts, ArtifactOK
<1>5. CapHolds'
  <2>1. \A e \in Envs : Cardinality(rows'[e]) = 0
    BY FS_EmptySet DEF LoseStore
  <2>2. cap' \in Nat
    BY <1>0 DEF LoseStore
  <2> QED  BY <2>1, <2>2 DEF CapHolds
<1> QED  BY <1>0, <1>2, <1>3, <1>4, <1>5 DEF RetentionInv, Unlost

\* A new database.
LEMMA RetentionStart == RetentionInit => RetentionInv
<1> SUFFICES ASSUME RetentionInit PROVE RetentionInv
  OBVIOUS
<1>1. \A e \in Envs : LogOf(e)
  BY EmptyLog DEF RetentionInit, LogOf
<1>2. Logs
  <2>1. NoMark \in Mark
    BY EmptyLog DEF Log
  <2> QED  BY <1>1, <2>1 DEF RetentionInit, Logs, Apart
<1>3. Snapshots /\ Artifacts
  BY DEF RetentionInit, Snapshots, SnapshotsOf, Artifacts
<1>4. Unlost
  BY DEF RetentionInit, Unlost, MarkBelow, SnapshotsOf, NoMark
<1>5. CapHolds
  <2>1. \A e \in Envs : Cardinality(rows[e]) = 0
    BY FS_EmptySet DEF RetentionInit
  <2>2. cap \in Nat
    BY <1>2, RetentionAssumption DEF Logs
  <2> QED  BY <2>1, <2>2 DEF CapHolds
<1> QED  BY <1>2, <1>3, <1>4, <1>5 DEF RetentionInv

\* One step.
LEMMA RetentionStep ==
  ASSUME RetentionInv, [RetentionNext]_vars
  PROVE  RetentionInv' /\ (Remembers \/ (losses' # losses /\ losses' # 0))
<1>1. CASE UNCHANGED vars
  <2>1. UNCHANGED <<exists, rows, nextId, mark, backups, pending, cap, artifacts, events, known, losses>>
    BY <1>1 DEF vars, database
  <2>2. Logs' /\ CapHolds' /\ Remembers
    BY <2>1, QuietStep
  <2>3. Snapshots' /\ Artifacts' /\ Unlost'
    BY <2>1 DEF RetentionInv, Snapshots, SnapshotsOf, CapturedOK, Artifacts, ArtifactOK, Unlost, MarkBelow
  <2> QED  BY <2>2, <2>3 DEF RetentionInv
<1>2. CASE \E e \in Envs : Mutate(e) \/ RecordDenial(e) \/ CreateEnv(e) \/ LoadEnvSnapshot(e)
  BY <1>2, RequestStep, LoadStep
<1>3. CASE \E e \in Envs : \E b \in pending[e] : CreateBackup(e, b)
  BY <1>3, BackupStep
<1>4. CASE \E e \in Envs : \E b \in backups[e] : DeleteBackup(e, b) \/ Restore(e, b) \/ ExportBackup(e, b)
  BY <1>4, BackupStep, RestoreStep, ExportStep
<1>5. CASE \E a \in artifacts : Import(a)
  BY <1>5, ImportStep
<1>6. CASE \E n \in Caps : Restart(n)
  BY <1>6, RestartStep
<1>7. CASE LoseStore
  BY <1>7, LoseStep
<1> QED  BY <1>1, <1>2, <1>3, <1>4, <1>5, <1>6, <1>7 DEF RetentionNext

\* The invariant holds of every behaviour: logs, backups and artifacts account
\* for every event, and a database that was not lost keeps its watermarks below
\* its rows.
THEOREM RetentionInvariant == RetentionSpec => []RetentionInv
<1>1. RetentionInv /\ [RetentionNext]_vars => RetentionInv'
  BY RetentionStep
<1> QED  BY <1>1, RetentionStart, PTL DEF RetentionSpec

\* For any environments, caps, backups, restores, imports and losses of the
\* database: every event that entered an audit log is in it or counted in
\* pruned_total, exactly once, no id is given out twice, and no log is over
\* the cap (prune_audit_log, restore_env_journaled, import_env_journaled).
THEOREM RetentionSafe == RetentionSpec => []RetentionSound
<1>1. RetentionInv => RetentionSound
  <2> SUFFICES ASSUME RetentionInv PROVE RetentionSound
    OBVIOUS
  <2>1. AuditAccounted /\ CapHolds
    BY DEF RetentionInv, Logs, LogOf, Log, AuditAccounted
  <2>2. \A q, r \in InUse : q.id = r.id => q = r
    <3> SUFFICES ASSUME NEW q \in InUse, NEW r \in InUse, q.id = r.id PROVE q = r
      OBVIOUS
    <3>1. PICK e \in Envs : q \in rows[e]
      BY DEF InUse
    <3>2. PICK f \in Envs : r \in rows[f]
      BY DEF InUse
    <3> QED  BY <3>1, <3>2 DEF RetentionInv, Logs, LogOf, Log, Apart
  <2>3. \A r \in InUse : r.id < nextId
    BY DEF RetentionInv, Logs, LogOf, InUse
  <2>4. artifacts \subseteq [env : Envs, snapshot : Snapshot]
    BY DEF RetentionInv, Artifacts, ArtifactOK
  <2>5. RetentionTypeOK
    BY <2>2, <2>3, <2>4 DEF RetentionInv, Logs, Snapshots, RetentionTypeOK
  <2> QED  BY <2>1, <2>5 DEF RetentionSound
<1> QED  BY <1>1, RetentionInvariant, PTL

\* No step forgets silently: a row goes only with a watermark that covers it
\* and counts it, or with the whole database; and in the database that handed
\* out the ids the watermark never goes back (prune_audit_log).
THEOREM RetentionRemembers == RetentionSpec => RetentionMonotonic
<1>1. RetentionInv /\ [RetentionNext]_vars
        => [losses' # losses
            \/ \A e \in Envs : \A r \in rows[e] \ rows'[e] :
                 r.id <= mark'[e].through /\ mark'[e].total > mark[e].total]_vars
  BY RetentionStep DEF Remembers, LogMoves
<1>2. RetentionInv /\ [RetentionNext]_vars
        => [losses' = 0 => \A e \in Envs : mark'[e].through >= mark[e].through]_vars
  BY RetentionStep DEF Remembers
<1> QED
  BY <1>1, <1>2, RetentionInvariant, PTL
     DEF RetentionSpec, RetentionMonotonic, ForgettingIsRecorded, WatermarkAdvances
=============================================================================
