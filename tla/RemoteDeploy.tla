---------------------------- MODULE RemoteDeploy ----------------------------
(***************************************************************************)
(* `op deploy --store-url`: the rollout add -> stage -> warm -> override   *)
(* -> traffic against the operator store server, with the ETag the HTTP    *)
(* client chains from each response into the next request and the keys     *)
(* that make the command safe to repeat.  An environment holds one         *)
(* deployment of one bundle.  The ETag of a content is the content.  A     *)
(* request is one transaction of the server: StoreServer shows that it is. *)
(***************************************************************************)
EXTENDS Naturals, Sequences

CONSTANTS
  Callers,          \* processes that run the command
  Keys,             \* deploy keys; each derives one revision id
  Overriding,       \* keys whose payload carries config overrides
  LedgerCap,        \* MAX_LEDGER_ROWS_PER_ENV
  MaxGiveUps,       \* bound on invocations that die or time out
  MaxOthers         \* bound on writes of other operators

Nothing == "none"

ASSUME DeployAssumption ==
  /\ Nothing \notin Keys
  /\ Overriding \subseteq Keys
  /\ LedgerCap \in Nat \ {0}
  /\ {MaxGiveUps, MaxOthers} \subseteq Nat

VARIABLES
  env,          \* the environment document
  ledger,       \* idempotency_ledger, oldest row first: [id, etag]
  command,      \* the invocation of each caller and its outstanding request;
                \* replayed is history: a stored response answered it before
  late,         \* requests whose invocation is gone, still under way
  giveUps, others,
  reported,     \* history variable: keys whose deploy was reported as routed
  cuts          \* history variable: cut-overs committed under each key

deployVars == <<env, ledger, command, late, giveUps, others, reported, cuts>>

Ops == {"add", "stage", "warm", "override", "traffic"}
Request == [key : Keys, op : Ops]

NoSplit == [key |-> Nothing, rev |-> Nothing, generation |-> 0]
NoCommand == [pc |-> "idle", key |-> Nothing, op |-> Nothing, reused |-> FALSE,
              superseded |-> Nothing, etag |-> Nothing, replayed |-> FALSE]

DeployInit ==
  /\ env = [deployed |-> FALSE, overrides |-> Nothing, setting |-> FALSE,
            revs |-> [k \in Keys |-> "absent"], split |-> NoSplit]
  /\ ledger = <<>>
  /\ command = [p \in Callers |-> NoCommand]
  /\ late = {}
  /\ giveUps = 0 /\ others = 0
  /\ reported = {}
  /\ cuts = [k \in Keys |-> 0]

-----------------------------------------------------------------------------
(* The server.  w is an outstanding request.                               *)

Id(w) == [key |-> w.key, op |-> w.op]

\* Mutant: no response is ever found again.
AnsweredNever(w) == FALSE

\* replay_gate
Answered(w) == \E i \in 1 .. Len(ledger) : ledger[i].id = Id(w)

AnsweredEtag(w) == LET i == CHOOSE j \in 1 .. Len(ledger) : ledger[j].id = Id(w) IN ledger[i].etag

\* Mutant: a staged revision id may be staged again.
RefusedExceptStage(w) ==
  \/ w.op = "add" /\ env.deployed
  \/ w.op = "warm" /\ env.revs[w.key] \notin {"staged", "ready"}
  \/ w.op = "traffic" /\ env.revs[w.key] # "ready" /\ env.split.key # w.key

\* The engine refuses: the bundle or the revision exists, or the revision is
\* not in the lifecycle the verb needs.
Refused(w) ==
  \/ w.op = "add" /\ env.deployed
  \/ w.op = "stage" /\ env.revs[w.key] # "absent"
  \/ w.op = "warm" /\ env.revs[w.key] \notin {"staged", "ready"}
  \/ w.op = "traffic" /\ env.revs[w.key] # "ready" /\ env.split.key # w.key

\* Mutant: If-Match is ignored.
MatchesAny(w) == TRUE

\* resolve_precondition, with the client's If-Match.
Matches(w) == w.etag = env

\* The live split carries the key: set_traffic_split writes nothing.
Unchanged(w) == w.op = "traffic" /\ env.split.key = w.key

Applied(w) ==
  CASE w.op = "add" -> [env EXCEPT !.deployed = TRUE,
                                   !.overrides = IF w.key \in Overriding THEN w.key ELSE Nothing]
    [] w.op = "stage" -> [env EXCEPT !.revs[w.key] = "staged"]
    [] w.op = "warm" -> [env EXCEPT !.revs[w.key] = "ready"]
    [] w.op = "override" -> [env EXCEPT !.overrides = w.key]
    [] w.op = "traffic" -> [env EXCEPT !.split = [key |-> w.key, rev |-> w.key, generation |-> @.generation + 1]]

\* Mutant: no row is evicted.
JournaledAll(id, etag) == Append(ledger, [id |-> id, etag |-> etag])

\* Journaling a row evicts the oldest over the cap.
Journaled(id, etag) ==
  LET rows == Append(ledger, [id |-> id, etag |-> etag])
  IN  IF Len(rows) > LedgerCap THEN Tail(rows) ELSE rows

Accepted(w) == ~ Answered(w) /\ ~ Refused(w) /\ (Matches(w) \/ Unchanged(w))

\* The server commits the request.
Commit(w) ==
  /\ env' = IF Unchanged(w) THEN env ELSE Applied(w)
  /\ ledger' = Journaled(Id(w), env')
  /\ cuts' = IF w.op = "traffic" /\ ~ Unchanged(w) THEN [cuts EXCEPT ![w.key] = @ + 1] ELSE cuts

-----------------------------------------------------------------------------
(* The command.                                                            *)

\* superseded_revisions: what the live split routes to.
Superseded == env.split.rev

\* remote_deploy up to its first request.  A key that is live is answered from
\* the document.
Load(p, k) ==
  /\ command[p] = NoCommand
  /\ IF env.deployed /\ env.split.key = k
     THEN /\ reported' = reported \cup {k}
          /\ UNCHANGED command
     ELSE /\ command' = [command EXCEPT ![p] =
                        [pc |-> "sent", key |-> k, op |-> IF env.deployed THEN "stage" ELSE "add",
                         reused |-> env.deployed, superseded |-> Superseded, etag |-> env,
                         replayed |-> FALSE]]
          /\ UNCHANGED reported
  /\ UNCHANGED <<env, ledger, late, giveUps, others, cuts>>

\* The verb after w; overrides are replaced on a reused deployment only.
NextOp(w) ==
  CASE w.op = "add" -> "stage"
    [] w.op = "stage" -> "warm"
    [] w.op = "warm" -> IF w.reused /\ w.key \in Overriding THEN "override" ELSE "traffic"
    [] w.op = "override" -> "traffic"

\* send_mutation succeeded: its ETag, that of a stored response too, goes into
\* the next request, if any.
Proceed(p, etag, replayed) ==
  IF command[p].op = "traffic"
  THEN /\ command' = [command EXCEPT ![p] = NoCommand]
       /\ reported' = reported \cup {command[p].key}
  ELSE /\ command' = [command EXCEPT ![p].op = NextOp(command[p]), ![p].etag = etag,
                             ![p].replayed = @ \/ replayed]
       /\ UNCHANGED reported

\* The caller's request reaches the server and its answer the caller: a stored
\* response, a commit, or an error, which ends the command.
Serve(p) ==
  LET w == command[p] IN
  /\ w.pc = "sent"
  /\ \/ /\ Answered(w)
        /\ Proceed(p, AnsweredEtag(w), TRUE)
        /\ UNCHANGED <<env, ledger, cuts>>
     \/ /\ Accepted(w)
        /\ Commit(w)
        /\ Proceed(p, env', FALSE)
     \/ /\ ~ Answered(w) /\ ~ Accepted(w)
        /\ command' = [command EXCEPT ![p] = NoCommand]
        /\ UNCHANGED <<env, ledger, reported, cuts>>
  /\ UNCHANGED <<late, giveUps, others>>

\* The process dies or its request times out; the request may be under way.
GiveUp(p) ==
  /\ command[p].pc = "sent"
  /\ giveUps < MaxGiveUps
  /\ giveUps' = giveUps + 1
  /\ command' = [command EXCEPT ![p] = NoCommand]
  /\ late' \in {late, late \cup {command[p]}}
  /\ UNCHANGED <<env, ledger, others, reported, cuts>>

\* A late request reaches the server; nobody reads the answer.
ServeLate(w) ==
  /\ late' = late \ {w}
  /\ IF Accepted(w) THEN Commit(w) ELSE UNCHANGED <<env, ledger, cuts>>
  /\ UNCHANGED <<command, giveUps, others, reported>>

\* Other operators change a setting, set or roll back traffic to a revision
\* that is ready, or archive one that is not routed, under keys of their own.
Others(content) ==
  /\ others < MaxOthers
  /\ others' = others + 1
  /\ env' = content
  /\ ledger' = Journaled([key |-> Nothing, op |-> Nothing], content)
  /\ UNCHANGED <<command, late, giveUps, reported, cuts>>

Elsewhere ==
  \/ Others([env EXCEPT !.setting = ~ @])
  \/ \E k \in Keys :
       \/ /\ env.revs[k] = "ready"
          /\ Others([env EXCEPT !.split = [key |-> Nothing, rev |-> k, generation |-> @.generation + 1]])
       \/ /\ env.revs[k] \in {"staged", "ready"} /\ env.split.rev # k
          /\ Others([env EXCEPT !.revs[k] = "archived"])

DeployNext ==
  \/ \E p \in Callers :
       \/ \E k \in Keys : Load(p, k)
       \/ Serve(p) \/ GiveUp(p)
  \/ \E w \in late : ServeLate(w)
  \/ Elsewhere

DeploySpec == DeployInit /\ [][DeployNext]_deployVars

\* A caller repeats a deploy until it is reported, the network delivers.
DeployFairness ==
  /\ \A p \in Callers : WF_deployVars(Serve(p))
  /\ \A k \in Keys : WF_deployVars(k \notin reported /\ \E p \in Callers : Load(p, k))

DeployFairSpec == DeploySpec /\ DeployFairness

-----------------------------------------------------------------------------
(* Properties.                                                             *)

Outstanding == late \cup {command[p] : p \in {q \in Callers : command[q] # NoCommand}}

Lifecycles == {"absent", "staged", "ready", "archived"}

\* The document, the ledger and the requests have the shape the code gives
\* them, and the ledger holds one row per request.
DeployTypeOK ==
  /\ env.deployed \in BOOLEAN /\ env.setting \in BOOLEAN
  /\ env.overrides \in Overriding \cup {Nothing}
  /\ env.revs \in [Keys -> Lifecycles]
  /\ env.split.key \in Keys \cup {Nothing} /\ env.split.generation \in Nat
  /\ Len(ledger) <= LedgerCap
  /\ \A i, j \in 1 .. Len(ledger) :
       i # j /\ ledger[i].id = ledger[j].id => ledger[i].id.key = Nothing
  /\ \A w \in Outstanding : Id(w) \in Request /\ w.superseded \in Keys \cup {Nothing}

\* "A concurrent writer slipping between two of our writes is caught": a
\* cut-over that the server would commit now, late or not, replaces the split
\* its command saw when it decided, unless a stored response was an answer to
\* one of its requests.
DecidedOnLive ==
  \A w \in Outstanding :
    w.op = "traffic" /\ Accepted(w) /\ ~ Unchanged(w) /\ ~ w.replayed
      => w.superseded = env.split.rev

\* However often a deploy is repeated, delayed or forgotten by the ledger, its
\* key cuts traffic over at most once.
CutOverOnce == \A k \in Keys : cuts[k] <= 1

\* "Routed" is reported only of a key whose own cut-over was committed, once,
\* and whose revision was warm for it: not of one that a stored response, the
\* live split or a late request of another run merely seemed to have routed.
ReportedRouted ==
  \A k \in reported : cuts[k] = 1 /\ env.revs[k] \in {"ready", "archived"}

\* A deploy that is repeated under its key until it is reported is reported,
\* however often it died and whatever of it reached the server, unless
\* somebody else wrote to the environment in the middle of it.
RetryCompletes ==
  \A k \in Keys :
    <>(k \in reported \/ others > 0 \/ \E j \in Keys \ {k} : env.revs[j] # "absent")

\* However requests are lost, late, replayed or forgotten, a deploy cuts over
\* at most once, from the split it saw, and is reported only when it did.
DeploySound ==
  /\ DeployTypeOK
  /\ DecidedOnLive
  /\ CutOverOnce
  /\ ReportedRouted
=============================================================================
