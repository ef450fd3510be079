---------------------------- MODULE AirgapStore ----------------------------
(***************************************************************************)
(* The receiving side of an air gap: `op updates import` and `op updates   *)
(* cas-gc` (src/cli/updates.rs) over the content-addressed store, the      *)
(* staging tree and the signed import receipt of one environment, with the *)
(* delta envelopes `op updates export` builds against a receipt that was   *)
(* carried back.  The store calls are the external greentic-update crate's.*)
(*                                                                         *)
(* Commands may die at any step.  As cas-gc's documentation asks, it does  *)
(* not run beside an import or a second cas-gc.                            *)
(***************************************************************************)
EXTENDS Naturals, FiniteSets

CONSTANTS
  Operators, Plans, Digests,
  Needs,        \* the blobs a plan declares
  Sequence,     \* the plans' numbers on their channel
  MaxFaults     \* bound on crashes and rotten blobs

ASSUME AirgapAssumption ==
  /\ Needs \in [Plans -> SUBSET Digests]
  /\ Sequence \in [Plans -> Nat]
  /\ MaxFaults \in Nat

VARIABLES
  cas,          \* blobs in the content-addressed store
  rotten,       \* those that no longer hash to their digest
  blobs,        \* blobs in each plan's staging tree
  stage,        \* the plans' markers
  receipt,      \* digests the receipt on disk claims
  issued,       \* receipts ever written: senders may hold any of them
  pc, plan, held, todo,     \* commands: their plan, envelope or reference set, work left
  faults

command == <<pc, plan, held, todo>>
vars == <<cas, rotten, blobs, stage, receipt, issued, command, faults>>

Active == {"downloading", "inbox", "staged"}
Terminal == {"applied", "rejected"}

AirgapInit ==
  /\ cas = {} /\ rotten = {}
  /\ blobs = [p \in Plans |-> {}]
  /\ stage = [p \in Plans |-> "absent"]
  /\ receipt = {} /\ issued = {{}}
  /\ pc = [o \in Operators |-> "idle"]
  /\ plan = [o \in Operators |-> "none"]
  /\ held = [o \in Operators |-> {}]
  /\ todo = [o \in Operators |-> {}]
  /\ faults = 0

Goto(o, step) ==
  /\ pc' = [pc EXCEPT ![o] = step]
  /\ UNCHANGED <<plan, held, todo>>

\* The command returns, or dies.
End(o) ==
  /\ pc' = [pc EXCEPT ![o] = "idle"]
  /\ plan' = [plan EXCEPT ![o] = "none"]
  /\ held' = [held EXCEPT ![o] = {}]
  /\ todo' = [todo EXCEPT ![o] = {}]

\* The command takes up a list of blobs.
Take(o, step, digests) ==
  /\ pc' = [pc EXCEPT ![o] = step]
  /\ todo' = [todo EXCEPT ![o] = digests]
  /\ UNCHANGED <<plan, held>>

Fault == faults < MaxFaults /\ faults' = faults + 1

\* sign_and_write_receipt
WriteReceipt(inventory) ==
  /\ receipt' = inventory
  /\ issued' = issued \cup {inventory}

Collecting == {"empty", "evict", "list_left", "receipt_left"}
Importing == {"populate", "admit", "fetch", "promote", "list", "receipt"}

-----------------------------------------------------------------------------
(* op updates export and import.                                           *)

\* The blobs of an envelope built against the receipt `base`.
Export(p, base) == Needs[p] \ base

\* Nothing is left to do: the next step.
Proceed(o, step, next, digests) == Take(o, IF digests = {} THEN next ELSE step, digests)

\* The preflight: every digest is in the envelope, or in the store and intact.
\* Otherwise the import ends before it has changed anything.
StartImport(o, p, base) ==
  /\ pc[o] = "idle"
  /\ \A q \in Operators : pc[q] \notin Collecting
  /\ Needs[p] \cap base \subseteq cas \ rotten
  /\ pc' = [pc EXCEPT ![o] = IF Export(p, base) = {} THEN "admit" ELSE "populate"]
  /\ plan' = [plan EXCEPT ![o] = p]
  /\ held' = [held EXCEPT ![o] = Export(p, base)]
  /\ todo' = [todo EXCEPT ![o] = Export(p, base)]
  /\ UNCHANGED <<cas, rotten, blobs, stage, receipt, issued, faults>>

\* cas_put overwrites, which repairs a rotten blob.
Populate(o) ==
  /\ pc[o] = "populate"
  /\ \E d \in todo[o] :
       /\ cas' = cas \cup {d}
       /\ rotten' = rotten \ {d}
       /\ Proceed(o, "populate", "admit", todo[o] \ {d})
  /\ UNCHANGED <<blobs, stage, receipt, issued, faults>>

\* The downgrade gate of admit_plan: a later plan has been applied.
Overtaken(p) == \E q \in Plans : stage[q] = "applied" /\ Sequence[q] > Sequence[p]

\* admit_or_resume: the gate runs on a new plan and on one short of `staged`.
Admit(o) ==
  /\ pc[o] = "admit"
  /\ LET p == plan[o]
         refused == \/ stage[p] = "rejected"
                    \/ stage[p] \in {"absent", "downloading", "inbox"} /\ Overtaken(p)
     IN  IF refused
         THEN End(o) /\ UNCHANGED stage
         ELSE /\ stage' = [stage EXCEPT ![p] = IF @ = "absent" THEN "downloading" ELSE @]
              /\ Goto(o, "fetch")
  /\ UNCHANGED <<cas, rotten, blobs, receipt, issued, faults>>

\* Mutant: a blob found in the staging tree's neighbour is good enough.
FetchSkipping(o) ==
  /\ pc[o] = "fetch"
  /\ IF stage[plan[o]] = "downloading"
     THEN /\ blobs' = [blobs EXCEPT ![plan[o]] = @ \cup (held[o] \ rotten)]
          /\ Goto(o, "promote")
     ELSE UNCHANGED blobs /\ Goto(o, "promote")
  /\ UNCHANGED <<cas, rotten, stage, receipt, issued, faults>>

\* put_binary_blob and put_artifact from the store, while `downloading`.  An
\* artifact is read again even if the staging tree has it.
Fetch(o) ==
  /\ pc[o] = "fetch"
  /\ LET p == plan[o] IN
     \/ /\ stage[p] = "downloading"
        /\ \/ \E d \in (Needs[p] \ blobs[p]) \cap (cas \ rotten) :
                blobs' = [blobs EXCEPT ![p] = @ \cup {d}] /\ Goto(o, "fetch")
           \/ ~ Needs[p] \subseteq cas \ rotten /\ End(o) /\ UNCHANGED blobs
           \/ Needs[p] \subseteq blobs[p] /\ Goto(o, "promote") /\ UNCHANGED blobs
     \/ stage[p] # "downloading" /\ Goto(o, "promote") /\ UNCHANGED blobs
  /\ UNCHANGED <<cas, rotten, stage, receipt, issued, faults>>

\* Mutant: the plan stays where it is until the next import.
PromoteLater(o) ==
  /\ pc[o] = "promote"
  /\ stage' = [stage EXCEPT ![plan[o]] = IF @ = "inbox" THEN "staged" ELSE @]
  /\ Goto(o, "list")
  /\ UNCHANGED <<cas, rotten, blobs, receipt, issued, faults>>

\* To the inbox, and with --stage on to `staged`; any other plan is left.
Promote(o) ==
  /\ pc[o] = "promote"
  /\ stage' = [stage EXCEPT ![plan[o]] =
                 CASE @ = "downloading" -> "inbox" [] @ = "inbox" -> "staged" [] OTHER -> @]
  /\ \/ stage[plan[o]] = "downloading" /\ Goto(o, "promote")      \* --stage
     \/ Goto(o, "list")
  /\ UNCHANGED <<cas, rotten, blobs, receipt, issued, faults>>

CasList(o) ==
  /\ pc[o] \in {"list", "list_left"}
  /\ held' = [held EXCEPT ![o] = cas]
  /\ pc' = [pc EXCEPT ![o] = IF @ = "list" THEN "receipt" ELSE "receipt_left"]
  /\ UNCHANGED <<cas, rotten, blobs, stage, receipt, issued, plan, todo, faults>>

FinalReceipt(o) ==
  /\ pc[o] \in {"receipt", "receipt_left"}
  /\ WriteReceipt(held[o])
  /\ End(o)
  /\ UNCHANGED <<cas, rotten, blobs, stage, faults>>

-----------------------------------------------------------------------------
(* op updates cas-gc.                                                      *)

\* Mutant: only staged plans count.
ReferencedStaged == UNION {Needs[p] : p \in {q \in Plans : stage[q] = "staged"}}

\* Digests of the plans that are not terminal.
Referenced == UNION {Needs[p] : p \in {q \in Plans : stage[q] \in Active}}

StartGc(o) ==
  /\ pc[o] = "idle"
  /\ \A q \in Operators : pc[q] = "idle"
  /\ Take(o, IF cas \subseteq Referenced THEN "list_left" ELSE "empty", cas \ Referenced)
  /\ UNCHANGED <<cas, rotten, blobs, stage, receipt, issued, faults>>

\* Mutant: the old receipt stands until the end.
EmptyReceiptSkipped(o) ==
  /\ pc[o] = "empty"
  /\ Goto(o, "evict")
  /\ UNCHANGED <<cas, rotten, blobs, stage, receipt, issued, faults>>

\* "First write an EMPTY receipt."
EmptyReceipt(o) ==
  /\ pc[o] = "empty"
  /\ WriteReceipt({})
  /\ Goto(o, "evict")
  /\ UNCHANGED <<cas, rotten, blobs, stage, faults>>

\* Mutant: the blob's integrity record is not cleared with it.
EvictKeeping(o) ==
  /\ pc[o] = "evict"
  /\ \E d \in todo[o] :
       /\ cas' = cas \ {d}
       /\ Proceed(o, "evict", "list_left", todo[o] \ {d})
  /\ UNCHANGED <<rotten, blobs, stage, receipt, issued, faults>>

Evict(o) ==
  /\ pc[o] = "evict"
  /\ \E d \in todo[o] :
       /\ cas' = cas \ {d}
       /\ rotten' = rotten \ {d}
       /\ Proceed(o, "evict", "list_left", todo[o] \ {d})
  /\ UNCHANGED <<blobs, stage, receipt, issued, faults>>

-----------------------------------------------------------------------------

\* The plan is applied, or refused: terminal.
Settle(p) ==
  /\ stage[p] \in Active
  /\ \E s \in IF stage[p] = "staged" THEN Terminal ELSE {"rejected"} :
       stage' = [stage EXCEPT ![p] = s]
  /\ UNCHANGED <<cas, rotten, blobs, receipt, issued, command, faults>>

\* A blob of the store changes on disk.
Rot(d) ==
  /\ d \in cas \ rotten
  /\ Fault
  /\ rotten' = rotten \cup {d}
  /\ UNCHANGED <<cas, blobs, stage, receipt, issued, command>>

Crash(o) ==
  /\ pc[o] # "idle"
  /\ Fault
  /\ End(o)
  /\ UNCHANGED <<cas, rotten, blobs, stage, receipt, issued>>

Step(o) ==
  \/ Populate(o) \/ Admit(o) \/ Fetch(o) \/ Promote(o) \/ CasList(o)
  \/ FinalReceipt(o) \/ EmptyReceipt(o) \/ Evict(o)

AirgapNext ==
  \/ \E o \in Operators : Step(o) \/ Crash(o) \/ StartGc(o)
  \/ \E o \in Operators, p \in Plans, base \in issued : StartImport(o, p, base)
  \/ \E p \in Plans : Settle(p)
  \/ \E d \in Digests : Rot(d)

AirgapSpec == AirgapInit /\ [][AirgapNext]_vars

\* Commands run on, and the operator imports the full envelope while the plan
\* is `downloading`.
FairAirgapSpec ==
  /\ AirgapSpec
  /\ \A o \in Operators : WF_vars(Step(o))
  /\ \A p \in Plans :
       SF_vars(\E o \in Operators : stage[p] = "downloading" /\ StartImport(o, p, {}))

-----------------------------------------------------------------------------
(* Properties.                                                             *)

\* Store, staging tree, receipts and commands have the shape the code gives
\* them.
AirgapTypeOK ==
  /\ cas \subseteq Digests /\ rotten \subseteq cas
  /\ blobs \in [Plans -> SUBSET Digests]
  /\ stage \in [Plans -> Active \cup Terminal \cup {"absent"}]
  /\ receipt \in issued /\ issued \subseteq SUBSET Digests
  /\ pc \in [Operators -> {"idle"} \cup Importing \cup Collecting]
  /\ plan \in [Operators -> Plans \cup {"none"}]
  /\ held \in [Operators -> SUBSET Digests]
  /\ todo \in [Operators -> SUBSET Digests]
  /\ faults \in 0 .. MaxFaults

\* "At every crash point the receipt on disk must under-claim (never
\* over-claim) what the CAS holds."
ReceiptUnderClaims == receipt \subseteq cas

\* "Never silently incomplete": a plan past `downloading` has every blob it
\* declares in its staging tree, however its envelope was thinned out and
\* however often its import died.
StagedComplete ==
  \A p \in Plans : stage[p] \in {"inbox", "staged", "applied"} => Needs[p] \subseteq blobs[p]

\* A plan that is not terminal keeps its blobs in the store: a dead import
\* can be resumed with the envelope it came with.
AdmittedHeld == \A p \in Plans : stage[p] \in Active => Needs[p] \subseteq cas

\* An import that died does not strand its plan: while its full envelope
\* keeps being imported, a plan leaves `downloading` unless a later plan was
\* applied in between.
ImportConverges ==
  \A p \in Plans : stage[p] = "downloading" ~> (stage[p] # "downloading" \/ Overtaken(p))

\* Receipts, staged plans and store agree at every crash point: the receipt
\* does not over-claim, no plan is promoted incomplete, and none that may be
\* resumed has lost a blob.
AirgapSound ==
  /\ AirgapTypeOK
  /\ ReceiptUnderClaims
  /\ StagedComplete
  /\ AdmittedHeld
=============================================================================
