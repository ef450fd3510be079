------------------------- MODULE AirgapStoreProofs -------------------------
(***************************************************************************)
(* Proofs about AirgapStore.  AirgapSound speaks of the receipt, the       *)
(* staging trees and the store; it is kept because a collection runs alone *)
(* (Alone) and because a command between two steps still knows what it     *)
(* read (Reads): the blobs it has left to copy, list or evict.             *)
(***************************************************************************)
EXTENDS AirgapStore, TLAPS

\* cas-gc runs beside no other command.
Alone ==
  \A o, q \in Operators : pc[o] \in Collecting /\ o # q => pc[q] = "idle"

\* What a command knows at its next step.
Reads(o) ==
  /\ pc[o] \in Importing => plan[o] \in Plans
  /\ pc[o] = "populate" => Needs[plan[o]] \subseteq cas \cup todo[o]
  /\ pc[o] = "admit" => Needs[plan[o]] \subseteq cas
  /\ pc[o] \in {"fetch", "promote"} => stage[plan[o]] # "absent"
  /\ pc[o] = "promote" /\ stage[plan[o]] = "downloading" => Needs[plan[o]] \subseteq blobs[plan[o]]
  /\ pc[o] \in {"receipt", "receipt_left"} => held[o] \subseteq cas
  /\ pc[o] \in {"empty", "evict"} =>
       \A p \in Plans : stage[p] \in Active => Needs[p] \cap todo[o] = {}
  /\ pc[o] = "evict" => receipt = {}

AirgapInv ==
  /\ AirgapSound
  /\ Alone
  /\ \A o \in Operators : Reads(o)

-----------------------------------------------------------------------------

\* The states of commands, written out.
LEMMA CommandStates ==
  /\ Importing = {"populate", "admit", "fetch", "promote", "list", "receipt"}
  /\ Collecting = {"empty", "evict", "list_left", "receipt_left"}
  /\ Active = {"downloading", "inbox", "staged"}
  /\ Terminal = {"applied", "rejected"}
BY DEF Importing, Collecting, Active, Terminal

\* Steps of an import that change the store or the staging tree.
LEMMA ImportStep ==
  ASSUME AirgapInv, NEW o \in Operators, Populate(o) \/ Admit(o) \/ Fetch(o) \/ Promote(o)
  PROVE  AirgapInv'
<1> USE AirgapAssumption, CommandStates
    DEF AirgapInv, AirgapSound, AirgapTypeOK, ReceiptUnderClaims, StagedComplete, AdmittedHeld,
        Alone, Reads, Goto, End, Take, Proceed
<1>1. CASE Populate(o)
  BY <1>1 DEF Populate
<1>2. CASE Admit(o)
  BY <1>2 DEF Admit
<1>3. CASE Fetch(o)
  BY <1>3 DEF Fetch
<1>4. CASE Promote(o)
  BY <1>4 DEF Promote
<1> QED  BY <1>1, <1>2, <1>3, <1>4

\* Steps of both commands that list the store, write a receipt or evict.
LEMMA ReceiptStep ==
  ASSUME AirgapInv, NEW o \in Operators,
         CasList(o) \/ FinalReceipt(o) \/ EmptyReceipt(o) \/ Evict(o)
  PROVE  AirgapInv'
<1> USE AirgapAssumption, CommandStates
    DEF AirgapInv, AirgapSound, AirgapTypeOK, ReceiptUnderClaims, StagedComplete, AdmittedHeld,
        Alone, Reads, Goto, End, Take, Proceed, WriteReceipt
<1>1. CASE CasList(o)
  BY <1>1 DEF CasList
<1>2. CASE FinalReceipt(o)
  BY <1>2 DEF FinalReceipt
<1>3. CASE EmptyReceipt(o)
  BY <1>3 DEF EmptyReceipt
<1>4. CASE Evict(o)
  BY <1>4 DEF Evict
<1> QED  BY <1>1, <1>2, <1>3, <1>4

\* Commands that start and die, plans that are settled and blobs that rot.
LEMMA OtherStep ==
  ASSUME AirgapInv,
         \/ \E o \in Operators : Crash(o) \/ StartGc(o)
         \/ \E o \in Operators, p \in Plans, base \in issued : StartImport(o, p, base)
         \/ \E p \in Plans : Settle(p)
         \/ \E d \in Digests : Rot(d)
  PROVE  AirgapInv'
<1> USE AirgapAssumption, CommandStates
    DEF AirgapInv, AirgapSound, AirgapTypeOK, ReceiptUnderClaims, StagedComplete, AdmittedHeld,
        Alone, Reads, Goto, End, Take, Fault, command
<1>1. ASSUME NEW o \in Operators, Crash(o) PROVE AirgapInv'
  BY <1>1 DEF Crash
<1>2. ASSUME NEW o \in Operators, StartGc(o) PROVE AirgapInv'
  BY <1>2 DEF StartGc, Referenced
<1>3. ASSUME NEW o \in Operators, NEW p \in Plans, NEW base \in issued, StartImport(o, p, base)
      PROVE AirgapInv'
  BY <1>3 DEF StartImport, Export
<1>4. ASSUME NEW p \in Plans, Settle(p) PROVE AirgapInv'
  BY <1>4 DEF Settle
<1>5. ASSUME NEW d \in Digests, Rot(d) PROVE AirgapInv'
  BY <1>5 DEF Rot
<1> QED  BY <1>1, <1>2, <1>3, <1>4, <1>5

\* The invariant holds of every behaviour.
THEOREM AirgapInvariant == AirgapSpec => []AirgapInv
<1>1. AirgapInit => AirgapInv
  BY AirgapAssumption, CommandStates
     DEF AirgapInit, AirgapInv, AirgapSound, AirgapTypeOK, ReceiptUnderClaims, StagedComplete,
         AdmittedHeld, Alone, Reads
<1>2. AirgapInv /\ [AirgapNext]_vars => AirgapInv'
  <2> SUFFICES ASSUME AirgapInv, [AirgapNext]_vars PROVE AirgapInv'
    OBVIOUS
  <2>1. CASE AirgapNext
    BY <2>1, ImportStep, ReceiptStep, OtherStep DEF AirgapNext, Step
  <2>2. CASE UNCHANGED vars
    BY <2>2 DEF vars, command, AirgapInv, AirgapSound, AirgapTypeOK, ReceiptUnderClaims,
                StagedComplete, AdmittedHeld, Alone, Reads
  <2> QED  BY <2>1, <2>2
<1> QED
  BY <1>1, <1>2, PTL DEF AirgapSpec

\* With any number of operators, plans and blobs, wherever commands die: the
\* receipt never claims a blob the store does not hold, no plan is promoted
\* incomplete, and the store keeps the blobs of every plan that may be resumed.
THEOREM AirgapSafe == AirgapSpec => []AirgapSound
<1>1. AirgapInv => AirgapSound
  BY DEF AirgapInv
<1> QED
  BY <1>1, AirgapInvariant, PTL
=============================================================================
