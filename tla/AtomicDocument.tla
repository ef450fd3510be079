--------------------------- MODULE AtomicDocument ---------------------------
(***************************************************************************)
(* What the local store promises about environment.json of one environment *)
(* ("no transact-based mutation interleaves", src/environment/store.rs):   *)
(* it is created at version 0, every mutation replaces exactly the version *)
(* it was computed from, and a destroyed document only comes back by being *)
(* created again.                                                          *)
(***************************************************************************)
EXTENDS Naturals

CONSTANTS
  Splits,       \* traffic splits a document can carry
  Kinds,        \* deployer bindings
  None

VARIABLE document

Document == [ver: Nat, split: Splits \cup {None}, kind: Kinds]

Create ==
  /\ document = None
  /\ document' \in [ver: {0}, split: {None}, kind: Kinds]

Mutate ==
  /\ document # None
  /\ document' \in [ver: {document.ver + 1}, split: Splits \cup {None}, kind: Kinds]

Destroy ==
  /\ document # None
  /\ document' = None

Spec == document = None /\ [][Create \/ Mutate \/ Destroy]_document
=============================================================================
