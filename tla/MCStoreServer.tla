--------------------------- MODULE MCStoreServer ---------------------------
(***************************************************************************)
(* Instances of StoreServer for TLC.  The document is "plain" or "split":  *)
(* "patch" writes it back unchanged (update_environment with the values it *)
(* has), "set" adds the split and is silent once it is there, "rollback"   *)
(* takes it away and is refused without it, "reconcile" never writes.      *)
(***************************************************************************)
EXTENDS StoreServer, TLC

CONSTANTS create, patch, set, rollback, reconcile, plain, split

MCVerbs == {create, patch, set, rollback, reconcile}
MCContents == {plain, split}
MCCreates == {create}
MCPinned == {reconcile}
MCSilent == {reconcile} \X MCContents \cup {<<set, split>>}

MCApply(verb, c) ==
  IF verb = create THEN plain
  ELSE IF verb = patch THEN c
  ELSE IF verb = set /\ c = plain THEN split
  ELSE IF verb = rollback /\ c = split THEN plain
  ELSE None

Symmetry == Permutations(Attempts) \cup Permutations(Keys)
=============================================================================
