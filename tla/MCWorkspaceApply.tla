-------------------------- MODULE MCWorkspaceApply --------------------------
(* Small change sets for WorkspaceApply: every operation, a torn pair, a    *)
(* rename onto a path another change creates.                              *)
EXTENDS WorkspaceApply

CONSTANTS v1, v2

MCChange(op, path, target, content) ==
  [op |-> op, path |-> path, target |-> target, content |-> content]

\* Two files, written in the order opposite to the one they are read in.
Pair == [rev |-> None, changes |-> <<MCChange("MODIFY", 2, None, v2), MCChange("CREATE", 1, None, v1)>>]

Move == [rev |-> None, changes |-> <<MCChange("RENAME", 1, 2, None)>>]

\* Refused by validateChangeConflicts.
Clash == [rev |-> None, changes |-> <<MCChange("RENAME", 1, 2, v2), MCChange("CREATE", 2, None, v1)>>]

Drop == [rev |-> 0, changes |-> <<MCChange("DELETE", 1, None, None), MCChange("MODIFY", 2, None, v1)>>]

AllSets == {Pair, Move, Clash, Drop}
PairOnly == {Pair}
=============================================================================
