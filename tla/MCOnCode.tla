------------------------------ MODULE MCOnCode ------------------------------
(* Finite instances of OnCode. *)
EXTENDS OnCode, TLC

MCHashes == [wi : WorkItems, base : Contents \cup {None}]

Interchangeable ==
  Permutations(Workers) \cup Permutations(Approvals) \cup
  Permutations(WorkItems) \cup Permutations(Drafts) \cup Permutations(Workspaces)

=============================================================================
