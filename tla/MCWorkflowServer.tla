-------------------------- MODULE MCWorkflowServer --------------------------
(* Finite instances of WorkflowServer. *)
EXTENDS WorkflowServer, TLC

\* Identities are interchangeable: nothing in the specification names one.
Interchangeable ==
  Permutations(Workers) \cup Permutations(Approvals) \cup
  Permutations(WorkItems) \cup Permutations(Hashes)

=============================================================================
