\* One work item, one edit, a reconnect, a restart of the agent, one lost event or
\* failed handler.
CONSTANTS
  WorkItems = {w1}
  Approvals = {a1, a2}
  Workspaces = {s1, s2}
  Hashes <- MCHashes
  Workers = {t1, t2}
  None = None
  Drafts = {d1, d2}
  MaxEdits = 1
  MaxRestores = 1
  MaxRestarts = 1
  MaxFaults = 1
SPECIFICATION SpecOnCode
SYMMETRY Interchangeable
INVARIANTS
  AppliedWasApproved
  CompletedWasApplied
CHECK_DEADLOCK FALSE
