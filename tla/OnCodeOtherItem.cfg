\* Two work items of one workspace, nothing edited, restored or lost.
CONSTANTS
  WorkItems = {w1, w2}
  Approvals = {a1, a2, a3, a4}
  Workspaces = {s1}
  Hashes <- MCHashes
  Workers = {t1}
  None = None
  Drafts = {d1}
  MaxEdits = 0
  MaxRestores = 0
  MaxRestarts = 0
  MaxFaults = 0
SPECIFICATION SpecOnCode
SYMMETRY Interchangeable
INVARIANTS
  AppliedWasApproved
CHECK_DEADLOCK FALSE
