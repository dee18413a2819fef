\* One work item, one edit, one reconnect, no faults.
CONSTANTS
  WorkItems = {w1}
  Approvals = {a1, a2}
  Workspaces = {s1}
  Hashes <- MCHashes
  Workers = {t1, t2}
  None = None
  Drafts = {d1, d2}
  MaxEdits = 1
  MaxRestores = 1
  MaxRestarts = 0
  MaxFaults = 0
SPECIFICATION FairOnCode
PROPERTIES
  ApprovedIsApplied
CHECK_DEADLOCK FALSE
