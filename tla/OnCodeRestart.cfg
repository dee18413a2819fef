\* One work item, one restart of the agent, nothing else.
CONSTANTS
  WorkItems = {w1}
  Approvals = {a1, a2}
  Workspaces = {s1, s2}
  Hashes <- MCHashes
  Workers = {t1}
  None = None
  Drafts = {d1}
  MaxEdits = 0
  MaxRestores = 0
  MaxRestarts = 1
  MaxFaults = 0
SPECIFICATION FairOnCode
PROPERTIES
  ShownIsDecidable
CHECK_DEADLOCK FALSE
