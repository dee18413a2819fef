SPECIFICATION FairSpec
CONSTANTS
  Actors = {hub, tool}
  ToolCalls = {tool}
  hub = hub tool = tool
  Ids = {cs}
  cs = cs
  Paths = {1, 2}
  Contents = {v1, v2}
  v1 = v1  v2 = v2
  None = None  Gone = Gone
  ChangeSets <- PairOnly
  MaxPuts = 2  MaxFaults = 2  MaxEdits = 1  MaxCrashes = 1
  EditsDuringApply = TRUE
INVARIANT OnlyLateEditsAreLost
PROPERTY ClaimsEnd
CHECK_DEADLOCK FALSE
