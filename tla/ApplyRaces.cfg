SPECIFICATION Spec
CONSTANTS
  Actors = {hub, tool}
  ToolCalls = {tool}
  hub = hub tool = tool
  Ids = {cs}
  cs = cs
  Paths = {1, 2}
  Contents = {v1, v2}
  v1 = v1  v2 = v2
  None = None  Gone = Gone
  ChangeSets <- AllSets
  MaxPuts = 2  MaxFaults = 1  MaxEdits = 1  MaxCrashes = 0
  EditsDuringApply = FALSE
INVARIANTS TypeOK OncePerPut
PROPERTY ImplementsAtomic
CHECK_DEADLOCK FALSE
