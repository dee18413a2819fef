\* An agent and its successor, overlapping or not, on one port or two; one window.
CONSTANTS
  Agents = {1, 2}
  Windows = {w1}
  Ports = {1, 2}
  None = None
  Torn = Torn
  MaxCommands = 1
  MaxTimeouts = 1
SPECIFICATION FairSpec
INVARIANTS
  TypeOK
  ClientsAreConnections
  ExitRemovesEndpoint
PROPERTIES
  WindowsReconnect
  DisposedLetsGo
CHECK_DEADLOCK FALSE
