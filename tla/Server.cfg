\* Two work items, two handler threads: every race on one workflow row, and what one
\* item's handlers may do to the other.
CONSTANTS
  WorkItems = {w1, w2}
  Approvals = {a1, a2, a3, a4}
  Workspaces = {s1}
  Hashes = {h1}
  Workers = {t1, t2}
  None = None
SPECIFICATION Spec
SYMMETRY Interchangeable
INVARIANTS
  TypeOK
  HistoryIsPath
  WaitingIsDecidable
  CommitsAreWhole
  GatesAreDecided
  OpenOnlyWhileWaiting
  EventsAreAuthorised
PROPERTIES
  DecisionsAreFinal
  ImplementsGate
