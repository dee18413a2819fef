\* One call id, asked for twice, one after the other or at the same time; two
\* connections in turn.
CONSTANTS
  Callers = {c1, c2}
  CallIds = {i1}
  Streams = {s1, s2}
  None = None
SPECIFICATION FairSpec
INVARIANTS
  TypeOK
  SuccessWasExecuted
  ExecutedOnce
  RetryGetsSameAnswer
  AttachedIsUsed
PROPERTIES
  WorkerEnds
CHECK_DEADLOCK FALSE
