SPECIFICATION Spec
CONSTANTS
  Root <- MCRoot
  NameOrder <- MCOrder
  PlusPlus <- MCPlus
  MinusMinus <- MCMinus
  KnownCodes <- MCCodes
  Jobs <- MCJobs
  Json <- MCJson
  Nesting <- MCNesting
  MaxLinks = 3
  MaxFileBytes = 4
  HeadBytes = 2
  MaxContentScan = 3
  MaxResults = 2
  IntBits = 4
  None = None
INVARIANTS
  ReadsReality
  FindsWhatIsThere
  HashDecides
  WireIsFaithful
  AnswersReachCalls
  AcceptedIsAccepted
  ResultsAreReported
CHECK_DEADLOCK FALSE
