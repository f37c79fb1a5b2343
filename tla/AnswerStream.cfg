SPECIFICATION Spec
CONSTANTS
  Null = Null
  Requested = "requested"
  Answers <- MCAnswers
  StopSets <- MCStopSets
INVARIANTS
  SameAnswer NoPartialAnswer OneStartOneEnd StopHonoured ScoresOfKeptText ReplayLossless
CHECK_DEADLOCK FALSE
