SPECIFICATION Spec
CHECK_DEADLOCK FALSE
CONSTANTS
  Null = Null
  Policies = {"note", "silent", "refuse"}
  Servers <- MCServers
  Requests <- MCRequests
  Tokenizers <- MCTokenizers
INVARIANTS
  LostOnlyWhereKnown
  CallKeepsThePlan
  Settled
  ReadsBack
  TranscriptKept
  CoverageIsAShare
