SPECIFICATION Spec
CHECK_DEADLOCK FALSE
CONSTANTS
  Null = Null
  Policies = {"note", "silent", "refuse"}
  Servers <- MCServers
  Requests <- MCSingles
  Tokenizers <- MCTokenizers
INVARIANT
  NothingIsLostInvisibly
