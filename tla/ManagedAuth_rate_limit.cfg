SPECIFICATION Spec
CONSTANTS
  Ops = {o1, o2}
  Procs = {p1}
  Initial = Initial
  Null = Null
  Kinds = {"request"}
  Disturbances = {"crash"}
  RateLimitAware = FALSE
SYMMETRY Symmetry
PROPERTY SafeRepliesKeep
