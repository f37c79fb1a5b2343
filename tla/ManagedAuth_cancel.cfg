SPECIFICATION Spec
CONSTANTS
  Ops = {o1, o2, o3, o4}
  Procs = {p1}
  Initial = Initial
  Null = Null
  Kinds = {"login", "cancelLogin"}
  Disturbances = {}
  RateLimitAware = TRUE
SYMMETRY Symmetry
INVARIANT CancelAbortsRunning
