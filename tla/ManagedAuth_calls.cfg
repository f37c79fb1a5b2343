SPECIFICATION FairSpec
CONSTANTS
  Ops = {o1, o2}
  Procs = {p1}
  Initial = Initial
  Null = Null
  Kinds = {"login", "configure", "cancelLogin", "logout", "request", "verify"}
  Disturbances = {"abort", "close", "crash", "lapse"}
  RateLimitAware = TRUE
INVARIANT
  ReservationHasOwner
PROPERTY
  EveryCallEnds
