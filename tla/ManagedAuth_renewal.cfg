SPECIFICATION Spec
CONSTANTS
  Ops = {o1, o2, o3}
  Procs = {p1, p2}
  Initial = Initial
  Null = Null
  Kinds = {"login", "configure", "cancelLogin", "logout", "request"}
  Disturbances = {"crash", "store failure", "lapse"}
  RateLimitAware = TRUE
SYMMETRY Symmetry
INVARIANTS
  TypeOK
  MaterialMatchesSlot
  NoBlindReplay
  PinHonoured
  CancelledNeverCommits
  ReservationCurrent
PROPERTIES
  SafeRepliesKeep
  RevisionFollowsCredential
  ImplementsConnectionSlot
