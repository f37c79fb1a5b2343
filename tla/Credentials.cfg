SPECIFICATION Spec
CONSTANTS
  Callers = {c1, c2}
  MaxToken = 4
  MaxOutside = 1
  MaxPolls = 3
  MaxTime = 3
  Null = Null
  Users = {u1, u2}
  MaxWalks = 2
  Moving <- MCMoving
  Sites <- MCSites
INVARIANTS
  RefreshTokenSentOnce
  AnswersAreCurrent
  AttemptKeepsItsWord
  DoctorTellsTheTruth
CHECK_DEADLOCK FALSE
