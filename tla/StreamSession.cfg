SPECIFICATION Spec
CONSTANTS
  r1 = r1  r2 = r2  r3 = r3  o1 = o1  o2 = o2
  Requests = {r1, r2, r3}
  Streams = {r1}
  Maxima = {1, 2}
  MaxDeltas = 1
  Origin <- MCOrigin
  Null = Null
INVARIANTS OneAnswer FinishedHoldsNothing
PROPERTIES ResultFinal
CHECK_DEADLOCK FALSE
