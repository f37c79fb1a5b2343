SPECIFICATION Spec
CONSTANTS
  r1 = r1  r2 = r2  r3 = r3  r4 = r4  o1 = o1  o2 = o2
  Requests = {r1, r2, r3, r4}
  Maxima = {1, 2}
  Origin <- MCOrigin
  Null = Null
INVARIANTS
  TypeOK PermitsCounted NoWaiterWhileFree NoOvertaking OwnSocketKept SocketsBounded
PROPERTIES ClosedDrains
CHECK_DEADLOCK FALSE
