SPECIFICATION Spec
CONSTANTS
  Streams = {s1}
  MaxDeltas = 1
  Null = Null
INVARIANT NeverWithheld
