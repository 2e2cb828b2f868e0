CONSTANTS
  s1 = s1
  s2 = s2
  s3 = s3
  w1 = w1
  w2 = w2
  Calls = {s1, s2}
  Workers = {w1, w2}
  Retry = 3
  MaxPushes = 1
SPECIFICATION Spec
CHECK_DEADLOCK FALSE
SYMMETRY Symmetry
INVARIANT OnlyTimeoutsRetried
