CONSTANTS
  s1 = s1
  s2 = s2
  s3 = s3
  w1 = w1
  w2 = w2
  Calls = {s1, s2, s3}
  Workers = {w1}
  Retry = 3
  MaxPushes = 1
SPECIFICATION FairSpec
CHECK_DEADLOCK FALSE
INVARIANTS
  ReportedMeansAccepted
  AttemptsNotShared
PROPERTIES
  EverythingEnds
