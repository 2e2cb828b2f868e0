SPECIFICATION Spec
CONSTANTS
  j1 = j1
  j2 = j2
  j3 = j3
  j4 = j4
  k1 = k1
  s1 = s1
  s2 = s2
  s3 = s3
  NoJob = NoJob
  Services = {s1, s2, s3}
  Attempts = 2
  ErrSize = 1
  PoolSize = 3
  Jobs = {j1, j2, j3, j4}
  ParserKey <- CommonKey
CHECK_DEADLOCK FALSE
INVARIANTS
  CallsFindAll
  NoSendOnClosed
  NoResultLost

  
