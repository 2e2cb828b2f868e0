SPECIFICATION MCSpec
CONSTANTS
  h1 = h1
  h2 = h2
  h3 = h3
  d1 = d1
  d2 = d2
  a1 = a1
  a2 = a2
  k1 = k1
  k2 = k2
  s1 = s1
  s2 = s2
  Hosts = {h1, h2, h3}
  Dc <- DcOf
  Keys <- KeysOf
  AggConfigs = {a1, a2}
  PerHost = {k2}
  SkipDc = {}
  ParallelParsings = 2
  ShouldWait = TRUE
  Sessions = {s1, s2}
  Geo = {"sas", "man"}
  Kinds = {"tsv", "json", "rtc", "zk", "qloud"}
  MaxAsked = 4
  Groups <- GroupsOf
  Answers <- AnswersOf
CHECK_DEADLOCK FALSE

  
  
PROPERTIES
  ResultsStable
  IterationsEnd
