SPECIFICATION MCSpec
CONSTANTS
  a = a
  b = b
  proc1 = proc1
  proc2 = proc2
  w1 = w1
  w2 = w2
  e1 = e1
  e2 = e2
  Senders = {a, b}
  Processes = {proc1, proc2}
  Triggers <- SharedCheck
  Conf <- CheckConf
  Initial <- InitialChecks
  JHosts = 2
  MaxGarbled = 1
  Events = 3
  JFrontend = 2
  BatchSize = 2
  Attempts = 2
  Pushers = {a, b}
  Workers = {w1, w2}
  History = 3
  MaxEvents = 4
  Endpoints = {e1, e2}
  Data <- Mixed
  NoSubgroup = NoSubgroup
  Retry = 2
  MaxEntries = 3
CHECK_DEADLOCK FALSE
INVARIANTS
  EventsHaveChecks
  EventsAccounted
  
  NoConnectionLeaks
  PointsNamed

  
  
