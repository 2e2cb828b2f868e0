SPECIFICATION LateSpec
CONSTANTS
  me = me
  other = other
  c1 = c1
  c2 = c2
  Hosts = {me, other}
  Me = me
  Configs = {c1, c2}
  NoConfig = NoConfig
  MaxChans = 3
INVARIANTS
  NeverWedged
  TasksMatchStore
  ObserverOwned
  VisibleInTime
PROPERTIES
  TasksFollow
