SPECIFICATION MCSpec
CONSTANTS
  me = me
  h1 = h1
  c1 = c1
  Me = me
  Hosts = {me, h1}
  Listed = {c1}
  Expect = 2
  QueueSize = 1
  MaxChanges = 4
  MaxTerms = 2
  MaxVersion = 3
  LeaderLoops = {"leaderLoop1", "leaderLoop2"}
CHECK_DEADLOCK FALSE
PROPERTIES
  
  MembersReconciled
  
  ResolverServes
