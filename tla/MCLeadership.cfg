SPECIFICATION FairSpec
CONSTANTS
  n1 = n1
  n2 = n2
  c1 = c1
  None = None
  Nodes = {n1, n2}
  Configs = {c1}
  MaxElections = 2
  MaxLog = 6
PROPERTIES
  FreshRoundNeverDoubles
  OneLoopRemains
  LoopsSettle
