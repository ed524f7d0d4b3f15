SPECIFICATION FairSpec
CONSTANTS
  o1 = o1
  o2 = o2
  w1 = w1
  w2 = w2
  r1 = r1
  r2 = r2
  r3 = r3
  r4 = r4
  None = None
  NoSuchId = NoSuchId
  Workers <- TwoWorkers
  Reasons = {"busy"}
  Orders <- OneOrder
  Requests <- ThreeRequests
  Hazards = {"overlap"}
PROPERTIES
  OrderNotStranded
