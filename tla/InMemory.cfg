SPECIFICATION Spec
CONSTANTS
  o1 = o1
  o2 = o2
  w1 = w1
  w2 = w2
  r1 = r1
  r2 = r2
  r3 = r3
  None = None
  NoSuchId = NoSuchId
  Orders <- TwoOrders
  Workers <- TwoWorkers
  Reasons = {"busy"}
  Requests <- ThreeIds
SYMMETRY Symmetry
INVARIANTS
  TypeOK
  OrderAgrees
PROPERTIES
  RaisingChangesNothing
  ImplementsContract
