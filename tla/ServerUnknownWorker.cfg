SPECIFICATION ServerSpec
CONSTANTS
  o1 = o1
  w1 = w1
  w2 = w2
  clerk = clerk
  r1 = r1
  r2 = r2
  None = None
  NoSuchId = NoSuchId
  Empty = Empty
  Blank = Blank
  Orders <- OneOrder
  Workers <- TwoWorkers
  Clerks <- OneClerk
  Reasons = {"busy"}
  Requests <- TwoIds
  Callers <- SomeCallers
  Schedule <- OneListed
  Filters <- SomeFilters
  DefaultLimit = 1
  MaxLimit = 2
  Limits <- BoundaryLimits
SYMMETRY Symmetry
INVARIANT
  AssignedWorkerIsListed
