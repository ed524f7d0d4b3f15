SPECIFICATION Spec
CONSTANTS
  h1 = h1
  h2 = h2
  Handlers <- TwoHandlers
  DefaultLimit = 1
  MaxLimit = 2
  Limits <- BoundaryLimits
  Offsets <- BoundaryOffsets
  MaxRecords = 3
  MaxTime = 3
SYMMETRY Symmetry
INVARIANTS
  TypeOK
  PagerMissesNothing
  RepeatsAreInsertions
  QuietPagingIsExact
PROPERTIES
  PagesAreBounded
