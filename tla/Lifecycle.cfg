SPECIFICATION FairSpec
CONSTANTS
  c1 = c1
  c2 = c2
  c3 = c3
  Calls <- ThreeCalls
INVARIANTS
  TypeOK
  EngineServesHandlers
  CleanExitIsComplete
PROPERTIES
  NoCallIsCutShort
  OneServerEndsProcessEnds
