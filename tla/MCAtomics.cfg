CONSTANTS
  Procs = {p1, p2}
  Half = 3
SPECIFICATION FairSpec
INVARIANTS
  TypeOK
PROPERTIES
  ImplementsSharedInt
  LoopEnds
