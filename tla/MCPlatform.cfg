CONSTANTS
  Procs = {p1, p2}
  Builds <- MCBuilds
  Readings = {r1, r2}
SYMMETRY MCSymmetry
SPECIFICATION Spec
INVARIANTS
  DescriptionComplete
  Inv
PROPERTY OnlyReadingsChange
