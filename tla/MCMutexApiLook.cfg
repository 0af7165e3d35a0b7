CONSTANTS
  NULL = NULL
  Procs = {p1, p2, p3}
  MutexObjs = {m1}
  Builds = {"linux", "generic"}
SYMMETRY MCSymmetry
SPECIFICATION Spec
PROPERTY AnswersAreTrue
