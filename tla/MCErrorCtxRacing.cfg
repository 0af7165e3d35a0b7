CONSTANTS
  NULL = NULL
  SUCCESS = SUCCESS
  Procs = {p1, p2}
  MutexObjs = {m1, m2}
  Errors = {e1}
  Callbacks = {f1}
  MaxDepth = 1
SYMMETRY MCSymmetry
SPECIFICATION RacingSpec
INVARIANT CtxExclusive
