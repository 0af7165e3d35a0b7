CONSTANTS
  NULL = NULL
  Callers = {c1, c2}
  Handles = {h1, h2}
  Threads = {t1, t2}
  MutexObjs = {m1}
  MaxThreads = 1
  Procs <- MCProcs
  Priorities = {NORMAL}
  NORMAL = NORMAL
SYMMETRY MCSymmetry
SPECIFICATION Spec
INVARIANT SelfIsCaller
