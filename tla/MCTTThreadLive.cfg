CONSTANTS
  NULL = NULL
  Callers = {c1, c2}
  Handles = {h1}
  Threads = {t1, t2, t3}
  MutexObjs = {m1}
  MaxThreads = 1
  Procs <- MCProcs
  Priorities = {NORMAL}
  NORMAL = NORMAL
SPECIFICATION FairSpec
PROPERTIES
  MutexReleased
  JoinReturns
  ImplementsRegistry
