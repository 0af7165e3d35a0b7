CONSTANTS
  NULL = NULL
  Callers = {c1, c2}
  Handles = {h1, h2}
  Threads = {t1, t2, t3}
  MutexObjs = {m1}
  MaxThreads = 2
  Procs <- MCProcs
  Priorities = {NORMAL}
  NORMAL = NORMAL
SYMMETRY MCSymmetry
SPECIFICATION Spec
INVARIANTS
  TypeOK
  FullWhenRefused
  PublishedIsListed
  JoinFindsItsThread
  DestroyedIsJoined
  NoUseAfterFree
  Inv
PROPERTIES
  ImplementsService
