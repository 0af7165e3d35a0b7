CONSTANTS
  NULL = NULL
  Procs = {p1, p2, p3}
  MutexObjs = {m1, m2}
  Builds = {"linux", "generic"}
SPECIFICATION FairSpec
INVARIANTS
  LockExclusive
  HeapExact
  Inv
PROPERTIES
  ImplementsLockService
  WaitersGoOn
