CONSTANTS
  NULL = NULL
  Callers = {c1, c2}
  Handles = {h1, h2}
  Threads = {t1, t2}
  MutexObjs = {m1, m2}
  MaxThreads = 2
  Procs <- MCProcs
  Priorities = {NORMAL}
  NORMAL = NORMAL
SYMMETRY MCSymmetry
SPECIFICATION ControlSpec
INVARIANTS
  MutualExclusion
  NoDanglingEntry
  UnjoinedIsListed
  SharedInv
PROPERTIES
  TerminatedIsFinal
  EntryKept
  ActiveSeenOnlyInJoin
