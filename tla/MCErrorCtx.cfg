CONSTANTS
  NULL = NULL
  SUCCESS = SUCCESS
  Procs = {p1, p2}
  MutexObjs = {m1, m2}
  Errors = {e1}
  Callbacks = {f1}
  MaxDepth = 2
SPECIFICATION FairSpec
INVARIANTS
  TypeOK
  CtxExclusive
  NothingHeldOutside
  Inv
PROPERTIES
  FreshSession
  ImplementsErrorService
  CtxReleased
  ErrorReported
