CONSTANTS
  Procs = {p1, p2}
  Builds <- MCMakefile
  Readings = {r1}
SPECIFICATION Spec
INVARIANT TargetIsSupported
