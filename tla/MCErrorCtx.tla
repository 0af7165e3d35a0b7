----------------------------- MODULE MCErrorCtx -----------------------------
EXTENDS ErrorCtxInv, TLC

\* Threads, heap cells and functions are alike; the liveness run does not use it.
MCSymmetry ==
  Permutations(Procs) \cup Permutations(MutexObjs) \cup Permutations(Callbacks)
=============================================================================
