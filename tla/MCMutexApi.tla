----------------------------- MODULE MCMutexApi -----------------------------
EXTENDS MutexApi, TLC

\* Threads and heap cells are alike.
MCSymmetry == Permutations(Procs) \cup Permutations(MutexObjs)
=============================================================================
