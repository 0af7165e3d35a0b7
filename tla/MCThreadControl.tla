-------------------------- MODULE MCThreadControl --------------------------
EXTENDS ThreadControlInv, TLC

MCProcs == Callers \cup Handles

MCSymmetry ==
  Permutations(Callers) \cup Permutations(Handles) \cup Permutations(Threads)
    \cup Permutations(MutexObjs)
=============================================================================
