----------------------------- MODULE MCTTThread -----------------------------
EXTENDS TTThreadInv, TLC

MCProcs == Callers \cup Handles

\* Structures, handles and callers are alike; the liveness runs do not use it.
MCSymmetry ==
  Permutations(Callers) \cup Permutations(Handles) \cup Permutations(Threads)
==============================================================================
