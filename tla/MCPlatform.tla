----------------------------- MODULE MCPlatform -----------------------------
EXTENDS Platform, TLC

\* The builds of the Makefile define the target and no macro of a platform.
MCMakefile ==
  [target : {"linux", "arduino"}, macro : {"none"}]

\* Builds in which the macro is given by hand, too.
MCBuilds ==
  MCMakefile \cup {[target |-> "none", macro |-> m] : m \in Platforms}

MCSymmetry == Permutations(Procs) \cup Permutations(Readings)
=============================================================================
