------------------------------ MODULE MCAtomics ------------------------------
EXTENDS Atomics
==============================================================================
