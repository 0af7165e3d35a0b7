------------------------------ MODULE MCRingBuf ------------------------------
EXTENDS RingBuf, TLC

\* The code never looks at a byte.
MCSymmetry == Permutations(Bytes)
==============================================================================
