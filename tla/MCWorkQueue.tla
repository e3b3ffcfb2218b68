---------------------------- MODULE MCWorkQueue ----------------------------
\* Model values, bounds and symmetry for checking WorkQueue.
EXTENDS WorkQueue, TLC

HostSymmetry == Permutations(Hosts)
=============================================================================
