---------------------------- MODULE MCForemanRun ----------------------------
\* Symmetry for checking ForemanRun.
EXTENDS ForemanRun, TLC

ReviewerSymmetry == Permutations(Reviewers)
=============================================================================
