-------------------------- MODULE MCBackgroundTask --------------------------
EXTENDS BackgroundTask, TLC

Symmetry == Permutations(Values)
=============================================================================
