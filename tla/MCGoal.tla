------------------------------- MODULE MCGoal -------------------------------
EXTENDS GoalLoop, TLC
Symmetry == Permutations(Handlers)
=============================================================================
