------------------------------ MODULE MCLease ------------------------------
EXTENDS ControlLease, TLC
Symmetry == Permutations(Subs)
=============================================================================
