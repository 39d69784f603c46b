----------------------------- MODULE MCChannel -----------------------------
EXTENDS RelayChannel, TLC
Symmetry == Permutations(Conns) \cup Permutations(Subs)
=============================================================================
