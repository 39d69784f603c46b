------------------------------ MODULE MCTunnel ------------------------------
EXTENDS Tunnel, TLC
Symmetry == Permutations(Streams)
=============================================================================
