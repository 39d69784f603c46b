----------------------------- MODULE MCManager -----------------------------
EXTENDS ChannelManager, TLC
Symmetry == Permutations(Subs) \cup Permutations(Pods)
=============================================================================
