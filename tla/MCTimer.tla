------------------------------ MODULE MCTimer ------------------------------
EXTENDS Timer, TLC

Symmetry == Permutations(Threads) \cup Permutations(Contexts)

SetBack == {1, -1}
=============================================================================
