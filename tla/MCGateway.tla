----------------------------- MODULE MCGateway -----------------------------
EXTENDS Gateway, TLC
Symm == Permutations(User)
=============================================================================
