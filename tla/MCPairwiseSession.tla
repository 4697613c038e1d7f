------------------------- MODULE MCPairwiseSession -------------------------
EXTENDS PairwiseSession, TLC

PartySymmetry == Permutations(Party)
=============================================================================
