--------------------------- MODULE MCGroupSession ---------------------------
EXTENDS GroupSession, TLC

SenderKeyIdSymmetry == Permutations(SenderKeyIds)
=============================================================================
