---------------------------- MODULE MCKeyExchange ----------------------------
EXTENDS KeyExchange, TLC

PartySymmetry == Permutations(Party)
=============================================================================
