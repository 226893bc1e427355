------------------------------ MODULE MCTokens ------------------------------
EXTENDS Tokens, TLC

CONSTANTS c1, c2, t1, t2, t3, t4, ann, bob

SymTokens == Permutations(TokenIds) \cup Permutations(Clients)
=============================================================================
