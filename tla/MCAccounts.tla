----------------------------- MODULE MCAccounts -----------------------------
EXTENDS Accounts, TLC

CONSTANTS root, u1, u2, u3, i1, i2

SymAccounts == Permutations(Accounts \ {Root}) \cup Permutations(Keys)
=============================================================================
