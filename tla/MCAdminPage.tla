----------------------------- MODULE MCAdminPage -----------------------------
EXTENDS AdminPage, TLC

CONSTANTS root, u1, c1, c2

SymCalls == Permutations(Calls)
=============================================================================
