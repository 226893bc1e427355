--------------------------- MODULE MCGameSessions ---------------------------
EXTENDS GameSessions, TLC

CONSTANTS gm, ann, bob, a1, g1, p1, p2, q1, q2

SymGames == Permutations(Users \ Admins) \cup Permutations(Passwords) \cup Permutations(Requests)
=============================================================================
