---------------------------- MODULE MCAddonsPage ----------------------------
EXTENDS AddonsPage, TLC

CONSTANTS a, b, u1, u2, r1, r2

Published == {a :> u1 @@ b :> u2, a :> Absent @@ b :> u1}
SymRequests == Permutations(Requests)
=============================================================================
