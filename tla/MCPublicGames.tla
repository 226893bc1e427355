---------------------------- MODULE MCPublicGames ----------------------------
EXTENDS PublicGames, TLC

CONSTANTS k1, k2, k3, ann, g1, g2, v1, v2

Owner == [s \in Sessions |-> ann]
=============================================================================
