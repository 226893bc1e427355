------------------------------ MODULE MCRelay ------------------------------
EXTENDS Relay, TLC

CONSTANTS k1, k2, k3, ann, bob, g1

SymSockets == Permutations(Sockets)
Owner == [s \in Sessions |-> ann]
=============================================================================
