---- MODULE MCSignaling ----
EXTENDS Signaling, TLC
CONSTANTS k1, k2, k3, k4, ann, bob, g1, g2
SymSockets == Permutations(Sockets)
Owner == [s \in Sessions |-> ann]
====
