CONSTANTS
  k1=k1 k2=k2 k3=k3 k4=k4 ann=ann bob=bob g1=g1 g2=g2
  Sockets = {k1,k2,k3}
  Sessions = {g1}
  Users = {ann,bob}
  OwnerOf <- Owner
  Protocols = {1,2}
  MinProtocol = 2
  MaxPeers = 2
  MaxAuthFailures = 2
  MaxStrikes = 3
  MaxPings = 2
  Rebinds = FALSE
  NoSocket=NoSocket NoPeer=NoPeer NoProtocol=NoProtocol NoSession=NoSession
SPECIFICATION Spec
PROPERTIES SingleSlowAnswerForgiven
SYMMETRY SymSockets
