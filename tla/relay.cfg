CONSTANTS
  k1=k1 k2=k2 k3=k3 ann=ann bob=bob g1=g1
  Sockets = {k1,k2,k3}
  Sessions = {g1}
  Users = {ann}
  OwnerOf <- Owner
  Protocols = {2}
  MinProtocol = 2
  MaxPeers = 2
  MaxAuthFailures = 1
  MaxStrikes = 3
  MaxPings = 0
  Rebinds = FALSE
  IceMax = 2
  IceWindow = 1
  NoSocket=NoSocket NoPeer=NoPeer NoProtocol=NoProtocol NoSession=NoSession
  NoEntry=NoEntry NoMessage=NoMessage
SPECIFICATION RelaySpec
INVARIANTS CandidatesLimited CountersOfPeers PlayersHearTheirGm
PROPERTIES RefusalsDeserved
SYMMETRY SymSockets
