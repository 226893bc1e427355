CONSTANTS
  k1=k1 k2=k2 k3=k3 ann=ann g1=g1 g2=g2 v1=v1 v2=v2
  Sockets = {k1,k2}
  Sessions = {g1,g2}
  Users = {ann}
  OwnerOf <- Owner
  Protocols = {2}
  MinProtocol = 2
  MaxPeers = 1
  MaxAuthFailures = 1
  MaxStrikes = 2
  MaxPings = 1
  Rebinds = TRUE
  Visits = {v1}
  NoVisit = NoVisit
  NoSocket=NoSocket NoPeer=NoPeer NoProtocol=NoProtocol NoSession=NoSession
SPECIFICATION PublicLiveSpec
INVARIANTS ListedGamesAnswered
PROPERTIES VisitsAnswered StaleEntryDropped
