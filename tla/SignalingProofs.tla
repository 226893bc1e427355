--------------------------- MODULE SignalingProofs ---------------------------
(***************************************************************************)
(* Proofs about the signaling server, for any sets of sockets, sessions    *)
(* and users, any owners and any limits: its registry, what sockets are    *)
(* told, and that it implements the abstract directory.                    *)
(***************************************************************************)
EXTENDS Signaling, FiniteSetTheorems, TLAPS

-----------------------------------------------------------------------------
(* Types.                                                                  *)

\* Clearing the sockets of `gone` keeps a map in its range.
LEMMA ClearedType ==
    ASSUME NEW S, NEW f \in [Sockets -> S], NEW gone, NEW none \in S
    PROVE  Cleared(f, gone, none) \in [Sockets -> S]
BY DEF Cleared

LEMMA GmMapType ==
    ASSUME NEW S, NEW f \in [Sessions -> S], NEW gone, NEW none \in S
    PROVE  GmMapAfter(f, gone, none) \in [Sessions -> S]
BY DEF GmMapAfter

LEMMA ToldType ==
    ASSUME TypeOK, NEW gone
    PROVE  /\ RosterAfter(gone) \in [Sockets -> SUBSET Sockets]
           /\ NotifiedAfter(gone) \in [Sockets -> BOOLEAN]
BY DEF TypeOK, RosterAfter, NotifiedAfter

\* What every action that closes sockets leaves typed.
LEMMA CloseType ==
    ASSUME TypeOK, NEW gone, CloseSockets(gone)
    PROVE  /\ conn' \in [Sockets -> {"new", "open", "closed"}]
           /\ authFailures' \in [Sockets -> 0 .. MaxAuthFailures - 1]
           /\ rooms' \in [Sockets -> SUBSET Sessions]
           /\ peers' \in [Sockets -> PeerRecords \cup {NoPeer}]
           /\ gmSockets' \in [Sessions -> Sockets \cup {NoSocket}]
           /\ gmProtocols' \in [Sessions -> Protocols \cup {NoProtocol}]
           /\ gmPingStrikes' \in [Sessions -> 0 .. MaxStrikes - 1]
           /\ roster' \in [Sockets -> SUBSET Sockets]
           /\ knownGm' \in [Sockets -> Sockets \cup {NoSocket}]
           /\ notified' \in [Sockets -> BOOLEAN]
           /\ misses' \in [Sockets -> 0 .. MaxStrikes]
<1>1. /\ 0 \in 0 .. MaxAuthFailures - 1
      /\ 0 \in 0 .. MaxStrikes - 1
      /\ 0 \in 0 .. MaxStrikes
  BY ConstantsAssumption
<1>2. /\ conn' \in [Sockets -> {"new", "open", "closed"}]
      /\ rooms' \in [Sockets -> SUBSET Sessions]
      /\ peers' \in [Sockets -> PeerRecords \cup {NoPeer}]
      /\ knownGm' \in [Sockets -> Sockets \cup {NoSocket}]
  BY ClearedType DEF CloseSockets, TypeOK
<1>3. /\ authFailures' \in [Sockets -> 0 .. MaxAuthFailures - 1]
      /\ misses' \in [Sockets -> 0 .. MaxStrikes]
  BY <1>1, ClearedType DEF CloseSockets, TypeOK
<1>4. /\ gmSockets' \in [Sessions -> Sockets \cup {NoSocket}]
      /\ gmProtocols' \in [Sessions -> Protocols \cup {NoProtocol}]
      /\ gmPingStrikes' \in [Sessions -> 0 .. MaxStrikes - 1]
  BY <1>1, GmMapType DEF CloseSockets, TypeOK
<1>5. /\ roster' \in [Sockets -> SUBSET Sockets]
      /\ notified' \in [Sockets -> BOOLEAN]
  BY ToldType DEF CloseSockets
<1> QED
  BY <1>2, <1>3, <1>4, <1>5

LEMMA RosterJoinType ==
    ASSUME TypeOK, NEW k \in Sockets, NEW s, NEW gone
    PROVE  RosterAfterJoin(k, s, gone) \in [Sockets -> SUBSET Sockets]
BY ToldType DEF RosterAfterJoin

LEMMA PeerType ==
    ASSUME NEW u \in Users, NEW s \in Sessions, NEW role \in Roles
    PROVE  Peer(u, s, role) \in PeerRecords
BY DEF Peer, PeerRecords

\* The actions that only close sockets.
LEMMA CloseStepType ==
    ASSUME TypeOK, NEW gone, CloseSockets(gone), UNCHANGED <<pings, database>>
    PROVE  TypeOK'
BY CloseType DEF TypeOK, database

LEMMA JoinGmType ==
    ASSUME TypeOK, NEW k \in Sockets, NEW u \in Users, NEW s \in Sessions,
           NEW p \in Protocols, JoinGm(k, u, s, p)
    PROVE  TypeOK'
<1> DEFINE gone == Replaced(s, "gm")
<1>1. /\ 0 \in 0 .. MaxAuthFailures - 1
      /\ 0 \in 0 .. MaxStrikes - 1
      /\ 0 \in 0 .. MaxStrikes
  BY ConstantsAssumption
<1>2. Peer(u, s, "gm") \in PeerRecords
  BY PeerType DEF Roles
<1>3. /\ Cleared(conn, gone, "closed") \in [Sockets -> {"new", "open", "closed"}]
      /\ Cleared(peers, gone, NoPeer) \in [Sockets -> PeerRecords \cup {NoPeer}]
      /\ Cleared(rooms, gone, {}) \in [Sockets -> SUBSET Sessions]
      /\ Cleared(knownGm, gone, NoSocket) \in [Sockets -> Sockets \cup {NoSocket}]
  BY ClearedType DEF TypeOK
<1>4. /\ Cleared(authFailures, gone, 0) \in [Sockets -> 0 .. MaxAuthFailures - 1]
      /\ Cleared(misses, gone, 0) \in [Sockets -> 0 .. MaxStrikes]
  BY <1>1, ClearedType DEF TypeOK
<1>5. /\ GmMapAfter(gmSockets, gone, NoSocket) \in [Sessions -> Sockets \cup {NoSocket}]
      /\ GmMapAfter(gmProtocols, gone, NoProtocol) \in [Sessions -> Protocols \cup {NoProtocol}]
      /\ GmMapAfter(gmPingStrikes, gone, 0) \in [Sessions -> 0 .. MaxStrikes - 1]
  BY <1>1, GmMapType DEF TypeOK
<1>6. /\ conn' \in [Sockets -> {"new", "open", "closed"}]
      /\ authFailures' \in [Sockets -> 0 .. MaxAuthFailures - 1]
      /\ knownGm' \in [Sockets -> Sockets \cup {NoSocket}]
      /\ misses' \in [Sockets -> 0 .. MaxStrikes]
  BY <1>1, <1>3, <1>4 DEF JoinGm
<1>7. /\ rooms' \in [Sockets -> SUBSET Sessions]
      /\ peers' \in [Sockets -> PeerRecords \cup {NoPeer}]
  BY <1>2, <1>3 DEF JoinGm
<1>8. /\ gmSockets' \in [Sessions -> Sockets \cup {NoSocket}]
      /\ gmProtocols' \in [Sessions -> Protocols \cup {NoProtocol}]
      /\ gmPingStrikes' \in [Sessions -> 0 .. MaxStrikes - 1]
  BY <1>5 DEF JoinGm
<1>9. /\ roster' \in [Sockets -> SUBSET Sockets]
      /\ notified' \in [Sockets -> BOOLEAN]
  BY RosterJoinType DEF JoinGm, NotifiedOfGm
<1>10. /\ fresh' \subseteq Sessions
       /\ UNCHANGED <<pings, games, members>>
  BY DEF JoinGm, TypeOK
<1> QED
  BY <1>6, <1>7, <1>8, <1>9, <1>10 DEF TypeOK

LEMMA AuthenticateType ==
    ASSUME TypeOK, NEW k \in Sockets, Authenticate(k)
    PROVE  TypeOK'
<1>1. CASE AuthInvalidPayload(k)
  BY <1>1, CloseStepType DEF AuthInvalidPayload
<1>2. CASE AuthBadToken(k)
  <2>1. authFailures' \in [Sockets -> 0 .. MaxAuthFailures - 1]
    BY <1>2, ConstantsAssumption DEF AuthBadToken, TypeOK
  <2> QED
    BY <1>2, <2>1 DEF AuthBadToken, TypeOK, registry, database, told
<1>3. CASE AuthBadTokenDrop(k)
  BY <1>3, CloseStepType DEF AuthBadTokenDrop
<1>4. ASSUME NEW u \in Users, NEW s \in Sessions, NEW role \in Roles, NEW p \in Announced,
             AuthRefused(k, u, s, role, p) \/ AuthFull(k, u, s, role, p)
      PROVE  TypeOK'
  BY <1>4, CloseStepType DEF AuthRefused, AuthFull
<1>5. ASSUME NEW u \in Users, NEW s \in Sessions, JoinPlayer(k, u, s)
      PROVE  TypeOK'
  <2>1. Peer(u, s, "player") \in PeerRecords
    BY PeerType DEF Roles
  <2>2. roster' \in [Sockets -> SUBSET Sockets]
    BY <1>5, RosterJoinType DEF JoinPlayer
  <2>3. authFailures' \in [Sockets -> 0 .. MaxAuthFailures - 1]
    BY <1>5, ConstantsAssumption DEF JoinPlayer, TypeOK
  <2> QED
    BY <1>5, <2>1, <2>2, <2>3 DEF JoinPlayer, TypeOK, database
<1>6. ASSUME NEW u \in Users, NEW s \in Sessions, ReauthPlayer(k, u, s)
      PROVE  TypeOK'
  <2>1. Peer(u, s, "player") \in PeerRecords
    BY PeerType DEF Roles
  <2>2. authFailures' \in [Sockets -> 0 .. MaxAuthFailures - 1]
    BY <1>6, ConstantsAssumption DEF ReauthPlayer, TypeOK
  <2> QED
    BY <1>6, <2>1, <2>2 DEF ReauthPlayer, TypeOK, database
<1>7. ASSUME NEW u \in Users, NEW s \in Sessions, NEW p \in Protocols, JoinGm(k, u, s, p)
      PROVE  TypeOK'
  BY <1>7, JoinGmType
<1>8. ASSUME NEW u \in Users, NEW s \in Sessions, NEW p \in Protocols, ReauthGm(k, u, s, p)
      PROVE  TypeOK'
  <2>1. Peer(u, s, "gm") \in PeerRecords
    BY PeerType DEF Roles
  <2>2. authFailures' \in [Sockets -> 0 .. MaxAuthFailures - 1]
    BY <1>8, ConstantsAssumption DEF ReauthGm, TypeOK
  <2> QED
    BY <1>8, <2>1, <2>2 DEF ReauthGm, TypeOK, told
<1> QED
  BY <1>1, <1>2, <1>3, <1>4, <1>5, <1>6, <1>7, <1>8 DEF Authenticate

LEMMA PingType ==
    ASSUME TypeOK, NEW s \in Sessions, Ping(s)
    PROVE  TypeOK'
<1>1. CASE PingStart(s)
  <2>1. pings' \in [Sessions -> [Sockets -> 0 .. MaxPings]]
    <3>1. gmSockets[s] \in Sockets
      BY <1>1 DEF PingStart, Listed, GmConnected, TypeOK
    <3>2. pings[s][gmSockets[s]] + 1 \in 0 .. MaxPings
      BY <1>1, <3>1, ConstantsAssumption DEF PingStart, TypeOK
    <3> QED
      BY <1>1, <3>1, <3>2 DEF PingStart, TypeOK
  <2> QED
    BY <1>1, <2>1 DEF PingStart, TypeOK, registry, database, told
<1>2. CASE PingGone(s)
  BY <1>2, ConstantsAssumption DEF PingGone, TypeOK, database, told
<1>3. ASSUME NEW k \in Sockets, pings[s][k] > 0, pings' = [pings EXCEPT ![s][k] = @ - 1]
      PROVE  pings' \in [Sessions -> [Sockets -> 0 .. MaxPings]]
  <2>1. pings[s][k] - 1 \in 0 .. MaxPings
    BY <1>3, ConstantsAssumption DEF TypeOK
  <2> QED
    BY <1>3, <2>1 DEF TypeOK
<1>4. ASSUME NEW k \in Sockets, PingAck(s, k)
      PROVE  TypeOK'
  <2>1. /\ gmPingStrikes' \in [Sessions -> 0 .. MaxStrikes - 1]
        /\ misses' \in [Sockets -> 0 .. MaxStrikes]
    BY <1>4, ConstantsAssumption DEF PingAck, TypeOK
  <2>2. pings' \in [Sessions -> [Sockets -> 0 .. MaxPings]]
    BY <1>3, <1>4 DEF PingAck
  <2> QED
    BY <1>4, <2>1, <2>2 DEF PingAck, TypeOK, database, told
<1>5. ASSUME NEW k \in Sockets, PingStrike(s, k)
      PROVE  TypeOK'
  <2>1. gmPingStrikes' \in [Sessions -> 0 .. MaxStrikes - 1]
    BY <1>5, ConstantsAssumption DEF PingStrike, TypeOK
  <2>2. MissesAfter(k) \in 0 .. MaxStrikes
    BY ConstantsAssumption DEF MissesAfter, TypeOK
  <2>3. misses' \in [Sockets -> 0 .. MaxStrikes]
    BY <1>5, <2>2 DEF PingStrike, TypeOK
  <2>4. pings' \in [Sessions -> [Sockets -> 0 .. MaxPings]]
    BY <1>3, <1>5 DEF PingStrike
  <2> QED
    BY <1>5, <2>1, <2>3, <2>4 DEF PingStrike, TypeOK, database, told
<1>6. ASSUME NEW k \in Sockets, PingEvict(s, k)
      PROVE  TypeOK'
  <2>1. pings' \in [Sessions -> [Sockets -> 0 .. MaxPings]]
    BY <1>3, <1>6 DEF PingEvict
  <2> QED
    BY <1>6, <2>1, CloseType DEF PingEvict, TypeOK, database
<1> QED
  BY <1>1, <1>2, <1>4, <1>5, <1>6 DEF Ping, PingGmSocket

\* Every variable of the server keeps its type: in particular the counters stay
\* below the limits at which the code acts on them (authenticate.js:27-28,
\* signalingService.js:186-194).
THEOREM TypeCorrect == Spec => []TypeOK
<1>1. Init => TypeOK
  BY ConstantsAssumption DEF Init, TypeOK
<1>2. TypeOK /\ [Next]_vars => TypeOK'
  <2> SUFFICES ASSUME TypeOK, [Next]_vars PROVE TypeOK'
    OBVIOUS
  <2>1. CASE UNCHANGED vars
    BY <2>1 DEF TypeOK, vars, registry, database, told
  <2>2. ASSUME NEW k \in Sockets, Connect(k) PROVE TypeOK'
    BY <2>2 DEF Connect, TypeOK, registry, database, told
  <2>3. ASSUME NEW k \in Sockets, Disconnect(k) PROVE TypeOK'
    BY <2>3, CloseStepType DEF Disconnect
  <2>4. CASE ServerRestart
    BY <2>4, ConstantsAssumption DEF ServerRestart, TypeOK, database
  <2>5. ASSUME NEW s \in Sessions, DeleteGame(s) PROVE TypeOK'
    BY <2>5 DEF DeleteGame, Deleted, TypeOK, registry, told
  <2>6. ASSUME NEW s \in Sessions, Expire(s) PROVE TypeOK'
    BY <2>6 DEF Expire, TypeOK, registry, told
  <2>7. ASSUME NEW u \in Users, NEW s \in Sessions, JoinGame(u, s) PROVE TypeOK'
    BY <2>7 DEF JoinGame, TypeOK, registry, told
  <2>8. CASE RunCleanup
    BY <2>8 DEF RunCleanup, Deleted, TypeOK, registry, told
  <2> QED
    BY <2>1, <2>2, <2>3, <2>4, <2>5, <2>6, <2>7, <2>8, AuthenticateType, PingType DEF Next
<1> QED
  BY <1>1, <1>2, PTL DEF Spec

-----------------------------------------------------------------------------
(* The registry is exact.                                                  *)

\* Closing sockets takes exactly them out of every session.
LEMMA CloseRegistry ==
    ASSUME TypeOK, RegistryExact, NEW gone \in SUBSET Sockets, CloseSockets(gone)
    PROVE  RegistryExact'
<1>1. ASSUME NEW s \in Sessions, NEW k \in Sockets
      PROVE  IsGmPeer(k, s)' <=> IsGmPeer(k, s) /\ k \notin gone
  BY <1>1 DEF CloseSockets, Cleared, IsGmPeer, InSession, IsPeer
<1>2. ASSUME NEW s \in Sessions
      PROVE  DropsGmEntry(s, gone) <=> gmSockets[s] \in gone
  BY <1>2 DEF DropsGmEntry, RegistryExact
<1>3. ASSUME NEW s \in Sessions, NEW k \in Sockets
      PROVE  (gmSockets'[s] = k) <=> gmSockets[s] = k /\ k \notin gone
  BY <1>2, <1>3, ConstantsAssumption DEF CloseSockets, GmMapAfter
<1>4. ASSUME NEW s \in Sessions
      PROVE  GmConnected(s)' <=> gmProtocols'[s] # NoProtocol
  BY <1>4 DEF CloseSockets, GmMapAfter, GmConnected, RegistryExact
<1>5. ASSUME NEW k \in Sockets, IsPeer(k)'
      PROVE  conn'[k] = "open"
  BY <1>5 DEF CloseSockets, Cleared, IsPeer, RegistryExact
<1> QED
  BY <1>1, <1>3, <1>4, <1>5 DEF RegistryExact

\* A step that leaves the registry and the connections alone.
LEMMA SameRegistry ==
    ASSUME RegistryExact, UNCHANGED <<conn, peers, gmSockets, gmProtocols>>
    PROVE  RegistryExact'
BY DEF RegistryExact, IsGmPeer, InSession, IsPeer, GmConnected

\* A socket that joins is not registered yet, and the GM it replaces is the
\* only one the session has.
LEMMA JoinGmRegistry ==
    ASSUME TypeOK, RegistryExact, Rebinds = FALSE,
           NEW k \in Sockets, NEW u \in Users, NEW s \in Sessions, NEW p \in Protocols,
           JoinGm(k, u, s, p)
    PROVE  RegistryExact'
<1> DEFINE gone == Replaced(s, "gm")
<1>1. ~ IsPeer(k)
  BY DEF JoinGm, Accepted, SameBinding, IsReauth, InSession, IsPeer
<1>2. \A j \in Sockets : j \in gone <=> gmSockets[s] = j
  BY ConstantsAssumption DEF Replaced, GmConnected
<1>3. k \notin gone
  BY <1>1, <1>2 DEF RegistryExact, IsGmPeer, InSession
<1>4. Peer(u, s, "gm") # NoPeer /\ Peer(u, s, "gm").session = s /\ Peer(u, s, "gm").role = "gm"
  BY PeerType, ConstantsAssumption DEF Peer, Roles
<1>5. peers' = [j \in Sockets |-> IF j = k THEN Peer(u, s, "gm")
                                  ELSE IF j \in gone THEN NoPeer ELSE peers[j]]
  BY <1>3 DEF JoinGm, Cleared
<1>6. ASSUME NEW t \in Sessions, t # s
      PROVE  ~ DropsGmEntry(t, gone)
  <2>1. SUFFICES ASSUME gmSockets[t] \in gone, IsGmPeer(gmSockets[t], t) PROVE FALSE
    BY DEF DropsGmEntry
  <2>2. gmSockets[t] = gmSockets[s] /\ gmSockets[t] # NoSocket
    BY <2>1 DEF Replaced, GmConnected
  <2>3. gmSockets[t] \in Sockets
    BY <2>2 DEF TypeOK
  <2>4. IsGmPeer(gmSockets[t], s)
    BY <2>2, <2>3 DEF RegistryExact
  <2> QED
    BY <1>6, <2>1, <2>4 DEF IsGmPeer, InSession
<1>7. gmSockets' = [t \in Sessions |-> IF t = s THEN k ELSE gmSockets[t]]
  BY <1>6 DEF JoinGm, GmMapAfter
<1>8. gmProtocols' = [t \in Sessions |-> IF t = s THEN p ELSE gmProtocols[t]]
  BY <1>6 DEF JoinGm, GmMapAfter
<1>9. ASSUME NEW t \in Sessions, NEW j \in Sockets
      PROVE  (gmSockets'[t] = j) <=> IsGmPeer(j, t)'
  <2>1. CASE j = k /\ t = s
    BY <2>1, <1>4, <1>5, <1>7 DEF IsGmPeer, InSession, IsPeer
  <2>2. CASE j = k /\ t # s
    BY <2>2, <1>1, <1>4, <1>5, <1>7 DEF RegistryExact, IsGmPeer, InSession, IsPeer
  <2>3. CASE j # k /\ t = s
    BY <2>3, <1>2, <1>5, <1>7 DEF RegistryExact, IsGmPeer, InSession, IsPeer
  <2>4. CASE j # k /\ t # s
    <3>1. j \in gone => ~ IsGmPeer(j, t)
      BY <2>4, <1>2 DEF RegistryExact, IsGmPeer, InSession
    <3> QED
      BY <2>4, <3>1, <1>5, <1>7 DEF RegistryExact, IsGmPeer, InSession, IsPeer
  <2> QED
    BY <2>1, <2>2, <2>3, <2>4
<1>10. ASSUME NEW t \in Sessions
       PROVE  GmConnected(t)' <=> gmProtocols'[t] # NoProtocol
  BY <1>7, <1>8, <1>10, ConstantsAssumption DEF GmConnected, RegistryExact
<1>11. ASSUME NEW j \in Sockets, IsPeer(j)'
       PROVE  conn'[j] = "open"
  BY <1>3, <1>5, <1>11 DEF JoinGm, Accepted, Cleared, IsPeer, RegistryExact, TypeOK
<1> QED
  BY <1>9, <1>10, <1>11 DEF RegistryExact

LEMMA AuthenticateRegistry ==
    ASSUME TypeOK, RegistryExact, Rebinds = FALSE, NEW k \in Sockets, Authenticate(k)
    PROVE  RegistryExact'
<1>1. CASE AuthInvalidPayload(k)
  BY <1>1, CloseRegistry DEF AuthInvalidPayload
<1>2. CASE AuthBadToken(k)
  BY <1>2, SameRegistry DEF AuthBadToken, registry
<1>3. CASE AuthBadTokenDrop(k)
  BY <1>3, CloseRegistry DEF AuthBadTokenDrop
<1>4. ASSUME NEW u \in Users, NEW s \in Sessions, NEW role \in Roles, NEW p \in Announced,
             AuthRefused(k, u, s, role, p)
      PROVE  RegistryExact'
  BY <1>4, CloseRegistry DEF AuthRefused
<1>5. ASSUME NEW u \in Users, NEW s \in Sessions, NEW role \in Roles, NEW p \in Announced,
             AuthFull(k, u, s, role, p)
      PROVE  RegistryExact'
  <2>1. {k} \cup Replaced(s, role) \in SUBSET Sockets
    BY DEF Replaced, GmConnected, TypeOK
  <2> QED
    BY <1>5, <2>1, CloseRegistry DEF AuthFull
<1>6. ASSUME NEW u \in Users, NEW s \in Sessions, JoinPlayer(k, u, s)
      PROVE  RegistryExact'
  <2>1. ~ IsPeer(k) /\ conn[k] = "open"
    BY <1>6 DEF JoinPlayer, Accepted, SameBinding, IsReauth, InSession, IsPeer
  <2>2. Peer(u, s, "player").role # "gm"
    BY DEF Peer
  <2>3. ASSUME NEW t \in Sessions, NEW j \in Sockets
        PROVE  IsGmPeer(j, t)' <=> IsGmPeer(j, t)
    BY <1>6, <2>1, <2>2 DEF JoinPlayer, IsGmPeer, InSession, IsPeer, TypeOK
  <2>4. ASSUME NEW j \in Sockets, IsPeer(j)'
        PROVE  conn'[j] = "open"
    BY <1>6, <2>1, <2>4 DEF JoinPlayer, IsPeer, RegistryExact, TypeOK
  <2> QED
    BY <1>6, <2>3, <2>4 DEF JoinPlayer, RegistryExact, GmConnected
<1>7. ASSUME NEW u \in Users, NEW s \in Sessions, ReauthPlayer(k, u, s)
      PROVE  RegistryExact'
  <2>1. peers' = peers
    BY <1>7 DEF ReauthPlayer, Accepted, SameBinding, IsReauth, InSession, IsPeer, Peer, TypeOK
  <2> QED
    BY <1>7, <2>1, SameRegistry DEF ReauthPlayer
<1>8. ASSUME NEW u \in Users, NEW s \in Sessions, NEW p \in Protocols, JoinGm(k, u, s, p)
      PROVE  RegistryExact'
  BY <1>8, JoinGmRegistry
<1>9. ASSUME NEW u \in Users, NEW s \in Sessions, NEW p \in Protocols, ReauthGm(k, u, s, p)
      PROVE  RegistryExact'
  <2>1. peers[k] = Peer(u, s, "gm") /\ IsPeer(k)
    BY <1>9 DEF ReauthGm, Accepted, SameBinding, IsReauth, InSession, IsPeer, Peer
  <2>2. peers' = peers
    BY <1>9, <2>1 DEF ReauthGm, TypeOK
  <2>3. gmSockets[s] = k
    BY <2>1 DEF RegistryExact, IsGmPeer, InSession, Peer
  <2>4. gmSockets' = gmSockets
    BY <1>9, <2>3 DEF ReauthGm, TypeOK
  <2>5. ASSUME NEW t \in Sessions
        PROVE  GmConnected(t) <=> gmProtocols'[t] # NoProtocol
    BY <1>9, <2>3, <2>5, ConstantsAssumption DEF ReauthGm, RegistryExact, GmConnected, TypeOK
  <2> QED
    BY <1>9, <2>2, <2>4, <2>5
       DEF ReauthGm, RegistryExact, IsGmPeer, InSession, IsPeer, GmConnected
<1> QED
  BY <1>1, <1>2, <1>3, <1>4, <1>5, <1>6, <1>7, <1>8, <1>9 DEF Authenticate

LEMMA PingRegistry ==
    ASSUME TypeOK, RegistryExact, NEW s \in Sessions, Ping(s)
    PROVE  RegistryExact'
<1>1. CASE PingStart(s)
  BY <1>1, SameRegistry DEF PingStart, registry
<1>2. CASE PingGone(s)
  \* The registry is exact, so no entry names a socket that is gone.
  BY <1>2 DEF PingGone, Listed, GmConnected, RegistryExact, IsGmPeer, InSession, TypeOK
<1>3. ASSUME NEW k \in Sockets, PingAck(s, k) \/ PingStrike(s, k)
      PROVE  RegistryExact'
  BY <1>3, SameRegistry DEF PingAck, PingStrike
<1>4. ASSUME NEW k \in Sockets, PingEvict(s, k)
      PROVE  RegistryExact'
  BY <1>4, CloseRegistry DEF PingEvict
<1> QED
  BY <1>1, <1>2, <1>3, <1>4 DEF Ping, PingGmSocket

LEMMA RegistryStep ==
    ASSUME TypeOK, RegistryExact, Rebinds = FALSE, [Next]_vars
    PROVE  RegistryExact'
<1>1. CASE UNCHANGED vars
  BY <1>1, SameRegistry DEF vars, registry
<1>2. ASSUME NEW k \in Sockets, Connect(k)
      PROVE  RegistryExact'
  BY <1>2 DEF Connect, registry, RegistryExact, IsGmPeer, InSession, IsPeer, GmConnected, TypeOK
<1>3. ASSUME NEW k \in Sockets, Disconnect(k)
      PROVE  RegistryExact'
  BY <1>3, CloseRegistry DEF Disconnect
<1>4. CASE ServerRestart
  BY <1>4, ConstantsAssumption
     DEF ServerRestart, RegistryExact, IsGmPeer, InSession, IsPeer, GmConnected
<1>5. ASSUME NEW s \in Sessions, DeleteGame(s) \/ Expire(s)
      PROVE  RegistryExact'
  BY <1>5, SameRegistry DEF DeleteGame, Expire, registry
<1>6. ASSUME NEW u \in Users, NEW s \in Sessions, JoinGame(u, s)
      PROVE  RegistryExact'
  BY <1>6, SameRegistry DEF JoinGame, registry
<1>7. CASE RunCleanup
  BY <1>7, SameRegistry DEF RunCleanup, registry
<1> QED
  BY <1>1, <1>2, <1>3, <1>4, <1>5, <1>6, <1>7, AuthenticateRegistry, PingRegistry DEF Next

\* As long as clients re-authenticate only as they were, "is there a GM, and is
\* it this socket" has the right answer in every reachable state
\* (signalingService.js:40-47, 82-102, authenticate.js:86-119).
THEOREM RegistryIsExact ==
    ASSUME Rebinds = FALSE
    PROVE  Spec => []RegistryExact
<1>1. Init => RegistryExact
  BY ConstantsAssumption DEF Init, RegistryExact, IsGmPeer, InSession, IsPeer, GmConnected
<1>2. TypeOK /\ RegistryExact /\ [Next]_vars => RegistryExact'
  BY RegistryStep
<1> QED
  BY <1>1, <1>2, TypeCorrect, PTL DEF Spec

-----------------------------------------------------------------------------
(* A session never holds more sockets than its limit.                      *)

\* SessionCapacity with what counting needs: the sets counted are finite.
CapacityInv ==
    \A s \in Sessions : IsFiniteSet(PeersOf(s)) /\ Cardinality(PeersOf(s)) <= MaxPeers

LEMMA SubsetWithin ==
    ASSUME NEW S, NEW T \in SUBSET S, IsFiniteSet(S), Cardinality(S) <= MaxPeers
    PROVE  IsFiniteSet(T) /\ Cardinality(T) <= MaxPeers
<1>1. IsFiniteSet(T) /\ Cardinality(T) <= Cardinality(S)
  BY FS_Subset
<1>2. Cardinality(S) \in Nat /\ Cardinality(T) \in Nat
  BY <1>1, FS_CardinalityType
<1> QED
  BY <1>1, <1>2, ConstantsAssumption

\* A step after which every session has at most the sockets it had.
LEMMA ShrinkCapacity ==
    ASSUME CapacityInv, \A s \in Sessions : PeersOf(s)' \subseteq PeersOf(s)
    PROVE  CapacityInv'
BY SubsetWithin DEF CapacityInv

LEMMA ClosePeers ==
    ASSUME NEW gone, CloseSockets(gone)
    PROVE  \A s \in Sessions : PeersOf(s)' \subseteq PeersOf(s)
BY DEF CloseSockets, Cleared, PeersOf, InSession, IsPeer

LEMMA SamePeers ==
    ASSUME UNCHANGED peers
    PROVE  \A s \in Sessions : PeersOf(s)' \subseteq PeersOf(s)
BY DEF PeersOf, InSession, IsPeer

\* One socket more where the check found room for one.
LEMMA OneMoreFits ==
    ASSUME NEW S, NEW T, NEW k, IsFiniteSet(S), ~ (Cardinality(S) >= MaxPeers),
           T \subseteq S \cup {k}
    PROVE  IsFiniteSet(T) /\ Cardinality(T) <= MaxPeers
<1>1. IsFiniteSet(S \cup {k}) /\ Cardinality(S) \in Nat
  BY FS_AddElement, FS_CardinalityType
<1>2. Cardinality(S \cup {k}) <= Cardinality(S) + 1
  BY <1>1, FS_AddElement
<1>3. Cardinality(S \cup {k}) \in Nat
  BY <1>1, FS_CardinalityType
<1>4. Cardinality(S \cup {k}) <= MaxPeers
  BY <1>1, <1>2, <1>3, ConstantsAssumption
<1> QED
  BY <1>1, <1>4, SubsetWithin

LEMMA JoinCapacity ==
    ASSUME CapacityInv, NEW k \in Sockets, NEW s \in Sessions, NEW gone,
           ~ IsFull(s, gone), NEW rec, rec.session = s,
           peers' = [Cleared(peers, gone, NoPeer) EXCEPT ![k] = rec]
    PROVE  CapacityInv'
<1>1. PeersOf(s)' \subseteq (PeersOf(s) \ gone) \cup {k}
  BY DEF PeersOf, InSession, IsPeer, Cleared
<1>2. IsFiniteSet(PeersOf(s) \ gone)
  BY SubsetWithin DEF CapacityInv
<1>3. IsFiniteSet(PeersOf(s)') /\ Cardinality(PeersOf(s)') <= MaxPeers
  BY <1>1, <1>2, OneMoreFits DEF IsFull
<1>4. ASSUME NEW t \in Sessions, t # s
      PROVE  IsFiniteSet(PeersOf(t)') /\ Cardinality(PeersOf(t)') <= MaxPeers
  <2>1. PeersOf(t)' \subseteq PeersOf(t)
    BY <1>4 DEF PeersOf, InSession, IsPeer, Cleared
  <2> QED
    BY <2>1, SubsetWithin DEF CapacityInv
<1> QED
  BY <1>3, <1>4 DEF CapacityInv

LEMMA AuthenticateCapacity ==
    ASSUME TypeOK, CapacityInv, NEW k \in Sockets, Authenticate(k)
    PROVE  CapacityInv'
<1>1. CASE AuthInvalidPayload(k) \/ AuthBadTokenDrop(k)
  BY <1>1, ClosePeers, ShrinkCapacity DEF AuthInvalidPayload, AuthBadTokenDrop
<1>2. CASE AuthBadToken(k)
  BY <1>2, SamePeers, ShrinkCapacity DEF AuthBadToken, registry
<1>3. ASSUME NEW u \in Users, NEW s \in Sessions, NEW role \in Roles, NEW p \in Announced,
             AuthRefused(k, u, s, role, p) \/ AuthFull(k, u, s, role, p)
      PROVE  CapacityInv'
  BY <1>3, ClosePeers, ShrinkCapacity DEF AuthRefused, AuthFull
<1>4. ASSUME NEW u \in Users, NEW s \in Sessions, JoinPlayer(k, u, s)
      PROVE  CapacityInv'
  <2>1. peers' = [Cleared(peers, {}, NoPeer) EXCEPT ![k] = Peer(u, s, "player")]
    BY <1>4 DEF JoinPlayer, Cleared, TypeOK
  <2>2. ~ IsFull(s, {}) /\ Peer(u, s, "player").session = s
    BY <1>4 DEF JoinPlayer, Peer
  <2> QED
    BY <2>1, <2>2, JoinCapacity
<1>5. ASSUME NEW u \in Users, NEW s \in Sessions, NEW p \in Protocols, JoinGm(k, u, s, p)
      PROVE  CapacityInv'
  BY <1>5, JoinCapacity DEF JoinGm, Peer
<1>6. ASSUME NEW u \in Users, NEW s \in Sessions, NEW p \in Protocols, ReauthGm(k, u, s, p)
      PROVE  CapacityInv'
  \* The socket is counted in the session already.
  <2>1. ASSUME NEW t \in Sessions
        PROVE  PeersOf(t)' \subseteq PeersOf(t)
    BY <1>6, <2>1 DEF ReauthGm, IsReauth, PeersOf, InSession, IsPeer, Peer, TypeOK
  <2> QED
    BY <2>1, ShrinkCapacity
<1>7. ASSUME NEW u \in Users, NEW s \in Sessions, ReauthPlayer(k, u, s)
      PROVE  CapacityInv'
  <2>1. ASSUME NEW t \in Sessions
        PROVE  PeersOf(t)' \subseteq PeersOf(t)
    BY <1>7, <2>1 DEF ReauthPlayer, IsReauth, PeersOf, InSession, IsPeer, Peer, TypeOK
  <2> QED
    BY <2>1, ShrinkCapacity
<1> QED
  BY <1>1, <1>2, <1>3, <1>4, <1>5, <1>6, <1>7 DEF Authenticate

LEMMA CapacityInit == Init => CapacityInv
<1> SUFFICES ASSUME Init, NEW s \in Sessions
             PROVE  IsFiniteSet(PeersOf(s)) /\ Cardinality(PeersOf(s)) <= MaxPeers
  BY DEF CapacityInv
<1>1. PeersOf(s) = {}
  BY DEF Init, PeersOf, InSession, IsPeer
<1> QED
  BY <1>1, FS_EmptySet, ConstantsAssumption

LEMMA CapacityStep ==
    ASSUME TypeOK, CapacityInv, [Next]_vars
    PROVE  CapacityInv'
<1>1. CASE UNCHANGED vars
  BY <1>1, SamePeers, ShrinkCapacity DEF vars, registry
<1>2. ASSUME NEW k \in Sockets, Connect(k) \/ Disconnect(k)
      PROVE  CapacityInv'
  BY <1>2, SamePeers, ClosePeers, ShrinkCapacity DEF Connect, Disconnect, registry
<1>3. CASE ServerRestart
  <2>1. ASSUME NEW s \in Sessions
        PROVE  PeersOf(s)' \subseteq PeersOf(s)
    BY <1>3 DEF ServerRestart, PeersOf, InSession, IsPeer
  <2> QED
    BY <2>1, ShrinkCapacity
<1>4. ASSUME NEW s \in Sessions, Ping(s)
      PROVE  CapacityInv'
  <2>1. CASE PingStart(s) \/ PingGone(s)
    BY <2>1, SamePeers, ShrinkCapacity DEF PingStart, PingGone, registry
  <2>2. ASSUME NEW k \in Sockets, PingAck(s, k) \/ PingStrike(s, k) \/ PingEvict(s, k)
        PROVE  CapacityInv'
    BY <2>2, SamePeers, ClosePeers, ShrinkCapacity DEF PingAck, PingStrike, PingEvict
  <2> QED
    BY <1>4, <2>1, <2>2 DEF Ping, PingGmSocket
<1>5. ASSUME NEW u \in Users, NEW s \in Sessions, JoinGame(u, s)
      PROVE  CapacityInv'
  BY <1>5, SamePeers, ShrinkCapacity DEF JoinGame, registry
<1>6. ASSUME NEW s \in Sessions, DeleteGame(s) \/ Expire(s)
      PROVE  CapacityInv'
  BY <1>6, SamePeers, ShrinkCapacity DEF DeleteGame, Expire, registry
<1>7. CASE RunCleanup
  BY <1>7, SamePeers, ShrinkCapacity DEF RunCleanup, registry
<1> QED
  BY <1>1, <1>2, <1>3, <1>4, <1>5, <1>6, <1>7, AuthenticateCapacity DEF Next

\* No history of joins, replacements and re-authentications overfills a session,
\* whatever clients do with a socket they registered (authenticate.js:86-104).
THEOREM SessionNeverOverfull == Spec => []SessionCapacity
<1>1. Init => CapacityInv
  BY CapacityInit
<1>2. TypeOK /\ CapacityInv /\ [Next]_vars => CapacityInv'
  BY CapacityStep
<1>3. CapacityInv => SessionCapacity
  BY DEF CapacityInv, SessionCapacity
<1>4. Spec => []CapacityInv
  BY <1>1, <1>2, TypeCorrect, PTL DEF Spec
<1> QED
  BY <1>3, <1>4, PTL

-----------------------------------------------------------------------------
(* The owner's new connection is not refused after the old one is evicted. *)

\* The GM a new one replaces is counted in the session, so taking it out makes
\* room for one.
LEMMA ReplacementMakesRoom ==
    ASSUME TypeOK, RegistryExact, CapacityInv, NEW s \in Sessions, GmConnected(s)
    PROVE  ~ IsFull(s, Replaced(s, "gm"))
<1> DEFINE g == gmSockets[s]
<1>1. g \in PeersOf(s) /\ Replaced(s, "gm") = {g}
  BY DEF GmConnected, Replaced, RegistryExact, IsGmPeer, PeersOf, TypeOK
<1>2. Cardinality(PeersOf(s) \ {g}) = Cardinality(PeersOf(s)) - 1
  BY <1>1, FS_RemoveElement DEF CapacityInv
<1>3. Cardinality(PeersOf(s)) \in Nat
  BY FS_CardinalityType DEF CapacityInv
<1>4. Cardinality(PeersOf(s)) <= MaxPeers
  BY DEF CapacityInv
<1>5. ~ (Cardinality(PeersOf(s) \ {g}) >= MaxPeers)
  BY <1>2, <1>3, <1>4, ConstantsAssumption
<1> QED
  BY <1>1, <1>5 DEF IsFull

\* authenticate.js:94-103: when the full check refuses a GM, no GM was evicted
\* for it.
THEOREM ReplacementIsNotRefused ==
    ASSUME Rebinds = FALSE
    PROVE  Spec => ReplacementNotRefused
<1>1. Init => CapacityInv
  BY CapacityInit
<1>2. TypeOK /\ CapacityInv /\ [Next]_vars => CapacityInv'
  BY CapacityStep
<1>3. TypeOK /\ RegistryExact /\ CapacityInv /\ [Next]_vars
      => [\A k \in Sockets, u \in Users, s \in Sessions, p \in Protocols :
             AuthFull(k, u, s, "gm", p) => ~ GmConnected(s)]_vars
  BY ReplacementMakesRoom DEF AuthFull
<1> QED
  BY <1>1, <1>2, <1>3, TypeCorrect, RegistryIsExact, PTL DEF Spec, ReplacementNotRefused

-----------------------------------------------------------------------------
(* A player knows the GM or has been told to ask.                          *)

\* A registered socket hears its session's room.
InRoom == \A k \in Sockets, s \in Sessions : InSession(k, s) => s \in rooms[k]

InformedInv == InRoom /\ PlayersInformed

\* Whoever is left in the room hears that its GM went.
LEMMA CloseInformed ==
    ASSUME TypeOK, RegistryExact, InformedInv, NEW gone, CloseSockets(gone)
    PROVE  InformedInv'
<1>1. InRoom'
  BY DEF InformedInv, InRoom, CloseSockets, Cleared, InSession, IsPeer
<1>2. ASSUME NEW k \in Sockets, NEW s \in Sessions, IsPlayer(k, s)'
      PROVE  notified'[k] \/ knownGm'[k] = gmSockets'[s]
  <2>1. k \notin gone /\ IsPlayer(k, s) /\ knownGm'[k] = knownGm[k] /\ s \in rooms[k]
    BY <1>2 DEF CloseSockets, Cleared, IsPlayer, InSession, IsPeer, InformedInv, InRoom
  <2>2. notified[k] => notified'[k]
    BY <2>1 DEF CloseSockets, NotifiedAfter
  <2>3. CASE knownGm[k] = gmSockets[s] /\ DropsGmEntry(s, gone)
    <3>1. gmSockets[s] \in gone /\ HearsLeave(k, gmSockets[s])
      BY <2>1, <2>3 DEF DropsGmEntry, IsGmPeer, InSession, HearsLeave
    <3> QED
      BY <2>1, <2>3, <3>1 DEF CloseSockets, NotifiedAfter
  <2>4. CASE knownGm[k] = gmSockets[s] /\ ~ DropsGmEntry(s, gone)
    BY <2>1, <2>4 DEF CloseSockets, GmMapAfter
  <2> QED
    BY <2>1, <2>2, <2>3, <2>4 DEF InformedInv, PlayersInformed
<1> QED
  BY <1>1, <1>2 DEF InformedInv, PlayersInformed

LEMMA SameInformed ==
    ASSUME InformedInv, UNCHANGED <<rooms, peers, gmSockets, knownGm, notified>>
    PROVE  InformedInv'
BY DEF InformedInv, InRoom, PlayersInformed, IsPlayer, InSession, IsPeer

LEMMA JoinGmInformed ==
    ASSUME TypeOK, RegistryExact, InformedInv, Rebinds = FALSE,
           NEW k \in Sockets, NEW u \in Users, NEW s \in Sessions, NEW p \in Protocols,
           JoinGm(k, u, s, p)
    PROVE  InformedInv'
<1> DEFINE gone == Replaced(s, "gm")
<1>1. ~ IsPeer(k)
  BY DEF JoinGm, Accepted, SameBinding, IsReauth, InSession, IsPeer
<1>2. \A j \in Sockets : j \in gone => IsGmPeer(j, s)
  BY DEF Replaced, GmConnected, RegistryExact
<1>3. k \notin gone
  BY <1>1, <1>2 DEF IsGmPeer, InSession
<1>4. Peer(u, s, "gm").session = s /\ Peer(u, s, "gm").role = "gm"
  BY DEF Peer
<1>5. \A j \in Sockets \ {k} :
         /\ peers'[j] = IF j \in gone THEN NoPeer ELSE peers[j]
         /\ rooms'[j] = IF j \in gone THEN {} ELSE rooms[j]
         /\ knownGm'[j] = IF j \in gone THEN NoSocket ELSE knownGm[j]
  BY DEF JoinGm, Cleared
<1>6. peers'[k] = Peer(u, s, "gm") /\ s \in rooms'[k]
  BY <1>3 DEF JoinGm, Cleared
<1>7. InRoom'
  BY <1>4, <1>5, <1>6 DEF InformedInv, InRoom, InSession, IsPeer
<1>8. ASSUME NEW j \in Sockets, NEW t \in Sessions, IsPlayer(j, t)'
      PROVE  notified'[j] \/ knownGm'[j] = gmSockets'[t]
  <2>1. j # k
    BY <1>4, <1>6, <1>8 DEF IsPlayer
  <2>2. j \notin gone /\ IsPlayer(j, t) /\ knownGm'[j] = knownGm[j] /\ t \in rooms[j]
    BY <1>5, <1>8, <2>1 DEF IsPlayer, InSession, IsPeer, InformedInv, InRoom
  <2>3. CASE t = s
    BY <2>1, <2>2, <2>3 DEF JoinGm, NotifiedOfGm
  <2>4. CASE t # s
    <3>1. ~ DropsGmEntry(t, gone)
      <4>1. SUFFICES ASSUME gmSockets[t] \in gone, IsGmPeer(gmSockets[t], t) PROVE FALSE
        BY DEF DropsGmEntry
      <4>2. gmSockets[t] \in Sockets
        BY <4>1 DEF Replaced, GmConnected, TypeOK
      <4> QED
        BY <1>2, <2>4, <4>1, <4>2 DEF IsGmPeer, InSession
    <3>2. gmSockets'[t] = gmSockets[t]
      BY <2>4, <3>1 DEF JoinGm, GmMapAfter
    <3>3. notified[j] => notified'[j]
      BY <2>2 DEF JoinGm, NotifiedOfGm, NotifiedAfter
    <3> QED
      BY <2>2, <3>2, <3>3 DEF InformedInv, PlayersInformed
  <2> QED
    BY <2>3, <2>4
<1> QED
  BY <1>7, <1>8 DEF InformedInv, PlayersInformed

LEMMA AuthenticateInformed ==
    ASSUME TypeOK, RegistryExact, InformedInv, Rebinds = FALSE,
           NEW k \in Sockets, Authenticate(k)
    PROVE  InformedInv'
<1>1. CASE AuthInvalidPayload(k) \/ AuthBadTokenDrop(k)
  BY <1>1, CloseInformed DEF AuthInvalidPayload, AuthBadTokenDrop
<1>2. CASE AuthBadToken(k)
  BY <1>2, SameInformed DEF AuthBadToken, registry, told
<1>3. ASSUME NEW u \in Users, NEW s \in Sessions, NEW role \in Roles, NEW p \in Announced,
             AuthRefused(k, u, s, role, p) \/ AuthFull(k, u, s, role, p)
      PROVE  InformedInv'
  BY <1>3, CloseInformed DEF AuthRefused, AuthFull
<1>4. ASSUME NEW u \in Users, NEW s \in Sessions, JoinPlayer(k, u, s)
      PROVE  InformedInv'
  <2>1. Peer(u, s, "player").session = s
    BY DEF Peer
  <2>2. InRoom'
    BY <1>4, <2>1 DEF JoinPlayer, InformedInv, InRoom, InSession, IsPeer, TypeOK
  <2>3. PlayersInformed'
    BY <1>4, <2>1 DEF JoinPlayer, InformedInv, PlayersInformed, IsPlayer, InSession, IsPeer, TypeOK
  <2> QED
    BY <2>2, <2>3 DEF InformedInv
<1>5. ASSUME NEW u \in Users, NEW s \in Sessions, ReauthPlayer(k, u, s)
      PROVE  InformedInv'
  <2>1. Peer(u, s, "player").session = s
    BY DEF Peer
  <2>2. InRoom'
    BY <1>5, <2>1 DEF ReauthPlayer, InformedInv, InRoom, InSession, IsPeer, TypeOK
  <2>3. PlayersInformed'
    BY <1>5, <2>1 DEF ReauthPlayer, InformedInv, PlayersInformed, IsPlayer, InSession, IsPeer, TypeOK
  <2> QED
    BY <2>2, <2>3 DEF InformedInv
<1>6. ASSUME NEW u \in Users, NEW s \in Sessions, NEW p \in Protocols, JoinGm(k, u, s, p)
      PROVE  InformedInv'
  BY <1>6, JoinGmInformed
<1>7. ASSUME NEW u \in Users, NEW s \in Sessions, NEW p \in Protocols, ReauthGm(k, u, s, p)
      PROVE  InformedInv'
  <2>1. peers[k] = Peer(u, s, "gm") /\ IsPeer(k)
    BY <1>7 DEF ReauthGm, Accepted, SameBinding, IsReauth, InSession, IsPeer, Peer
  <2>2. gmSockets[s] = k /\ s \in rooms[k]
    BY <2>1 DEF RegistryExact, IsGmPeer, InSession, Peer, InformedInv, InRoom
  <2>3. UNCHANGED <<rooms, peers, gmSockets, knownGm, notified>>
    BY <1>7, <2>1, <2>2 DEF ReauthGm, told, TypeOK
  <2> QED
    BY <2>3, SameInformed
<1> QED
  BY <1>1, <1>2, <1>3, <1>4, <1>5, <1>6, <1>7 DEF Authenticate

LEMMA InformedStep ==
    ASSUME TypeOK, RegistryExact, InformedInv, Rebinds = FALSE, [Next]_vars
    PROVE  InformedInv'
<1>1. CASE UNCHANGED vars
  BY <1>1, SameInformed DEF vars, registry, told
<1>2. ASSUME NEW k \in Sockets, Connect(k) \/ Disconnect(k)
      PROVE  InformedInv'
  BY <1>2, SameInformed, CloseInformed DEF Connect, Disconnect, registry, told
<1>3. CASE ServerRestart
  BY <1>3 DEF ServerRestart, InformedInv, InRoom, PlayersInformed, IsPlayer, InSession, IsPeer
<1>4. ASSUME NEW s \in Sessions, Ping(s)
      PROVE  InformedInv'
  <2>1. CASE PingStart(s)
    BY <2>1, SameInformed DEF PingStart, registry, told
  <2>2. CASE PingGone(s)
    BY <2>2 DEF PingGone, Listed, GmConnected, RegistryExact, IsGmPeer, InSession, TypeOK
  <2>3. ASSUME NEW k \in Sockets, PingAck(s, k) \/ PingStrike(s, k) \/ PingEvict(s, k)
        PROVE  InformedInv'
    BY <2>3, SameInformed, CloseInformed DEF PingAck, PingStrike, PingEvict, told
  <2> QED
    BY <1>4, <2>1, <2>2, <2>3 DEF Ping, PingGmSocket
<1>5. ASSUME NEW s \in Sessions, DeleteGame(s) \/ Expire(s)
      PROVE  InformedInv'
  BY <1>5, SameInformed DEF DeleteGame, Expire, registry, told
<1>6. ASSUME NEW u \in Users, NEW s \in Sessions, JoinGame(u, s)
      PROVE  InformedInv'
  BY <1>6, SameInformed DEF JoinGame, registry, told
<1>7. CASE RunCleanup
  BY <1>7, SameInformed DEF RunCleanup, registry, told
<1> QED
  BY <1>1, <1>2, <1>3, <1>4, <1>5, <1>6, <1>7, AuthenticateInformed DEF Next

\* A player's gmPeerId is its session's GM, or news that makes it ask again is on
\* its way: no order of GM connections, evictions and re-authentications leaves a
\* player waiting on the wrong socket (authenticate.js:126-147,
\* signalingService.js:59-70).
THEOREM PlayersAreInformed ==
    ASSUME Rebinds = FALSE
    PROVE  Spec => []PlayersInformed
<1>1. Init => InformedInv
  BY DEF Init, InformedInv, InRoom, PlayersInformed, IsPlayer, InSession, IsPeer
<1>2. TypeOK /\ RegistryExact /\ InformedInv /\ [Next]_vars => InformedInv'
  BY InformedStep
<1>3. InformedInv => PlayersInformed
  BY DEF InformedInv
<1>4. Spec => []InformedInv
  BY <1>1, <1>2, TypeCorrect, RegistryIsExact, PTL DEF Spec
<1> QED
  BY <1>3, <1>4, PTL

-----------------------------------------------------------------------------
\* The cleanup never deletes a game whose GM is connected: what it reads are the
\* GM entries, and every connected GM has its session's (cleanupService.js:26-50).
THEOREM CleanupSparesLiveGames ==
    ASSUME Rebinds = FALSE
    PROVE  Spec => CleanupSparesLiveGame
<1>1. TypeOK /\ RegistryExact /\ [Next]_vars
        => [RunCleanup => \A s \in games : (\E k \in Sockets : conn[k] = "open" /\ IsGmPeer(k, s))
                                           => s \in games']_vars
  <2> SUFFICES ASSUME TypeOK, RegistryExact, RunCleanup, NEW s \in games,
                      NEW k \in Sockets, IsGmPeer(k, s)
               PROVE  s \in games'
    OBVIOUS
  <2>1. s \in Sessions
    BY DEF TypeOK
  <2>2. s \in GmSessionIds
    BY <2>1, ConstantsAssumption DEF RegistryExact, GmSessionIds, GmConnected
  <2> QED BY <2>2 DEF RunCleanup, Deleted
<1> QED BY <1>1, TypeCorrect, RegistryIsExact, PTL DEF Spec, CleanupSparesLiveGame

-----------------------------------------------------------------------------
(* Evictions by pings.  A ping in flight is a cell: its socket and its     *)
(* number among those sent to that socket for the session.                 *)

InFlightOf(f) == {w \in Sockets \X (1 .. MaxPings) : w[2] <= f[w[1]]}

\* Those sent to others than the GM, whose timeouts count against it all the same.
StrayOf(f, g) == {w \in InFlightOf(f) : w[1] # g}

Missed(s) == IF GmConnected(s) THEN misses[gmSockets[s]] ELSE 0

\* A session's strikes and the timeouts that can still come from strays are what
\* its GM missed and what was in flight when it came.
StrikesInv(s) ==
    /\ IsFiniteSet(InFlightOf(pings[s]))
    /\ Cardinality(InFlightOf(pings[s])) <= MaxPings
    /\ gmPingStrikes[s] + Cardinality(StrayOf(pings[s], gmSockets[s])) <= MaxPings + Missed(s)
    /\ \A k \in Sockets : pings[s][k] > 0 =>
          conn[k] # "new" /\ (conn[k] = "open" => gmSockets[s] = k)

PingInv == \A s \in Sessions : StrikesInv(s)

LEMMA StrayBound ==
    ASSUME NEW f, NEW g, IsFiniteSet(InFlightOf(f)), Cardinality(InFlightOf(f)) <= MaxPings
    PROVE  /\ IsFiniteSet(StrayOf(f, g))
           /\ Cardinality(StrayOf(f, g)) \in 0 .. MaxPings
<1>1. IsFiniteSet(StrayOf(f, g)) /\ Cardinality(StrayOf(f, g)) <= Cardinality(InFlightOf(f))
  BY FS_Subset DEF StrayOf
<1>2. Cardinality(StrayOf(f, g)) \in Nat /\ Cardinality(InFlightOf(f)) \in Nat
  BY <1>1, FS_CardinalityType
<1> QED BY <1>1, <1>2, ConstantsAssumption

LEMMA MissedType ==
    ASSUME TypeOK, NEW s \in Sessions
    PROVE  Missed(s) \in 0 .. MaxStrikes
BY ConstantsAssumption DEF TypeOK, Missed, GmConnected

\* A ping ends.
LEMMA OneLess ==
    ASSUME NEW f \in [Sockets -> 0 .. MaxPings], NEW k \in Sockets, f[k] > 0, NEW g,
           IsFiniteSet(InFlightOf(f)), Cardinality(InFlightOf(f)) <= MaxPings,
           NEW h, h = [f EXCEPT ![k] = @ - 1]
    PROVE  /\ IsFiniteSet(InFlightOf(h)) /\ Cardinality(InFlightOf(h)) <= MaxPings
           /\ Cardinality(StrayOf(h, g)) = IF k = g THEN Cardinality(StrayOf(f, g))
                                           ELSE Cardinality(StrayOf(f, g)) - 1
<1> DEFINE old == <<k, f[k]>>
<1>1. f[k] \in 1 .. MaxPings /\ old \in InFlightOf(f)
  BY ConstantsAssumption DEF InFlightOf
<1>2. InFlightOf(h) = InFlightOf(f) \ {old}
  <2>1. ASSUME NEW w \in Sockets \X (1 .. MaxPings)
        PROVE  w[2] <= h[w[1]] <=> w[2] <= f[w[1]] /\ w # old
    <3>1. CASE w[1] # k
      BY <3>1
    <3>2. CASE w[1] = k
      <4>1. w = <<k, w[2]>> /\ w[2] \in 1 .. MaxPings /\ h[k] = f[k] - 1
        BY <3>2
      <4>2. w # old <=> w[2] # f[k]
        BY <4>1
      <4> QED BY <1>1, <3>2, <4>1, <4>2, ConstantsAssumption
    <3> QED BY <3>1, <3>2
  <2> QED BY <2>1 DEF InFlightOf
<1>3. StrayOf(h, g) = IF k = g THEN StrayOf(f, g) ELSE StrayOf(f, g) \ {old}
  <2>1. old[1] = k
    OBVIOUS
  <2> HIDE DEF old
  <2>2. CASE k = g
    BY <1>2, <2>1, <2>2 DEF StrayOf
  <2>3. CASE k # g
    BY <1>2, <2>3 DEF StrayOf
  <2> QED BY <2>2, <2>3
<1>4. k # g => old \in StrayOf(f, g)
  BY <1>1 DEF StrayOf
<1>5. IsFiniteSet(StrayOf(f, g))
  BY StrayBound
<1> HIDE DEF old
<1>6. Cardinality(StrayOf(f, g) \ {old})
        = IF old \in StrayOf(f, g) THEN Cardinality(StrayOf(f, g)) - 1
                                   ELSE Cardinality(StrayOf(f, g))
  BY <1>5, FS_RemoveElement
<1>7. IsFiniteSet(InFlightOf(h)) /\ Cardinality(InFlightOf(h)) <= Cardinality(InFlightOf(f))
  BY <1>2, FS_Subset
<1>8. Cardinality(InFlightOf(h)) <= MaxPings
  BY <1>7, FS_CardinalityType, ConstantsAssumption
<1> QED BY <1>3, <1>4, <1>6, <1>7, <1>8

\* A ping is sent to the GM.
LEMMA OneMore ==
    ASSUME NEW f \in [Sockets -> 0 .. MaxPings], NEW k \in Sockets,
           IsFiniteSet(InFlightOf(f)), Cardinality(InFlightOf(f)) < MaxPings,
           NEW h, h = [f EXCEPT ![k] = @ + 1]
    PROVE  /\ IsFiniteSet(InFlightOf(h)) /\ Cardinality(InFlightOf(h)) <= MaxPings
           /\ StrayOf(h, k) = StrayOf(f, k)
<1> DEFINE new == <<k, f[k] + 1>>
<1>1. InFlightOf(h) \subseteq InFlightOf(f) \cup {new}
  <2>1. ASSUME NEW w \in Sockets \X (1 .. MaxPings), w[2] <= h[w[1]], w # new
        PROVE  w[2] <= f[w[1]]
    <3>1. CASE w[1] # k
      BY <2>1, <3>1
    <3>2. CASE w[1] = k
      <4>1. w = <<k, w[2]>> /\ w[2] \in 1 .. MaxPings /\ h[k] = f[k] + 1 /\ f[k] \in 0 .. MaxPings
        BY <3>2
      <4>2. w[2] # f[k] + 1 /\ w[2] <= f[k] + 1
        BY <2>1, <3>2, <4>1
      <4> QED BY <3>2, <4>1, <4>2, ConstantsAssumption
    <3> QED BY <3>1, <3>2
  <2> QED BY <2>1 DEF InFlightOf
<1>2. StrayOf(h, k) = StrayOf(f, k)
  BY DEF StrayOf, InFlightOf
<1> HIDE DEF new
<1>3. IsFiniteSet(InFlightOf(f) \cup {new})
      /\ Cardinality(InFlightOf(f) \cup {new}) <= Cardinality(InFlightOf(f)) + 1
  <2>1. Cardinality(InFlightOf(f)) \in Nat
    BY FS_CardinalityType
  <2> QED BY <2>1, FS_AddElement
<1>4. IsFiniteSet(InFlightOf(h))
      /\ Cardinality(InFlightOf(h)) <= Cardinality(InFlightOf(f) \cup {new})
  BY <1>1, <1>3, FS_Subset
<1>5. Cardinality(InFlightOf(h)) <= MaxPings
  <2>1. /\ Cardinality(InFlightOf(f)) \in Nat
        /\ Cardinality(InFlightOf(f) \cup {new}) \in Nat
        /\ Cardinality(InFlightOf(h)) \in Nat
    BY <1>3, <1>4, FS_CardinalityType
  <2> QED BY <1>3, <1>4, <2>1, ConstantsAssumption
<1> QED BY <1>2, <1>4, <1>5

\* A step that leaves a session's pings, strikes, GM and connections as they are.
LEMMA SameStrikes ==
    ASSUME PingInv, UNCHANGED <<conn, gmSockets, gmPingStrikes, pings, misses>>
    PROVE  PingInv'
BY DEF PingInv, StrikesInv, Missed, GmConnected, InFlightOf, StrayOf

\* Nothing is in flight to a GM's predecessors but what was in flight at all.
LEMMA FreshGm ==
    ASSUME TypeOK, NEW s \in Sessions, StrikesInv(s), NEW g
    PROVE  /\ 0 + Cardinality(StrayOf(pings[s], g)) \in 0 .. MaxPings
           /\ ~ GmConnected(s) =>
                gmPingStrikes[s] + Cardinality(StrayOf(pings[s], g)) <= MaxPings
<1>1. Cardinality(StrayOf(pings[s], g)) \in 0 .. MaxPings
  BY StrayBound DEF StrikesInv
<1>2. ASSUME ~ GmConnected(s)
      PROVE  gmPingStrikes[s] + Cardinality(StrayOf(pings[s], g)) <= MaxPings
  <2>1. StrayOf(pings[s], gmSockets[s]) = InFlightOf(pings[s])
    BY <1>2, ConstantsAssumption DEF GmConnected, StrayOf, InFlightOf
  <2>2. gmPingStrikes[s] + Cardinality(InFlightOf(pings[s])) <= MaxPings + 0
    BY <1>2, <2>1 DEF StrikesInv, Missed
  <2>3. Cardinality(StrayOf(pings[s], g)) <= Cardinality(InFlightOf(pings[s]))
        /\ Cardinality(InFlightOf(pings[s])) \in Nat
    BY FS_Subset, FS_CardinalityType DEF StrayOf, StrikesInv
  <2>4. gmPingStrikes[s] \in Nat
    BY ConstantsAssumption DEF TypeOK
  <2> QED BY <1>1, <2>2, <2>3, <2>4, ConstantsAssumption
<1> QED BY <1>1, <1>2, ConstantsAssumption

\* A session whose GM is closed starts anew, the others keep their GM.
LEMMA CloseStrikes ==
    ASSUME TypeOK, RegistryExact, NEW gone \in SUBSET Sockets, CloseSockets(gone),
           NEW s \in Sessions, StrikesInv(s), pings'[s] = pings[s]
    PROVE  StrikesInv(s)'
<1>1. \A k \in Sockets : conn'[k] = IF k \in gone THEN "closed" ELSE conn[k]
  BY DEF CloseSockets, Cleared
<1>2. CASE gmSockets[s] \in gone
  <2>1. gmSockets'[s] = NoSocket /\ gmPingStrikes'[s] = 0
    BY <1>2 DEF CloseSockets, GmMapAfter, DropsGmEntry, RegistryExact
  <2>2. Missed(s)' = 0
    BY <2>1 DEF Missed, GmConnected
  <2>3. 0 + Cardinality(StrayOf(pings[s], NoSocket)) \in 0 .. MaxPings
    BY FreshGm
  <2> QED BY <1>1, <1>2, <2>1, <2>2, <2>3, ConstantsAssumption
         DEF StrikesInv, InFlightOf, StrayOf
<1>3. CASE gmSockets[s] \notin gone
  <2>1. gmSockets'[s] = gmSockets[s] /\ gmPingStrikes'[s] = gmPingStrikes[s]
    BY <1>3 DEF CloseSockets, GmMapAfter, DropsGmEntry
  <2>2. Missed(s)' = Missed(s)
    BY <1>3, <2>1 DEF CloseSockets, Cleared, Missed, GmConnected, TypeOK
  <2> QED BY <1>1, <1>3, <2>1, <2>2 DEF StrikesInv, InFlightOf, StrayOf
<1> QED BY <1>2, <1>3

LEMMA ClosePings ==
    ASSUME TypeOK, RegistryExact, PingInv, NEW gone \in SUBSET Sockets, CloseSockets(gone),
           pings' = pings
    PROVE  PingInv'
BY CloseStrikes DEF PingInv

LEMMA JoinGmPings ==
    ASSUME TypeOK, RegistryExact, PingInv, Rebinds = FALSE,
           NEW k \in Sockets, NEW u \in Users, NEW s \in Sessions, NEW p \in Protocols,
           JoinGm(k, u, s, p)
    PROVE  PingInv'
<1> DEFINE gone == Replaced(s, "gm")
<1>1. ~ IsPeer(k) /\ conn[k] = "open"
  BY DEF JoinGm, Accepted, SameBinding, IsReauth, InSession, IsPeer
<1>2. \A d \in gone : d = gmSockets[s] /\ d \in Sockets /\ IsGmPeer(d, s)
  BY DEF TypeOK, Replaced, GmConnected, RegistryExact
<1>3. k \notin gone
  BY <1>1, <1>2 DEF IsGmPeer, InSession
<1>4. gone = IF GmConnected(s) THEN {gmSockets[s]} ELSE {}
  BY DEF Replaced
<1>5. /\ conn' = Cleared(conn, gone, "closed")
      /\ gmSockets' = [GmMapAfter(gmSockets, gone, NoSocket) EXCEPT ![s] = k]
      /\ gmPingStrikes' = GmMapAfter(gmPingStrikes, gone, 0)
      /\ misses' = Cleared(misses, gone, 0)
      /\ pings' = pings
  BY DEF JoinGm
<1>6. DropsGmEntry(s, gone) <=> GmConnected(s)
  BY <1>2, <1>4 DEF DropsGmEntry, TypeOK, GmConnected
<1>7. \A t \in Sessions : t # s => ~ DropsGmEntry(t, gone) /\ gmSockets[t] \notin gone
  BY <1>2 DEF DropsGmEntry, IsGmPeer, InSession, RegistryExact
<1> HIDE DEF gone
<1>8. \A j \in Sockets : conn'[j] = IF j \in gone THEN "closed" ELSE conn[j]
  BY <1>5 DEF Cleared
<1>9. \A t \in Sessions : gmSockets[t] # k
  BY <1>1 DEF RegistryExact, IsGmPeer, InSession
<1>10. StrikesInv(s)'
  <2>1. gmSockets'[s] = k /\ gmPingStrikes'[s] = IF GmConnected(s) THEN 0 ELSE gmPingStrikes[s]
    BY <1>5, <1>6 DEF GmMapAfter
  <2>2. StrikesInv(s)
    BY DEF PingInv
  <2>3. gmPingStrikes'[s] + Cardinality(StrayOf(pings[s], k)) <= MaxPings
    BY <2>1, <2>2, FreshGm
  <2>4. Missed(s)' \in Nat
    BY <1>5, <2>1, ConstantsAssumption DEF Missed, GmConnected, Cleared, TypeOK
  <2>5. gmPingStrikes'[s] + Cardinality(StrayOf(pings[s], k)) <= MaxPings + Missed(s)'
    <3>1. gmPingStrikes'[s] \in Nat
      BY <2>1, ConstantsAssumption DEF TypeOK
    <3>2. Cardinality(StrayOf(pings[s], k)) \in Nat
      BY <2>2, StrayBound, ConstantsAssumption DEF StrikesInv
    <3> QED BY <2>3, <2>4, <3>1, <3>2, ConstantsAssumption
  <2>6. ASSUME NEW j \in Sockets, pings[s][j] > 0, conn'[j] = "open" PROVE k = j
    <3>1. j \notin gone /\ gmSockets[s] = j
      BY <1>8, <2>2, <2>6 DEF StrikesInv
    <3> QED BY <1>4, <3>1, ConstantsAssumption DEF GmConnected
  <2>7. \A j \in Sockets : pings[s][j] > 0 => conn'[j] # "new"
    BY <1>8, <2>2 DEF StrikesInv
  <2> QED BY <1>5, <2>1, <2>2, <2>5, <2>6, <2>7 DEF StrikesInv, InFlightOf, StrayOf
<1>11. ASSUME NEW t \in Sessions, t # s PROVE StrikesInv(t)'
  <2>1. gmSockets'[t] = gmSockets[t] /\ gmPingStrikes'[t] = gmPingStrikes[t]
    BY <1>5, <1>7, <1>11 DEF GmMapAfter
  <2>2. Missed(t)' = Missed(t)
    BY <1>5, <1>7, <1>11, <2>1 DEF Missed, GmConnected, Cleared, TypeOK
  <2> QED BY <1>5, <1>8, <2>1, <2>2 DEF PingInv, StrikesInv, InFlightOf, StrayOf
<1> QED BY <1>10, <1>11 DEF PingInv

LEMMA AuthenticatePings ==
    ASSUME TypeOK, RegistryExact, PingInv, Rebinds = FALSE, NEW k \in Sockets, Authenticate(k)
    PROVE  PingInv'
<1>1. CASE AuthInvalidPayload(k) \/ AuthBadTokenDrop(k)
  BY <1>1, ClosePings DEF AuthInvalidPayload, AuthBadTokenDrop
<1>2. CASE AuthBadToken(k)
  BY <1>2, SameStrikes DEF AuthBadToken, registry
<1>3. ASSUME NEW u \in Users, NEW s \in Sessions, NEW role \in Roles, NEW p \in Announced,
             AuthRefused(k, u, s, role, p)
      PROVE  PingInv'
  BY <1>3, ClosePings DEF AuthRefused
<1>4. ASSUME NEW u \in Users, NEW s \in Sessions, NEW role \in Roles, NEW p \in Announced,
             AuthFull(k, u, s, role, p)
      PROVE  PingInv'
  <2>1. {k} \cup Replaced(s, role) \in SUBSET Sockets
    BY DEF Replaced, GmConnected, TypeOK
  <2> QED BY <1>4, <2>1, ClosePings DEF AuthFull
<1>5. ASSUME NEW u \in Users, NEW s \in Sessions, JoinPlayer(k, u, s) \/ ReauthPlayer(k, u, s)
      PROVE  PingInv'
  BY <1>5, SameStrikes DEF JoinPlayer, ReauthPlayer
<1>6. ASSUME NEW u \in Users, NEW s \in Sessions, NEW p \in Protocols, JoinGm(k, u, s, p)
      PROVE  PingInv'
  BY <1>6, JoinGmPings
<1>7. ASSUME NEW u \in Users, NEW s \in Sessions, NEW p \in Protocols, ReauthGm(k, u, s, p)
      PROVE  PingInv'
  <2>1. IsGmPeer(k, s)
    BY <1>7 DEF ReauthGm, Accepted, SameBinding, IsReauth, InSession, IsGmPeer
  <2>2. gmSockets' = gmSockets
    BY <1>7, <2>1 DEF ReauthGm, RegistryExact, TypeOK
  <2> QED BY <1>7, <2>2, SameStrikes DEF ReauthGm
<1> QED BY <1>1, <1>2, <1>3, <1>4, <1>5, <1>6, <1>7 DEF Authenticate

\* A ping of another session changes no more of this one than what its GM missed,
\* and that only upwards.
LEMMA OtherSession ==
    ASSUME TypeOK, PingInv, NEW t \in Sessions, conn' = conn, gmSockets' = gmSockets,
           gmPingStrikes'[t] = gmPingStrikes[t], pings'[t] = pings[t],
           Missed(t)' \in Nat, Missed(t)' >= Missed(t)
    PROVE  StrikesInv(t)'
<1>1. StrikesInv(t) /\ Missed(t) \in Nat /\ gmPingStrikes[t] \in Nat
  BY MissedType, ConstantsAssumption DEF PingInv, TypeOK
<1>2. Cardinality(StrayOf(pings[t], gmSockets[t])) \in Nat
  BY <1>1, StrayBound, ConstantsAssumption DEF StrikesInv
<1>3. gmPingStrikes'[t] + Cardinality(StrayOf(pings'[t], gmSockets'[t])) <= MaxPings + Missed(t)'
  <2>1. gmPingStrikes[t] + Cardinality(StrayOf(pings[t], gmSockets[t])) <= MaxPings + Missed(t)
    BY <1>1 DEF StrikesInv
  <2>2. StrayOf(pings'[t], gmSockets'[t]) = StrayOf(pings[t], gmSockets[t])
    OBVIOUS
  <2> QED BY <1>1, <1>2, <2>1, <2>2, ConstantsAssumption
<1> QED BY <1>1, <1>3 DEF StrikesInv, InFlightOf, StrayOf

LEMMA PingStartPings ==
    ASSUME TypeOK, PingInv, NEW s \in Sessions, PingStart(s)
    PROVE  PingInv'
<1> DEFINE g == gmSockets[s]
<1>1. /\ g \in Sockets /\ conn[g] = "open" /\ pings[s] \in [Sockets -> 0 .. MaxPings]
      /\ conn' = conn /\ gmSockets' = gmSockets /\ gmPingStrikes' = gmPingStrikes
      /\ misses' = misses /\ StrikesInv(s)
  BY DEF TypeOK, PingStart, Listed, GmConnected, registry, PingInv
<1>2. pings'[s] = [pings[s] EXCEPT ![g] = @ + 1] /\ \A t \in Sessions : t # s => pings'[t] = pings[t]
  BY DEF TypeOK, PingStart
<1>3. Cardinality(InFlightOf(pings[s])) < MaxPings /\ IsFiniteSet(InFlightOf(pings[s]))
  <2>1. InFlight(s) < MaxPings
    BY DEF PingStart
  <2> QED BY <1>1, <2>1 DEF InFlight, InFlightOf, StrikesInv
<1>4. /\ IsFiniteSet(InFlightOf(pings'[s])) /\ Cardinality(InFlightOf(pings'[s])) <= MaxPings
      /\ StrayOf(pings'[s], g) = StrayOf(pings[s], g)
  BY <1>1, <1>2, <1>3, OneMore
<1>5. \A t \in Sessions : Missed(t)' = Missed(t)
  BY <1>1 DEF Missed, GmConnected
<1>6. \A k \in Sockets : pings'[s][k] > 0 => k = g \/ pings[s][k] > 0
  BY <1>1, <1>2
<1>7. StrikesInv(s)'
  BY <1>1, <1>4, <1>5, <1>6 DEF StrikesInv
<1>8. ASSUME NEW t \in Sessions, t # s PROVE StrikesInv(t)'
  <2>1. Missed(t) \in Nat
    BY MissedType, ConstantsAssumption
  <2> QED BY <1>1, <1>2, <1>5, <1>8, <2>1, OtherSession
<1> QED BY <1>7, <1>8 DEF PingInv

\* An answer clears the strikes: what can still come are strays.
LEMMA PingAckPings ==
    ASSUME TypeOK, RegistryExact, PingInv, NEW s \in Sessions, NEW k \in Sockets, PingAck(s, k)
    PROVE  PingInv'
<1>1. /\ pings[s][k] > 0 /\ conn[k] = "open" /\ pings[s] \in [Sockets -> 0 .. MaxPings]
      /\ conn' = conn /\ gmSockets' = gmSockets /\ StrikesInv(s)
  BY DEF TypeOK, PingAck, PingInv
<1>2. gmSockets[s] = k
  BY <1>1 DEF StrikesInv
<1>3. /\ pings'[s] = [pings[s] EXCEPT ![k] = @ - 1]
      /\ \A t \in Sessions : t # s => pings'[t] = pings[t] /\ gmPingStrikes'[t] = gmPingStrikes[t]
      /\ gmPingStrikes'[s] = 0
  BY DEF TypeOK, PingAck
<1>4. /\ IsFiniteSet(InFlightOf(pings'[s])) /\ Cardinality(InFlightOf(pings'[s])) <= MaxPings
      /\ Cardinality(StrayOf(pings'[s], k)) = Cardinality(StrayOf(pings[s], k))
  BY <1>1, <1>3, OneLess DEF StrikesInv
<1>5. Missed(s)' = 0
  BY <1>1, <1>2, ConstantsAssumption DEF PingAck, TypeOK, Missed, GmConnected
<1>6. Cardinality(StrayOf(pings[s], k)) \in 0 .. MaxPings
  BY <1>1, StrayBound DEF StrikesInv
<1>7. \A j \in Sockets : pings'[s][j] > 0 => pings[s][j] > 0
  BY <1>1, <1>3
<1>8. gmPingStrikes'[s] + Cardinality(StrayOf(pings'[s], gmSockets'[s])) <= MaxPings + Missed(s)'
  BY <1>1, <1>2, <1>3, <1>4, <1>5, <1>6, ConstantsAssumption
<1>9. StrikesInv(s)'
  BY <1>1, <1>4, <1>7, <1>8 DEF StrikesInv
<1>10. ASSUME NEW t \in Sessions, t # s PROVE StrikesInv(t)'
  <2>1. gmSockets[t] # k
    BY <1>2, <1>10 DEF RegistryExact, IsGmPeer, InSession
  <2>2. Missed(t)' = Missed(t)
    BY <1>1, <2>1 DEF PingAck, TypeOK, Missed, GmConnected
  <2>3. Missed(t) \in Nat
    BY MissedType, ConstantsAssumption
  <2> QED BY <1>1, <1>3, <1>10, <2>2, <2>3, OtherSession
<1> QED BY <1>9, <1>10 DEF PingInv

\* A strike is one the GM missed or a stray's.
LEMMA PingStrikePings ==
    ASSUME TypeOK, RegistryExact, PingInv, NEW s \in Sessions, NEW k \in Sockets,
           PingStrike(s, k)
    PROVE  PingInv'
<1> DEFINE g == gmSockets[s]
<1>1. /\ pings[s][k] > 0 /\ pings[s] \in [Sockets -> 0 .. MaxPings]
      /\ conn' = conn /\ gmSockets' = gmSockets /\ StrikesInv(s)
      /\ gmPingStrikes[s] + 1 < MaxStrikes /\ gmPingStrikes[s] \in Nat
  BY ConstantsAssumption DEF TypeOK, PingStrike, PingInv
<1>2. /\ pings'[s] = [pings[s] EXCEPT ![k] = @ - 1]
      /\ \A t \in Sessions : t # s => pings'[t] = pings[t] /\ gmPingStrikes'[t] = gmPingStrikes[t]
      /\ gmPingStrikes'[s] = gmPingStrikes[s] + 1
  BY DEF TypeOK, PingStrike
<1>3. /\ IsFiniteSet(InFlightOf(pings'[s])) /\ Cardinality(InFlightOf(pings'[s])) <= MaxPings
      /\ Cardinality(StrayOf(pings'[s], g)) = IF k = g THEN Cardinality(StrayOf(pings[s], g))
                                              ELSE Cardinality(StrayOf(pings[s], g)) - 1
  BY <1>1, <1>2, OneLess DEF StrikesInv
<1>4. \A j \in Sockets :
         misses'[j] = IF j = k /\ conn[k] = "open" /\ misses[k] < MaxStrikes THEN misses[k] + 1
                      ELSE misses[j]
  BY DEF TypeOK, PingStrike, MissesAfter
<1>5. \A t \in Sessions : Missed(t)' \in Nat /\ Missed(t)' >= Missed(t)
  <2> SUFFICES ASSUME NEW t \in Sessions PROVE Missed(t)' \in Nat /\ Missed(t)' >= Missed(t)
    OBVIOUS
  <2>1. CASE ~ GmConnected(t)
    BY <1>1, <2>1 DEF Missed, GmConnected
  <2>2. CASE GmConnected(t)
    <3>1. gmSockets[t] \in Sockets /\ misses[gmSockets[t]] \in Nat /\ misses[k] \in Nat
      BY <2>2, ConstantsAssumption DEF GmConnected, TypeOK
    <3> QED BY <1>1, <1>4, <2>2, <3>1 DEF Missed, GmConnected
  <2> QED BY <2>1, <2>2
<1>6. Cardinality(StrayOf(pings[s], g)) \in 0 .. MaxPings
  BY <1>1, StrayBound DEF StrikesInv
<1>7. Missed(s) \in Nat /\ gmPingStrikes[s] + Cardinality(StrayOf(pings[s], g)) <= MaxPings + Missed(s)
  BY <1>1, MissedType, ConstantsAssumption DEF StrikesInv
<1>8. gmPingStrikes'[s] + Cardinality(StrayOf(pings'[s], g)) <= MaxPings + Missed(s)'
  <2>1. CASE k # g
    BY <1>2, <1>3, <1>5, <1>6, <1>7, <2>1, <1>1, ConstantsAssumption
  <2>2. CASE k = g /\ conn[k] = "open" /\ misses[k] < MaxStrikes
    <3>1. Missed(s)' = Missed(s) + 1
      BY <1>1, <1>4, <2>2, ConstantsAssumption DEF Missed, GmConnected
    <3> QED BY <1>1, <1>2, <1>3, <1>6, <1>7, <2>2, <3>1, ConstantsAssumption
  <2>3. CASE k = g /\ conn[k] = "open" /\ ~ (misses[k] < MaxStrikes)
    <3>1. misses[k] \in 0 .. MaxStrikes
      BY DEF TypeOK
    <3>2. Missed(s)' = MaxStrikes
      BY <1>1, <1>4, <2>3, <3>1, ConstantsAssumption DEF Missed, GmConnected
    <3> QED BY <1>1, <1>2, <1>3, <1>6, <2>3, <3>2, ConstantsAssumption
  <2>4. CASE k = g /\ conn[k] # "open"
    BY <2>4 DEF RegistryExact, IsGmPeer, InSession
  <2> QED BY <2>1, <2>2, <2>3, <2>4
<1>9. \A j \in Sockets : pings'[s][j] > 0 => pings[s][j] > 0
  BY <1>1, <1>2
<1>10. StrikesInv(s)'
  BY <1>1, <1>3, <1>8, <1>9 DEF StrikesInv
<1>11. ASSUME NEW t \in Sessions, t # s PROVE StrikesInv(t)'
  BY <1>1, <1>2, <1>5, <1>11, OtherSession
<1> QED BY <1>10, <1>11 DEF PingInv

LEMMA PingEvictPings ==
    ASSUME TypeOK, RegistryExact, PingInv, NEW s \in Sessions, NEW k \in Sockets,
           PingEvict(s, k)
    PROVE  PingInv'
<1>1. /\ pings[s][k] > 0 /\ pings[s] \in [Sockets -> 0 .. MaxPings] /\ StrikesInv(s)
      /\ CloseSockets({k})
      /\ pings'[s] = [pings[s] EXCEPT ![k] = @ - 1]
      /\ \A t \in Sessions : t # s => pings'[t] = pings[t]
  BY DEF TypeOK, PingEvict, PingInv
<1>2. ASSUME NEW t \in Sessions, t # s PROVE StrikesInv(t)'
  BY <1>1, <1>2, CloseStrikes DEF PingInv
<1>3. StrikesInv(s)'
  <2> DEFINE g == gmSockets'[s]
  <2>1. /\ IsFiniteSet(InFlightOf(pings'[s])) /\ Cardinality(InFlightOf(pings'[s])) <= MaxPings
        /\ Cardinality(StrayOf(pings'[s], g)) = IF k = g THEN Cardinality(StrayOf(pings[s], g))
                                                ELSE Cardinality(StrayOf(pings[s], g)) - 1
    BY <1>1, OneLess DEF StrikesInv
  <2>2. \A j \in Sockets : /\ pings'[s][j] > 0 => pings[s][j] > 0
                            /\ conn'[j] = IF j = k THEN "closed" ELSE conn[j]
    BY <1>1 DEF CloseSockets, Cleared
  <2>3. Cardinality(StrayOf(pings'[s], g)) \in 0 .. MaxPings
    BY <2>1, StrayBound
  <2>4. CASE gmSockets[s] = k
    <3>1. g = NoSocket /\ gmPingStrikes'[s] = 0
      BY <1>1, <2>4 DEF CloseSockets, GmMapAfter, DropsGmEntry, RegistryExact
    <3>2. Missed(s)' = 0
      BY <3>1 DEF Missed, GmConnected
    <3>3. gmPingStrikes'[s] + Cardinality(StrayOf(pings'[s], g)) <= MaxPings + Missed(s)'
      BY <2>3, <3>1, <3>2, ConstantsAssumption
    <3>4. \A j \in Sockets : pings'[s][j] > 0 =>
             conn'[j] # "new" /\ (conn'[j] = "open" => g = j)
      BY <1>1, <2>2, <2>4 DEF StrikesInv
    <3> QED BY <2>1, <3>3, <3>4 DEF StrikesInv
  <2>5. CASE gmSockets[s] # k
    <3>1. g = gmSockets[s] /\ gmPingStrikes'[s] = gmPingStrikes[s]
      BY <1>1, <2>5 DEF CloseSockets, GmMapAfter, DropsGmEntry
    <3>2. Missed(s)' = Missed(s)
      BY <1>1, <2>5, <3>1 DEF CloseSockets, Cleared, Missed, GmConnected, TypeOK
    <3>3. gmPingStrikes'[s] + Cardinality(StrayOf(pings'[s], g)) <= MaxPings + Missed(s)'
      <4>1. Missed(s) \in Nat /\ gmPingStrikes[s] \in Nat
        BY MissedType, ConstantsAssumption DEF TypeOK
      <4>2. gmPingStrikes[s] + Cardinality(StrayOf(pings[s], g)) <= MaxPings + Missed(s)
        BY <1>1, <3>1 DEF StrikesInv
      <4>3. Cardinality(StrayOf(pings[s], g)) \in 0 .. MaxPings
        BY <1>1, StrayBound DEF StrikesInv
      <4> QED BY <2>1, <2>5, <3>1, <3>2, <4>1, <4>2, <4>3, ConstantsAssumption
    <3>4. \A j \in Sockets : pings'[s][j] > 0 =>
             conn'[j] # "new" /\ (conn'[j] = "open" => g = j)
      BY <1>1, <2>2, <3>1 DEF StrikesInv
    <3> QED BY <2>1, <3>3, <3>4 DEF StrikesInv
  <2> QED BY <2>4, <2>5
<1> QED BY <1>2, <1>3 DEF PingInv

LEMMA PingsStep ==
    ASSUME TypeOK, RegistryExact, PingInv, Rebinds = FALSE, [Next]_vars
    PROVE  PingInv'
<1>1. CASE UNCHANGED vars
  BY <1>1, SameStrikes DEF vars, registry
<1>2. ASSUME NEW k \in Sockets, Connect(k) PROVE PingInv'
  <2>1. \A j \in Sockets : conn'[j] = IF j = k THEN "open" ELSE conn[j]
    BY <1>2 DEF Connect, TypeOK
  <2>2. conn[k] = "new" /\ UNCHANGED <<gmSockets, gmPingStrikes, pings, misses>>
    BY <1>2 DEF Connect, registry
  <2> QED BY <2>1, <2>2 DEF PingInv, StrikesInv, Missed, GmConnected, InFlightOf, StrayOf
<1>3. ASSUME NEW k \in Sockets, Disconnect(k) PROVE PingInv'
  BY <1>3, ClosePings DEF Disconnect
<1>4. CASE ServerRestart
  <2> SUFFICES ASSUME NEW s \in Sessions PROVE StrikesInv(s)'
    BY DEF PingInv
  <2>1. pings'[s] = [k \in Sockets |-> 0] /\ gmPingStrikes'[s] = 0 /\ gmSockets'[s] = NoSocket
    BY <1>4 DEF ServerRestart
  <2>2. InFlightOf(pings'[s]) = {} /\ StrayOf(pings'[s], NoSocket) = {}
    BY <2>1, ConstantsAssumption DEF InFlightOf, StrayOf
  <2>3. Missed(s)' = 0
    BY <2>1 DEF Missed, GmConnected
  <2> QED BY <2>1, <2>2, <2>3, FS_EmptySet, ConstantsAssumption DEF StrikesInv
<1>5. ASSUME NEW s \in Sessions, Ping(s) PROVE PingInv'
  \* The registry is exact, so no entry names a socket that is gone.
  <2>1. CASE PingGone(s)
    BY <2>1 DEF PingGone, Listed, GmConnected, RegistryExact, IsGmPeer, InSession, TypeOK
  <2> QED BY <1>5, <2>1, PingStartPings, PingAckPings, PingStrikePings, PingEvictPings DEF Ping, PingGmSocket
<1>6. ASSUME NEW s \in Sessions, DeleteGame(s) \/ Expire(s) PROVE PingInv'
  BY <1>6, SameStrikes DEF DeleteGame, Expire, registry
<1>7. ASSUME NEW u \in Users, NEW s \in Sessions, JoinGame(u, s) PROVE PingInv'
  BY <1>7, SameStrikes DEF JoinGame, registry
<1>8. CASE RunCleanup
  BY <1>8, SameStrikes DEF RunCleanup, registry
<1> QED BY <1>1, <1>2, <1>3, <1>4, <1>5, <1>6, <1>7, <1>8, AuthenticatePings DEF Next

LEMMA PingInvariance ==
    ASSUME Rebinds = FALSE
    PROVE  Spec => []PingInv
<1>1. Init => PingInv
  <2> SUFFICES ASSUME Init, NEW s \in Sessions PROVE StrikesInv(s)
    BY DEF PingInv
  <2>1. pings[s] = [k \in Sockets |-> 0] /\ gmPingStrikes[s] = 0 /\ gmSockets[s] = NoSocket
    BY DEF Init
  <2>2. InFlightOf(pings[s]) = {} /\ StrayOf(pings[s], NoSocket) = {}
    BY <2>1, ConstantsAssumption DEF InFlightOf, StrayOf
  <2> QED BY <2>1, <2>2, FS_EmptySet, ConstantsAssumption DEF StrikesInv, Missed, GmConnected
<1>2. TypeOK /\ RegistryExact /\ PingInv /\ [Next]_vars => PingInv'
  BY PingsStep
<1> QED BY <1>1, <1>2, TypeCorrect, RegistryIsExact, PTL DEF Spec

\* A GM that pings evict missed all strikes but those that pings in flight when it
\* came can have left it, for any number of pings in flight and any number of strikes
\* (signalingService.js:181-196).
THEOREM EvictionsNeedMisses ==
    ASSUME Rebinds = FALSE
    PROVE  Spec => EvictionNeedsMisses
<1>1. TypeOK /\ PingInv /\ [Next]_vars
        => [\A s \in Sessions, k \in Sockets :
              PingEvict(s, k) /\ conn[k] = "open" => misses[k] + 1 + MaxPings >= MaxStrikes]_vars
  <2> SUFFICES ASSUME TypeOK, PingInv, NEW s \in Sessions, NEW k \in Sockets,
                      PingEvict(s, k), conn[k] = "open"
               PROVE  misses[k] + 1 + MaxPings >= MaxStrikes
    OBVIOUS
  <2>1. StrikesInv(s) /\ gmSockets[s] = k /\ gmPingStrikes[s] + 1 >= MaxStrikes
    BY DEF PingInv, StrikesInv, PingEvict
  <2>2. Missed(s) = misses[k]
    BY <2>1, ConstantsAssumption DEF Missed, GmConnected
  <2>3. Cardinality(StrayOf(pings[s], gmSockets[s])) \in Nat
    BY <2>1, StrayBound, ConstantsAssumption DEF StrikesInv
  <2>4. gmPingStrikes[s] + Cardinality(StrayOf(pings[s], gmSockets[s])) <= MaxPings + misses[k]
    BY <2>1, <2>2 DEF StrikesInv
  <2>5. gmPingStrikes[s] \in Nat /\ misses[k] \in Nat
    BY ConstantsAssumption DEF TypeOK
  <2> QED BY <2>1, <2>3, <2>4, <2>5, ConstantsAssumption
<1> QED BY <1>1, PingInvariance, TypeCorrect, PTL DEF Spec, EvictionNeedsMisses

-----------------------------------------------------------------------------
(* And what a GM missed counts against it.                                 *)

\* A connection that missed pings since its last answer is the GM of a session that
\* has a strike for each, and not enough of them to be evicted: whoever replaced
\* whom, and whoever else answered, at the last of them it loses the session
\* (signalingService.js:181-203).
SilenceCounted ==
    \A k \in Sockets : misses[k] > 0 =>
        \E s \in Sessions : gmSockets[s] = k /\ misses[k] <= gmPingStrikes[s]
                                             /\ gmPingStrikes[s] < MaxStrikes

LEMMA SameSilence ==
    ASSUME SilenceCounted, UNCHANGED <<gmSockets, gmPingStrikes, misses>>
    PROVE  SilenceCounted'
BY DEF SilenceCounted

\* Whoever is left has its entry and its strikes.
LEMMA CloseSilence ==
    ASSUME TypeOK, SilenceCounted, NEW gone, CloseSockets(gone)
    PROVE  SilenceCounted'
<1> SUFFICES ASSUME NEW k \in Sockets, misses'[k] > 0
             PROVE  \E s \in Sessions : gmSockets'[s] = k /\ misses'[k] <= gmPingStrikes'[s]
                                                          /\ gmPingStrikes'[s] < MaxStrikes
  BY DEF SilenceCounted
<1>1. k \notin gone /\ misses'[k] = misses[k]
  BY DEF CloseSockets, Cleared
<1>2. PICK s \in Sessions : gmSockets[s] = k /\ misses[k] <= gmPingStrikes[s]
                                             /\ gmPingStrikes[s] < MaxStrikes
  BY <1>1 DEF SilenceCounted
<1>3. gmSockets'[s] = k /\ gmPingStrikes'[s] = gmPingStrikes[s]
  BY <1>1, <1>2 DEF CloseSockets, GmMapAfter, DropsGmEntry
<1> QED BY <1>1, <1>2, <1>3

\* The new GM has missed nothing; no other session's entry is touched.
LEMMA JoinGmSilence ==
    ASSUME TypeOK, RegistryExact, SilenceCounted, Rebinds = FALSE,
           NEW k \in Sockets, NEW u \in Users, NEW s \in Sessions, NEW p \in Protocols,
           JoinGm(k, u, s, p)
    PROVE  SilenceCounted'
<1> SUFFICES ASSUME NEW j \in Sockets, misses'[j] > 0
             PROVE  \E t \in Sessions : gmSockets'[t] = j /\ misses'[j] <= gmPingStrikes'[t]
                                                          /\ gmPingStrikes'[t] < MaxStrikes
  BY DEF SilenceCounted
<1>. PICK gone : gone = Replaced(s, "gm")
  OBVIOUS
<1>1. /\ gmSockets' = [GmMapAfter(gmSockets, gone, NoSocket) EXCEPT ![s] = k]
      /\ gmPingStrikes' = GmMapAfter(gmPingStrikes, gone, 0)
      /\ misses' = Cleared(misses, gone, 0)
  BY DEF JoinGm
<1>2. j \notin gone /\ misses'[j] = misses[j]
  BY <1>1 DEF Cleared
<1>3. PICK t \in Sessions : gmSockets[t] = j /\ misses[j] <= gmPingStrikes[t]
                                             /\ gmPingStrikes[t] < MaxStrikes
  BY <1>2 DEF SilenceCounted
<1>4. t # s
  BY <1>2, <1>3, ConstantsAssumption DEF Replaced, GmConnected
<1>5. gmSockets'[t] = j /\ gmPingStrikes'[t] = gmPingStrikes[t]
  BY <1>1, <1>2, <1>3, <1>4 DEF GmMapAfter, DropsGmEntry
<1> QED BY <1>2, <1>3, <1>5

LEMMA AuthenticateSilence ==
    ASSUME TypeOK, RegistryExact, SilenceCounted, Rebinds = FALSE,
           NEW k \in Sockets, Authenticate(k)
    PROVE  SilenceCounted'
<1>1. CASE AuthInvalidPayload(k) \/ AuthBadTokenDrop(k)
  BY <1>1, CloseSilence DEF AuthInvalidPayload, AuthBadTokenDrop
<1>2. CASE AuthBadToken(k)
  BY <1>2, SameSilence DEF AuthBadToken, registry
<1>3. ASSUME NEW u \in Users, NEW s \in Sessions, NEW role \in Roles, NEW p \in Announced,
             AuthRefused(k, u, s, role, p) \/ AuthFull(k, u, s, role, p)
      PROVE  SilenceCounted'
  BY <1>3, CloseSilence DEF AuthRefused, AuthFull
<1>4. ASSUME NEW u \in Users, NEW s \in Sessions, JoinPlayer(k, u, s) \/ ReauthPlayer(k, u, s)
      PROVE  SilenceCounted'
  BY <1>4, SameSilence DEF JoinPlayer, ReauthPlayer
<1>5. ASSUME NEW u \in Users, NEW s \in Sessions, NEW p \in Protocols, JoinGm(k, u, s, p)
      PROVE  SilenceCounted'
  BY <1>5, JoinGmSilence
<1>6. ASSUME NEW u \in Users, NEW s \in Sessions, NEW p \in Protocols, ReauthGm(k, u, s, p)
      PROVE  SilenceCounted'
  <2>1. IsGmPeer(k, s)
    BY <1>6 DEF ReauthGm, Accepted, SameBinding, IsReauth, InSession, IsGmPeer
  <2>2. gmSockets' = gmSockets
    BY <1>6, <2>1 DEF ReauthGm, RegistryExact, TypeOK
  <2> QED BY <1>6, <2>2, SameSilence DEF ReauthGm, told
<1> QED BY <1>1, <1>2, <1>3, <1>4, <1>5, <1>6 DEF Authenticate

\* An open socket's ping is to the GM of its session: answered or not, it is that
\* session's strikes that change with what this socket missed.
LEMMA PingSilence ==
    ASSUME TypeOK, RegistryExact, PingInv, SilenceCounted, NEW s \in Sessions, Ping(s)
    PROVE  SilenceCounted'
<1>1. CASE PingGone(s)
  BY <1>1 DEF PingGone, Listed, GmConnected, RegistryExact, IsGmPeer, InSession, TypeOK
<1>2. CASE PingStart(s)
  BY <1>2, SameSilence DEF PingStart, registry
<1>3. ASSUME NEW k \in Sockets, PingEvict(s, k) PROVE SilenceCounted'
  BY <1>3, CloseSilence DEF PingEvict
<1>4. ASSUME NEW k \in Sockets, PingAck(s, k) PROVE SilenceCounted'
  <2>1. gmSockets[s] = k
    BY <1>4 DEF PingAck, PingInv, StrikesInv
  <2>2. /\ gmSockets' = gmSockets /\ gmPingStrikes' = [gmPingStrikes EXCEPT ![s] = 0]
        /\ misses' = [misses EXCEPT ![k] = 0]
    BY <1>4 DEF PingAck
  <2> SUFFICES ASSUME NEW j \in Sockets, misses'[j] > 0
               PROVE  \E t \in Sessions : gmSockets'[t] = j /\ misses'[j] <= gmPingStrikes'[t]
                                                            /\ gmPingStrikes'[t] < MaxStrikes
    BY DEF SilenceCounted
  <2>3. j # k /\ misses'[j] = misses[j]
    BY <2>2 DEF TypeOK
  <2>4. PICK t \in Sessions : gmSockets[t] = j /\ misses[j] <= gmPingStrikes[t]
                                               /\ gmPingStrikes[t] < MaxStrikes
    BY <2>3 DEF SilenceCounted
  <2>5. gmPingStrikes'[t] = gmPingStrikes[t]
    BY <2>1, <2>2, <2>3, <2>4 DEF TypeOK
  <2> QED BY <2>2, <2>3, <2>4, <2>5
<1>5. ASSUME NEW k \in Sockets, PingStrike(s, k) PROVE SilenceCounted'
  <2>1. /\ conn[k] = "open" => gmSockets[s] = k
        /\ gmSockets' = gmSockets /\ gmPingStrikes[s] \in Nat
        /\ gmPingStrikes'[s] = gmPingStrikes[s] + 1 /\ gmPingStrikes[s] + 1 < MaxStrikes
        /\ \A t \in Sessions : t # s => gmPingStrikes'[t] = gmPingStrikes[t]
    BY <1>5, ConstantsAssumption DEF PingStrike, PingInv, StrikesInv, TypeOK
  <2>2. \A j \in Sockets :
           /\ misses[j] \in Nat
           /\ \/ misses'[j] = misses[j]
              \/ j = k /\ conn[k] = "open" /\ misses'[j] = misses[j] + 1
    BY <1>5, ConstantsAssumption DEF PingStrike, MissesAfter, TypeOK
  <2> SUFFICES ASSUME NEW j \in Sockets, misses'[j] > 0
               PROVE  \E t \in Sessions : gmSockets'[t] = j /\ misses'[j] <= gmPingStrikes'[t]
                                                            /\ gmPingStrikes'[t] < MaxStrikes
    BY DEF SilenceCounted
  <2>3. CASE j = k /\ conn[k] = "open" /\ misses'[j] = misses[j] + 1
    <3>1. misses[j] <= gmPingStrikes[s]
      <4>1. CASE misses[j] = 0
        BY <2>1, <4>1
      <4>2. CASE misses[j] > 0
        <5>1. PICK t \in Sessions : gmSockets[t] = j /\ misses[j] <= gmPingStrikes[t]
          BY <4>2 DEF SilenceCounted
        <5>2. t = s
          BY <2>1, <2>3, <5>1 DEF RegistryExact, IsGmPeer, InSession
        <5> QED BY <5>1, <5>2
      <4> QED BY <2>2, <4>1, <4>2
    <3> QED BY <2>1, <2>2, <2>3, <3>1, ConstantsAssumption
  <2>4. CASE misses'[j] = misses[j]
    <3>1. PICK t \in Sessions : gmSockets[t] = j /\ misses[j] <= gmPingStrikes[t]
                                                 /\ gmPingStrikes[t] < MaxStrikes
      BY <2>4 DEF SilenceCounted
    <3>2. CASE t = s
      BY <2>1, <2>2, <2>4, <3>1, <3>2, ConstantsAssumption
    <3>3. CASE t # s
      BY <2>1, <2>4, <3>1, <3>3
    <3> QED BY <3>2, <3>3
  <2> QED BY <2>2, <2>3, <2>4
<1> QED BY <1>1, <1>2, <1>3, <1>4, <1>5 DEF Ping, PingGmSocket

\* So a connection misses fewer pings in a row than MaxStrikes: by the last of them
\* it is evicted, for any number of strikes and of pings in flight
\* (signalingService.js:181-203).
THEOREM SilentGmsAreCounted ==
    ASSUME Rebinds = FALSE
    PROVE  Spec => []SilenceCounted
<1>1. Init => SilenceCounted
  BY DEF Init, SilenceCounted
<1>2. ASSUME TypeOK, RegistryExact, PingInv, SilenceCounted, [Next]_vars PROVE SilenceCounted'
  <2>1. CASE UNCHANGED vars
    BY <1>2, <2>1, SameSilence DEF vars, registry
  <2>2. ASSUME NEW k \in Sockets, Connect(k) \/ Disconnect(k) PROVE SilenceCounted'
    BY <1>2, <2>2, SameSilence, CloseSilence DEF Connect, Disconnect, registry
  <2>3. CASE ServerRestart
    BY <2>3 DEF ServerRestart, SilenceCounted
  <2>4. ASSUME NEW s \in Sessions, DeleteGame(s) \/ Expire(s) PROVE SilenceCounted'
    BY <1>2, <2>4, SameSilence DEF DeleteGame, Expire, registry
  <2>5. ASSUME NEW u \in Users, NEW s \in Sessions, JoinGame(u, s) PROVE SilenceCounted'
    BY <1>2, <2>5, SameSilence DEF JoinGame, registry
  <2>6. CASE RunCleanup
    BY <1>2, <2>6, SameSilence DEF RunCleanup, registry
  <2> QED BY <1>2, <2>1, <2>2, <2>3, <2>4, <2>5, <2>6, AuthenticateSilence, PingSilence DEF Next
<1> QED BY <1>1, <1>2, PingInvariance, TypeCorrect, RegistryIsExact, PTL DEF Spec

-----------------------------------------------------------------------------
(* What the server tells its sockets: rosters are exact, and the server     *)
(* implements the directory of GmDirectory.  Both rest on a socket being in *)
(* the room of its session and in no other, and on only players being told  *)
(* of a GM; they are about clients that keep to their session and role.     *)

RoomsInv ==
    /\ \A k \in Sockets, s \in Sessions : s \in rooms[k] <=> InSession(k, s)
    /\ \A k \in Sockets : knownGm[k] # NoSocket => \E s \in Sessions : IsPlayer(k, s)

ToldInv == RoomsInv /\ RosterExact

\* What is known of a state before its step.
Base == TypeOK /\ RegistryExact /\ CapacityInv /\ InformedInv /\ Rebinds = FALSE

-----------------------------------------------------------------------------
\* Closing sockets takes them out of their rooms and everyone's roster.
LEMMA CloseTold ==
    ASSUME Base, ToldInv, NEW gone, CloseSockets(gone)
    PROVE  ToldInv'
<1>1. \A k \in Sockets, s \in Sessions :
         /\ InSession(k, s)' <=> k \notin gone /\ InSession(k, s)
         /\ IsPlayer(k, s)' <=> k \notin gone /\ IsPlayer(k, s)
         /\ s \in rooms'[k] <=> k \notin gone /\ s \in rooms[k]
  BY DEF CloseSockets, Cleared, InSession, IsPlayer, IsPeer
<1>2. RoomsInv'
  <2>1. \A k \in Sockets, s \in Sessions : s \in rooms'[k] <=> InSession(k, s)'
    BY <1>1 DEF ToldInv, RoomsInv
  <2>2. ASSUME NEW k \in Sockets, knownGm'[k] # NoSocket
        PROVE  \E s \in Sessions : IsPlayer(k, s)'
    <3>1. k \notin gone /\ knownGm[k] # NoSocket
      BY <2>2 DEF CloseSockets, Cleared
    <3>2. PICK s \in Sessions : IsPlayer(k, s)
      BY <3>1 DEF ToldInv, RoomsInv
    <3> QED BY <1>1, <3>1, <3>2
  <2> QED BY <2>1, <2>2 DEF RoomsInv
<1>3. ASSUME NEW k \in Sockets, NEW j \in roster'[k]
      PROVE  \E s \in Sessions : InSession(j, s)' /\ InSession(k, s)'
  <2>1. k \notin gone /\ j \in roster[k] /\ ~ (j \in gone /\ HearsLeave(k, j))
    BY <1>3 DEF CloseSockets, RosterAfter
  <2>2. j \in Sockets
    BY <2>1 DEF Base, TypeOK
  <2>3. PICK s \in Sessions : InSession(j, s) /\ InSession(k, s)
    BY <2>1 DEF ToldInv, RosterExact
  <2>4. HearsLeave(k, j)
    BY <2>3 DEF ToldInv, RoomsInv, HearsLeave, InSession
  <2> QED BY <1>1, <2>1, <2>2, <2>3, <2>4
<1>4. ASSUME NEW s \in Sessions, NEW j \in Sockets, NEW k \in Sockets,
             InSession(j, s)', InSession(k, s)', j # k
      PROVE  j \in roster'[k] \/ k \in roster'[j]
  <2>1. j \notin gone /\ k \notin gone /\ InSession(j, s) /\ InSession(k, s)
    BY <1>1, <1>4
  <2>2. roster[k] \ gone \subseteq roster'[k] /\ roster[j] \ gone \subseteq roster'[j]
    BY <2>1 DEF CloseSockets, RosterAfter
  <2> QED BY <1>4, <2>1, <2>2 DEF ToldInv, RosterExact, PeersOf
<1> QED BY <1>2, <1>3, <1>4 DEF ToldInv, RosterExact, PeersOf

LEMMA SameTold ==
    ASSUME ToldInv, UNCHANGED <<rooms, peers, roster, knownGm>>
    PROVE  ToldInv'
BY DEF ToldInv, RoomsInv, RosterExact, PeersOf, IsPlayer, InSession, IsPeer

\* k joins the room of s, after the sockets of `gone` were evicted.
LEMMA JoinTold ==
    ASSUME Base, ToldInv, NEW k \in Sockets, NEW s \in Sessions, NEW gone, k \notin gone,
           NEW rec, rec # NoPeer, rec.session = s, ~ IsPeer(k),
           peers' = [Cleared(peers, gone, NoPeer) EXCEPT ![k] = rec],
           rooms' = [Cleared(rooms, gone, {}) EXCEPT ![k] = @ \cup {s}],
           roster' = RosterAfterJoin(k, s, gone),
           \A j \in Sockets : knownGm'[j] # NoSocket =>
               j \notin gone /\ ((j = k /\ rec.role = "player") \/ knownGm[j] # NoSocket)
    PROVE  ToldInv'
<1>1. \A j \in Sockets, t \in Sessions :
         /\ InSession(j, t)' <=> IF j = k THEN t = s ELSE j \notin gone /\ InSession(j, t)
         /\ IsPlayer(j, t)' <=> IF j = k THEN t = s /\ rec.role = "player"
                                         ELSE j \notin gone /\ IsPlayer(j, t)
         /\ t \in rooms'[j] <=> IF j = k THEN t = s \/ t \in rooms[k]
                                         ELSE j \notin gone /\ t \in rooms[j]
  BY DEF Base, TypeOK, Cleared, InSession, IsPlayer, IsPeer
<1>2. \A t \in Sessions : t \notin rooms[k]
  BY DEF ToldInv, RoomsInv, InSession
<1>3. knownGm[k] = NoSocket /\ roster[k] = {}
  BY DEF ToldInv, RoomsInv, RosterExact, IsPlayer, InSession
<1>4. RoomsInv'
  <2>1. \A j \in Sockets, t \in Sessions : t \in rooms'[j] <=> InSession(j, t)'
    BY <1>1, <1>2 DEF ToldInv, RoomsInv
  <2>2. \A j \in Sockets : knownGm'[j] # NoSocket => \E t \in Sessions : IsPlayer(j, t)'
    BY <1>1, <1>3 DEF ToldInv, RoomsInv
  <2> QED BY <2>1, <2>2 DEF RoomsInv
<1>5. \A j \in Sockets :
         roster'[j] = IF j # k /\ j \notin gone /\ s \in rooms[j]
                      THEN RosterAfter(gone)[j] \cup {k} ELSE RosterAfter(gone)[j]
  BY DEF RosterAfterJoin
<1>6. ASSUME NEW j \in Sockets, NEW d \in roster'[j]
      PROVE  \E t \in Sessions : InSession(d, t)' /\ InSession(j, t)'
  <2>1. CASE d = k /\ j # k /\ j \notin gone /\ s \in rooms[j]
    BY <1>1, <2>1 DEF ToldInv, RoomsInv
  <2>2. CASE d \in RosterAfter(gone)[j]
    <3>1. j \notin gone /\ d \in roster[j] /\ ~ (d \in gone /\ HearsLeave(j, d))
      BY <2>2 DEF RosterAfter
    <3>2. d \in Sockets /\ j # k
      BY <1>3, <3>1 DEF Base, TypeOK
    <3>3. PICK t \in Sessions : InSession(d, t) /\ InSession(j, t)
      BY <3>1 DEF ToldInv, RosterExact
    <3>4. HearsLeave(j, d) /\ d # k
      BY <3>3 DEF ToldInv, RoomsInv, HearsLeave, InSession
    <3> QED BY <1>1, <3>1, <3>2, <3>3, <3>4
  <2> QED BY <1>5, <1>6, <2>1, <2>2
<1>7. ASSUME NEW t \in Sessions, NEW j \in Sockets, NEW d \in Sockets,
             InSession(j, t)', InSession(d, t)', j # d
      PROVE  j \in roster'[d] \/ d \in roster'[j]
  <2>1. CASE j # k /\ d # k
    <3>1. j \notin gone /\ d \notin gone /\ InSession(j, t) /\ InSession(d, t)
      BY <1>1, <1>7, <2>1
    <3>2. roster[j] \ gone \subseteq roster'[j] /\ roster[d] \ gone \subseteq roster'[d]
      BY <1>5, <3>1 DEF RosterAfter
    <3> QED BY <1>7, <3>1, <3>2 DEF ToldInv, RosterExact, PeersOf
  <2>2. CASE j = k
    <3>1. t = s /\ d # k /\ d \notin gone /\ s \in rooms[d]
      BY <1>1, <1>7, <2>2 DEF ToldInv, RoomsInv
    <3> QED BY <1>5, <2>2, <3>1
  <2>3. CASE d = k
    <3>1. t = s /\ j # k /\ j \notin gone /\ s \in rooms[j]
      BY <1>1, <1>7, <2>3 DEF ToldInv, RoomsInv
    <3> QED BY <1>5, <2>3, <3>1
  <2> QED BY <2>1, <2>2, <2>3
<1> QED BY <1>4, <1>6, <1>7 DEF ToldInv, RosterExact, PeersOf

-----------------------------------------------------------------------------
\* What a client that keeps to its session and role does by authenticating: it is
\* dropped, it joins, or the registry stays as it is.

\* A GM that replaces another was not registered, and the other is its session's.
LEMMA JoinGmFacts ==
    ASSUME Base, NEW k \in Sockets, NEW u \in Users, NEW s \in Sessions, NEW p \in Protocols,
           JoinGm(k, u, s, p)
    PROVE  /\ ~ IsPeer(k) /\ k \notin Replaced(s, "gm") /\ conn[k] = "open"
           /\ \A d \in Replaced(s, "gm") : d = gmSockets[s] /\ IsGmPeer(d, s)
           /\ Replaced(s, "gm") \subseteq Sockets
           /\ gmSockets' = [gmSockets EXCEPT ![s] = k]
<1> DEFINE gone == Replaced(s, "gm")
<1>1. ~ IsPeer(k) /\ conn[k] = "open"
  BY DEF Base, JoinGm, Accepted, SameBinding, IsReauth, InSession, IsPeer
<1>2. \A d \in gone : d = gmSockets[s] /\ d \in Sockets /\ IsGmPeer(d, s)
  BY DEF Base, TypeOK, Replaced, GmConnected, RegistryExact
<1>3. k \notin gone
  BY <1>1, <1>2 DEF IsGmPeer, InSession
<1>4. \A t \in Sessions : t # s => ~ DropsGmEntry(t, gone)
  BY <1>2 DEF DropsGmEntry, IsGmPeer, InSession
<1>5. gmSockets' = [gmSockets EXCEPT ![s] = k]
  BY <1>4 DEF Base, TypeOK, JoinGm, GmMapAfter
<1> QED BY <1>1, <1>2, <1>3, <1>5

\* A GM authenticating again as it was leaves what others see of it as it was.
LEMMA ReauthGmFacts ==
    ASSUME Base, ToldInv, NEW k \in Sockets, NEW u \in Users, NEW s \in Sessions,
           NEW p \in Protocols, ReauthGm(k, u, s, p)
    PROVE  UNCHANGED <<conn, peers, rooms, gmSockets, told>>
<1>1. peers[k] = Peer(u, s, "gm") /\ IsPeer(k)
  BY DEF Base, ReauthGm, Accepted, SameBinding, IsReauth, InSession, IsPeer, Peer
<1>2. s \in rooms[k] /\ gmSockets[s] = k
  BY <1>1 DEF Base, ToldInv, RoomsInv, RegistryExact, IsGmPeer, InSession, Peer
<1> QED BY <1>1, <1>2 DEF ReauthGm, Base, TypeOK

LEMMA ReauthPlayerFacts ==
    ASSUME Base, ToldInv, NEW k \in Sockets, NEW u \in Users, NEW s \in Sessions,
           ReauthPlayer(k, u, s)
    PROVE  IsPlayer(k, s) /\ UNCHANGED <<conn, peers, rooms, gmSockets, roster>>
<1>1. peers[k] = Peer(u, s, "player") /\ IsPeer(k)
  BY DEF Base, ReauthPlayer, Accepted, SameBinding, IsReauth, InSession, IsPeer, Peer
<1>2. IsPlayer(k, s)
  BY <1>1 DEF IsPlayer, InSession, Peer
<1>3. s \in rooms[k]
  BY <1>2 DEF ToldInv, RoomsInv, IsPlayer
<1> QED BY <1>1, <1>2, <1>3 DEF ReauthPlayer, Base, TypeOK

LEMMA AuthenticateTold ==
    ASSUME Base, ToldInv, NEW k \in Sockets, Authenticate(k)
    PROVE  ToldInv'
<1>1. CASE AuthInvalidPayload(k) \/ AuthBadTokenDrop(k)
  BY <1>1, CloseTold DEF AuthInvalidPayload, AuthBadTokenDrop
<1>2. CASE AuthBadToken(k)
  BY <1>2, SameTold DEF AuthBadToken, registry, told
<1>3. ASSUME NEW u \in Users, NEW s \in Sessions, NEW role \in Roles, NEW p \in Announced,
             AuthRefused(k, u, s, role, p) \/ AuthFull(k, u, s, role, p)
      PROVE  ToldInv'
  BY <1>3, CloseTold DEF AuthRefused, AuthFull
<1>4. ASSUME NEW u \in Users, NEW s \in Sessions, JoinPlayer(k, u, s)
      PROVE  ToldInv'
  <2>1. ~ IsPeer(k)
    BY <1>4 DEF Base, JoinPlayer, Accepted, SameBinding, IsReauth, InSession, IsPeer
  <2>2. Peer(u, s, "player") # NoPeer /\ Peer(u, s, "player").session = s
        /\ Peer(u, s, "player").role = "player"
    BY PeerType, ConstantsAssumption DEF Peer, Roles
  <2>3. /\ peers' = [Cleared(peers, {}, NoPeer) EXCEPT ![k] = Peer(u, s, "player")]
        /\ rooms' = [Cleared(rooms, {}, {}) EXCEPT ![k] = @ \cup {s}]
        /\ roster' = RosterAfterJoin(k, s, {})
    BY <1>4 DEF Base, TypeOK, JoinPlayer, Cleared
  <2>4. \A j \in Sockets : knownGm'[j] # NoSocket => j = k \/ knownGm[j] # NoSocket
    BY <1>4 DEF Base, TypeOK, JoinPlayer
  <2> QED BY <2>1, <2>2, <2>3, <2>4, JoinTold
<1>5. ASSUME NEW u \in Users, NEW s \in Sessions, NEW p \in Protocols, JoinGm(k, u, s, p)
      PROVE  ToldInv'
  <2> DEFINE gone == Replaced(s, "gm")
  <2>1. ~ IsPeer(k) /\ k \notin gone
    BY <1>5, JoinGmFacts
  <2>2. Peer(u, s, "gm") # NoPeer /\ Peer(u, s, "gm").session = s
    BY PeerType, ConstantsAssumption DEF Peer, Roles
  <2>3. /\ peers' = [Cleared(peers, gone, NoPeer) EXCEPT ![k] = Peer(u, s, "gm")]
        /\ rooms' = [Cleared(rooms, gone, {}) EXCEPT ![k] = @ \cup {s}]
        /\ roster' = RosterAfterJoin(k, s, gone)
    BY <1>5, <2>1 DEF JoinGm
  <2>4. \A j \in Sockets : knownGm'[j] # NoSocket => j \notin gone /\ knownGm[j] # NoSocket
    BY <1>5 DEF JoinGm, Cleared
  <2> HIDE DEF gone
  <2> QED BY <2>1, <2>2, <2>3, <2>4, JoinTold
<1>6. ASSUME NEW u \in Users, NEW s \in Sessions, ReauthPlayer(k, u, s)
      PROVE  ToldInv'
  <2>1. IsPlayer(k, s) /\ UNCHANGED <<peers, rooms, roster>>
    BY <1>6, ReauthPlayerFacts
  <2>2. \A j \in Sockets : knownGm'[j] # NoSocket => j = k \/ knownGm[j] # NoSocket
    BY <1>6 DEF Base, TypeOK, ReauthPlayer
  <2>3. \A j \in Sockets, t \in Sessions : /\ InSession(j, t)' <=> InSession(j, t)
                                           /\ IsPlayer(j, t)' <=> IsPlayer(j, t)
    BY <2>1 DEF IsPlayer, InSession, IsPeer
  <2>4. \A j \in Sockets : knownGm'[j] # NoSocket => \E t \in Sessions : IsPlayer(j, t)'
    BY <2>1, <2>2, <2>3 DEF ToldInv, RoomsInv
  <2>5. RoomsInv'
    BY <2>1, <2>3, <2>4 DEF ToldInv, RoomsInv
  <2>6. RosterExact'
    BY <2>1, SameTold DEF ToldInv, RosterExact, PeersOf, InSession, IsPeer
  <2> QED BY <2>5, <2>6 DEF ToldInv
<1>7. ASSUME NEW u \in Users, NEW s \in Sessions, NEW p \in Protocols, ReauthGm(k, u, s, p)
      PROVE  ToldInv'
  BY <1>7, ReauthGmFacts, SameTold DEF told
<1> QED BY <1>1, <1>2, <1>3, <1>4, <1>5, <1>6, <1>7 DEF Authenticate

LEMMA ToldStep ==
    ASSUME Base, ToldInv, [Next]_vars
    PROVE  ToldInv'
<1>1. CASE UNCHANGED vars
  BY <1>1, SameTold DEF vars, registry, told
<1>2. ASSUME NEW k \in Sockets, Connect(k) \/ Disconnect(k) PROVE ToldInv'
  BY <1>2, SameTold, CloseTold DEF Connect, Disconnect, registry, told
<1>3. CASE ServerRestart
  BY <1>3 DEF ServerRestart, ToldInv, RoomsInv, RosterExact, PeersOf, IsPlayer, InSession, IsPeer
<1>4. ASSUME NEW s \in Sessions, Ping(s) PROVE ToldInv'
  <2>1. CASE PingStart(s) \/ PingGone(s)
    BY <2>1, SameTold DEF PingStart, PingGone, registry, told
  <2>2. ASSUME NEW k \in Sockets, PingAck(s, k) \/ PingStrike(s, k) \/ PingEvict(s, k)
        PROVE  ToldInv'
    BY <2>2, SameTold, CloseTold DEF PingAck, PingStrike, PingEvict, told
  <2> QED BY <1>4, <2>1, <2>2 DEF Ping, PingGmSocket
<1>5. ASSUME NEW s \in Sessions, DeleteGame(s) \/ Expire(s) PROVE ToldInv'
  BY <1>5, SameTold DEF DeleteGame, Expire, registry, told
<1>6. ASSUME NEW u \in Users, NEW s \in Sessions, JoinGame(u, s) PROVE ToldInv'
  BY <1>6, SameTold DEF JoinGame, registry, told
<1>7. CASE RunCleanup
  BY <1>7, SameTold DEF RunCleanup, registry, told
<1> QED BY <1>1, <1>2, <1>3, <1>4, <1>5, <1>6, <1>7, AuthenticateTold DEF Next

LEMMA Known ==
    ASSUME Rebinds = FALSE
    PROVE  Spec => [](Base /\ ToldInv)
<1> DEFINE Inv == TypeOK /\ RegistryExact /\ CapacityInv /\ InformedInv /\ ToldInv
<1>1. Init => CapacityInv /\ InformedInv /\ ToldInv
  <2> SUFFICES ASSUME Init PROVE InformedInv /\ ToldInv
    BY CapacityInit
  <2>1. \A k \in Sockets, s \in Sessions : ~ InSession(k, s) /\ ~ IsPlayer(k, s)
    BY DEF Init, IsPlayer, InSession, IsPeer
  <2> QED BY <2>1 DEF Init, InformedInv, InRoom, PlayersInformed, ToldInv, RoomsInv, RosterExact,
             PeersOf
<1>2. TypeOK /\ RegistryExact /\ Inv /\ [Next]_vars => CapacityInv' /\ InformedInv' /\ ToldInv'
  BY CapacityStep, InformedStep, ToldStep DEF Base
<1>3. TypeOK /\ RegistryExact /\ CapacityInv /\ InformedInv /\ ToldInv => Base /\ ToldInv
  BY DEF Base
<1> QED BY <1>1, <1>2, <1>3, TypeCorrect, RegistryIsExact, PTL DEF Spec

\* Of two sockets in one session one was told of the other, and nobody counts on
\* one that left, for any number of sockets and sessions (authenticate.js:140-147,
\* signalingService.js:65-70, signalingServer.js:45).
THEOREM RostersAreExact ==
    ASSUME Rebinds = FALSE
    PROVE  Spec => []RosterExact
<1>1. Base /\ ToldInv => RosterExact
  BY DEF ToldInv
<1> QED BY <1>1, Known, PTL

-----------------------------------------------------------------------------
(* The server implements the directory.                                    *)

Retired == {k \in Sockets : conn[k] = "closed"}
Waits == [k \in Sockets |->
            IF IsPeer(k) /\ peers[k].role = "player" THEN peers[k].session ELSE NoSession]

\* Waiting for a session is playing in it.
LEMMA WaitsPlays ==
    ASSUME TypeOK
    PROVE  \A k \in Sockets :
              /\ \A s \in Sessions : Waits[k] = s <=> IsPlayer(k, s)
              /\ Waits[k] = NoSession <=> \A s \in Sessions : ~ IsPlayer(k, s)
<1>1. \A k \in Sockets : IsPeer(k) => peers[k].session \in Sessions
  BY DEF TypeOK, IsPeer, PeerRecords
<1> QED BY <1>1, ConstantsAssumption DEF Waits, IsPlayer, InSession

\* A socket that was told of the GM d and not notified since plays where d is GM.
LEMMA KnownIsHeld ==
    ASSUME Base, ToldInv, NEW j \in Sockets, NEW d \in Sockets, knownGm[j] = d, ~ notified[j]
    PROVE  \E s \in Sessions : IsPlayer(j, s) /\ gmSockets[s] = d /\ InSession(d, s)
<1>1. PICK s \in Sessions : IsPlayer(j, s)
  BY ConstantsAssumption DEF ToldInv, RoomsInv
<1>2. gmSockets[s] = d
  BY <1>1 DEF Base, InformedInv, PlayersInformed
<1> QED BY <1>1, <1>2 DEF Base, RegistryExact, IsGmPeer

\* Closing one socket is that connection leaving the directory.
LEMMA CloseLeaves ==
    ASSUME Base, ToldInv, NEW k \in Sockets, CloseSockets({k})
    PROVE  Directory!Leave(k)
<1>1. TypeOK
  BY DEF Base
<1>2. gmSockets' = [s \in Sessions |-> IF gmSockets[s] = k THEN NoSocket ELSE gmSockets[s]]
  BY DEF Base, RegistryExact, CloseSockets, GmMapAfter, DropsGmEntry
<1>3. Retired' = Retired \cup {k}
  BY DEF CloseSockets, Cleared, Retired
<1>4. Waits' = [j \in Sockets |-> IF j \in {k} THEN NoSession ELSE Waits[j]]
  BY DEF CloseSockets, Cleared, Waits, IsPeer
<1>5. knownGm' = [j \in Sockets |-> IF j \in {k} THEN NoSocket ELSE knownGm[j]]
  BY DEF CloseSockets, Cleared
<1>6. notified' = [j \in Sockets |->
                      /\ j # k
                      /\ \/ notified[j]
                         \/ \E s \in Sessions :
                              gmSockets[s] = k /\ Waits[j] = s /\ knownGm[j] = k]
  <2>1. ASSUME NEW j \in Sockets, ~ notified[j]
        PROVE  HearsLeave(j, k) /\ knownGm[j] = k
                 <=> \E s \in Sessions : gmSockets[s] = k /\ Waits[j] = s /\ knownGm[j] = k
    <3>1. ASSUME knownGm[j] = k
          PROVE  HearsLeave(j, k)
                 /\ \E s \in Sessions : gmSockets[s] = k /\ Waits[j] = s
      <4>1. PICK s \in Sessions : IsPlayer(j, s) /\ gmSockets[s] = k /\ InSession(k, s)
        BY <2>1, <3>1, KnownIsHeld
      <4>2. s \in rooms[j]
        BY <4>1 DEF ToldInv, RoomsInv, IsPlayer
      <4>3. HearsLeave(j, k)
        BY <4>1, <4>2 DEF HearsLeave, InSession
      <4>4. Waits[j] = s
        BY <1>1, <4>1, WaitsPlays
      <4> QED BY <4>1, <4>3, <4>4
    <3> QED BY <3>1
  <2>2. notified' = [j \in Sockets |-> j \notin {k} /\ (notified[j]
                                           \/ \E d \in {k} : HearsLeave(j, d) /\ knownGm[j] = d)]
    BY DEF CloseSockets, NotifiedAfter
  <2> QED BY <2>1, <2>2
<1> QED BY <1>2, <1>3, <1>4, <1>5, <1>6
       DEF Directory!Leave, Directory!Retire, Directory!Waiting, Retired, Waits

\* A player that is told of its session's GM looks it up.
LEMMA PlayerLooks ==
    ASSUME Base, ToldInv, NEW k \in Sockets, NEW u \in Users, NEW s \in Sessions,
           JoinPlayer(k, u, s) \/ ReauthPlayer(k, u, s)
    PROVE  Directory!Look(k, s)
<1>1. TypeOK /\ conn[k] = "open" /\ conn' = conn /\ gmSockets' = gmSockets
      /\ peers' = [peers EXCEPT ![k] = Peer(u, s, "player")]
  BY DEF Base, JoinPlayer, ReauthPlayer, Accepted
<1>2. ~ IsPeer(k) \/ IsPlayer(k, s)
  <2>1. CASE JoinPlayer(k, u, s)
    BY <2>1 DEF Base, JoinPlayer, Accepted, SameBinding, IsReauth, InSession, IsPeer
  <2>2. CASE ReauthPlayer(k, u, s)
    BY <2>2, ReauthPlayerFacts
  <2> QED BY <2>1, <2>2
<1>3. Waits[k] \in {NoSession, s}
  <2>1. CASE ~ IsPeer(k)
    BY <2>1 DEF Waits
  <2>2. CASE IsPlayer(k, s)
    BY <1>1, <2>2, WaitsPlays
  <2> QED BY <1>2, <2>1, <2>2
<1>4. \A t \in Sessions : gmSockets[t] # k
  BY <1>2 DEF Base, RegistryExact, IsGmPeer, IsPlayer, InSession
<1>5. Peer(u, s, "player") # NoPeer /\ Peer(u, s, "player").session = s
      /\ Peer(u, s, "player").role = "player"
  BY PeerType, ConstantsAssumption DEF Peer, Roles
<1>6. Waits' = [Waits EXCEPT ![k] = s]
  BY <1>1, <1>5 DEF TypeOK, Waits, IsPeer
<1>7. knownGm' = [knownGm EXCEPT ![k] = gmSockets[s]]
      /\ notified' = [notified EXCEPT ![k] = FALSE]
  BY DEF JoinPlayer, ReauthPlayer
<1>8. k \notin Retired /\ Retired' = Retired
  BY <1>1 DEF Retired
<1> QED BY <1>1, <1>3, <1>4, <1>6, <1>7, <1>8 DEF Directory!Look, Retired, Waits

\* A GM that joins takes its session from the one it replaces.
LEMMA GmTakes ==
    ASSUME Base, ToldInv, NEW k \in Sockets, NEW u \in Users, NEW s \in Sessions,
           NEW p \in Protocols, JoinGm(k, u, s, p)
    PROVE  Directory!Take(k, s)
<1> DEFINE gone == Replaced(s, "gm")
<1>1. TypeOK /\ ~ IsPeer(k) /\ k \notin gone /\ conn[k] = "open" /\ gone \subseteq Sockets
      /\ (\A d \in gone : d = gmSockets[s] /\ IsGmPeer(d, s))
      /\ gmSockets' = [gmSockets EXCEPT ![s] = k]
  BY JoinGmFacts DEF Base
<1>2. gone = {gmSockets[s]} \ {NoSocket}
  BY DEF Replaced, GmConnected
<1>3. Peer(u, s, "gm") # NoPeer /\ Peer(u, s, "gm").role # "player"
  BY PeerType, ConstantsAssumption DEF Peer, Roles
<1>4. /\ conn' = Cleared(conn, gone, "closed")
      /\ peers' = [Cleared(peers, gone, NoPeer) EXCEPT ![k] = Peer(u, s, "gm")]
      /\ knownGm' = Cleared(knownGm, gone, NoSocket)
      /\ notified' = NotifiedOfGm(k, s, gone)
  BY DEF JoinGm
<1> HIDE DEF gone
<1>5. Waits[k] = NoSession /\ \A t \in Sessions : gmSockets[t] # k
  BY <1>1 DEF Base, RegistryExact, IsGmPeer, InSession, Waits
<1>6. k \notin Retired /\ Retired' = Retired \cup gone
  BY <1>1, <1>4 DEF Cleared, Retired
<1>7. Waits' = [j \in Sockets |-> IF j \in gone THEN NoSession ELSE Waits[j]]
  BY <1>1, <1>3, <1>4, <1>5 DEF Cleared, Waits, IsPeer
<1>8. knownGm' = [j \in Sockets |-> IF j \in gone THEN NoSocket ELSE knownGm[j]]
  BY <1>4 DEF Cleared
<1>9. notified' = [j \in Sockets |-> j \notin gone /\ (notified[j] \/ Waits[j] = s)]
  <2>1. ASSUME NEW j \in Sockets
        PROVE  NotifiedOfGm(k, s, gone)[j] <=> j \notin gone /\ (notified[j] \/ Waits[j] = s)
    <3>1. ASSUME NEW d \in gone, knownGm[j] = d, ~ notified[j] PROVE IsPlayer(j, s)
      <4>1. d \in Sockets /\ d = gmSockets[s]
        BY <1>1
      <4>2. PICK t \in Sessions : IsPlayer(j, t) /\ gmSockets[t] = d /\ InSession(d, t)
        BY <3>1, <4>1, KnownIsHeld
      <4>3. t = s
        BY <1>1, <4>2 DEF IsGmPeer, InSession
      <4> QED BY <4>2, <4>3
    <3>2. ASSUME j # k, j \notin gone, s \in rooms[j] PROVE IsPlayer(j, s)
      <4>1. InSession(j, s) /\ peers[j].role \in Roles
        BY <1>1, <3>2 DEF ToldInv, RoomsInv, TypeOK, InSession, IsPeer, PeerRecords
      <4>2. gmSockets[s] # j
        BY <1>2, <3>2, ConstantsAssumption
      <4>3. ~ IsGmPeer(j, s)
        BY <4>2 DEF Base, RegistryExact
      <4> QED BY <4>1, <4>3 DEF IsGmPeer, IsPlayer, Roles
    <3>3. IsPlayer(j, s) => j # k /\ s \in rooms[j]
      BY <1>1 DEF ToldInv, RoomsInv, IsPlayer, InSession
    <3>4. Waits[j] = s <=> IsPlayer(j, s)
      BY <1>1, WaitsPlays
    <3> QED BY <3>1, <3>2, <3>3, <3>4 DEF NotifiedOfGm, NotifiedAfter
  <2>2. NotifiedOfGm(k, s, gone) = [j \in Sockets |-> j \notin gone /\ (notified[j] \/ Waits[j] = s)]
    <3>1. \A j \in Sockets : NotifiedOfGm(k, s, gone)[j] \in BOOLEAN
      BY DEF NotifiedOfGm
    <3> QED BY <2>1, <3>1 DEF NotifiedOfGm
  <2> QED BY <1>4, <2>2
<1> QED BY <1>1, <1>2, <1>5, <1>6, <1>7, <1>8, <1>9
       DEF Directory!Take, Directory!Retire, Directory!Waiting, Retired, Waits

\* A restart retires every open connection, and only those hold or wait.
LEMMA RestartDirectory ==
    ASSUME Base, ServerRestart
    PROVE  Directory!Restart
<1> DEFINE gone == {k \in Sockets : conn[k] = "open"}
<1>1. \A k \in Sockets : Waits[k] # NoSession => k \in gone
  BY DEF Base, RegistryExact, Waits
<1>2. \A s \in Sessions : gmSockets[s] # NoSocket => gmSockets[s] \in gone
  BY DEF Base, TypeOK, RegistryExact, IsGmPeer, InSession
<1>3. Retired' = Retired \cup gone
  BY DEF ServerRestart, Retired
<1>4. Waits' = [k \in Sockets |-> NoSession]
  BY DEF ServerRestart, Waits, IsPeer
<1>5. gone \in SUBSET Sockets
  OBVIOUS
<1> HIDE DEF gone
<1> QED BY <1>1, <1>2, <1>3, <1>4, <1>5 DEF ServerRestart, Directory!Restart, Retired, Waits

\* What leaves holders, waiting players and what they were told alone.
LEMMA SameDirectory ==
    ASSUME UNCHANGED <<peers, gmSockets, knownGm, notified>>, Retired' = Retired
    PROVE  UNCHANGED Directory!vars
BY DEF Directory!vars, Retired, Waits, IsPeer

LEMMA SameConnections ==
    ASSUME UNCHANGED conn
    PROVE  Retired' = Retired
BY DEF Retired

LEMMA AuthenticateDirectory ==
    ASSUME Base, ToldInv, NEW k \in Sockets, Authenticate(k)
    PROVE  Directory!Next \/ UNCHANGED Directory!vars
<1>1. CASE AuthInvalidPayload(k) \/ AuthBadTokenDrop(k)
  BY <1>1, CloseLeaves DEF AuthInvalidPayload, AuthBadTokenDrop, Directory!Next
<1>2. CASE AuthBadToken(k)
  BY <1>2, SameConnections, SameDirectory DEF AuthBadToken, registry, told
<1>3. ASSUME NEW u \in Users, NEW s \in Sessions, NEW role \in Roles, NEW p \in Announced,
             AuthRefused(k, u, s, role, p)
      PROVE  Directory!Next
  BY <1>3, CloseLeaves DEF AuthRefused, Directory!Next
<1>4. ASSUME NEW u \in Users, NEW s \in Sessions, NEW role \in Roles, NEW p \in Announced,
             AuthFull(k, u, s, role, p)
      PROVE  Directory!Next
  \* A session that is full has no GM to replace: only k goes.
  <2>1. Replaced(s, role) = {}
    BY <1>4, ReplacementMakesRoom DEF Base, AuthFull, Replaced
  <2>2. CloseSockets({k})
    <3>1. {k} \cup Replaced(s, role) = {k}
      BY <2>1
    <3> QED BY <1>4, <3>1 DEF AuthFull
  <2> QED BY <2>2, CloseLeaves DEF Directory!Next
<1>5. ASSUME NEW u \in Users, NEW s \in Sessions, JoinPlayer(k, u, s) \/ ReauthPlayer(k, u, s)
      PROVE  Directory!Next
  BY <1>5, PlayerLooks DEF Directory!Next
<1>6. ASSUME NEW u \in Users, NEW s \in Sessions, NEW p \in Protocols, JoinGm(k, u, s, p)
      PROVE  Directory!Next
  BY <1>6, GmTakes DEF Directory!Next
<1>7. ASSUME NEW u \in Users, NEW s \in Sessions, NEW p \in Protocols, ReauthGm(k, u, s, p)
      PROVE  UNCHANGED Directory!vars
  BY <1>7, ReauthGmFacts, SameConnections, SameDirectory DEF told
<1> QED BY <1>1, <1>2, <1>3, <1>4, <1>5, <1>6, <1>7 DEF Authenticate

LEMMA DirectoryStep ==
    ASSUME Base, ToldInv, [Next]_vars
    PROVE  [Directory!Next]_(Directory!vars)
<1>1. CASE UNCHANGED vars
  BY <1>1, SameConnections, SameDirectory DEF vars, registry, told
<1>2. ASSUME NEW k \in Sockets, Connect(k) PROVE UNCHANGED Directory!vars
  <2>1. Retired' = Retired
    BY <1>2 DEF Connect, Retired, Base, TypeOK
  <2> QED BY <1>2, <2>1, SameDirectory DEF Connect, registry, told
<1>3. ASSUME NEW k \in Sockets, Disconnect(k) PROVE Directory!Next
  BY <1>3, CloseLeaves DEF Disconnect, Directory!Next
<1>4. CASE ServerRestart
  BY <1>4, RestartDirectory DEF Directory!Next
<1>5. ASSUME NEW s \in Sessions, Ping(s)
      PROVE  Directory!Next \/ UNCHANGED Directory!vars
  <2>1. CASE PingStart(s)
    BY <2>1, SameConnections, SameDirectory DEF PingStart, registry, told
  \* The registry is exact, so no entry names a socket that is gone.
  <2>2. CASE PingGone(s)
    BY <2>2 DEF PingGone, Listed, GmConnected, Base, RegistryExact, IsGmPeer, InSession, TypeOK
  <2>3. ASSUME NEW k \in Sockets, PingAck(s, k) \/ PingStrike(s, k)
        PROVE  UNCHANGED Directory!vars
    BY <2>3, SameConnections, SameDirectory DEF PingAck, PingStrike, told
  <2>4. ASSUME NEW k \in Sockets, PingEvict(s, k) PROVE Directory!Next
    BY <2>4, CloseLeaves DEF PingEvict, Directory!Next
  <2> QED BY <1>5, <2>1, <2>2, <2>3, <2>4 DEF Ping, PingGmSocket
<1>6. ASSUME NEW s \in Sessions, DeleteGame(s) \/ Expire(s) PROVE UNCHANGED Directory!vars
  BY <1>6, SameConnections, SameDirectory DEF DeleteGame, Expire, registry, told
<1>7. ASSUME NEW u \in Users, NEW s \in Sessions, JoinGame(u, s) PROVE UNCHANGED Directory!vars
  BY <1>7, SameConnections, SameDirectory DEF JoinGame, registry, told
<1>8. CASE RunCleanup
  BY <1>8, SameConnections, SameDirectory DEF RunCleanup, registry, told
<1> QED BY <1>1, <1>2, <1>3, <1>4, <1>5, <1>6, <1>7, <1>8, AuthenticateDirectory DEF Next

\* Every behaviour of the signaling server is one of the directory's: evictions,
\* replacements, rejections, pings and restarts are takeovers, departures and
\* restarts there, and all else is invisible (authenticate.js:86-147,
\* signalingService.js:40-93).
THEOREM ServerIsADirectory ==
    ASSUME Rebinds = FALSE
    PROVE  Spec => ImplementsDirectory
<1>1. Init => Directory!Init
  BY DEF Init, Directory!Init, IsPeer
<1>2. Base /\ ToldInv /\ [Next]_vars => [Directory!Next]_(Directory!vars)
  BY DirectoryStep
<1> QED BY <1>1, <1>2, Known, PTL DEF Spec, ImplementsDirectory, Directory!Spec
=============================================================================
