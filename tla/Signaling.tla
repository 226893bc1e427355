------------------------------ MODULE Signaling ------------------------------
(***************************************************************************)
(* The signaling server: which sockets are registered in which game        *)
(* session, which of them is the session's GM backend, and what each       *)
(* socket has been told about the others.                                  *)
(*                                                                         *)
(*   services/signalingService.js   the registry (peers, gmSockets, ...)   *)
(*   signaling/authenticate.js      the authenticate handler               *)
(*   signaling/signalingServer.js   connection and disconnect              *)
(*   services/cleanupService.js     the hourly expiry of game sessions     *)
(*                                                                         *)
(* A handler runs to completion on Node's event loop, so each is one step. *)
(* What interleaves is the order of connections, authentications, closes,  *)
(* restarts, ping answers and ping timeouts.  socket.disconnect(true) runs *)
(* the disconnect handler before it returns, so closing a socket and its   *)
(* handler's work are one step too.                                        *)
(*                                                                         *)
(* What a socket has been told (roster, knownGm, notified) is what the     *)
(* server has sent it: one open connection delivers in order.              *)
(***************************************************************************)
EXTENDS Naturals, FiniteSets

CONSTANTS Sockets,          \* socket ids, each used by one connection only
          Sessions,         \* ids of game sessions
          Users,
          OwnerOf,          \* [Sessions -> Users]: game_sessions.owner_id
          Protocols,        \* protocol versions a GM backend may announce
          MinProtocol,      \* config.minGmProtocol
          MaxPeers,         \* MAX_PLAYERS_PER_SESSION
          MaxAuthFailures,  \* MAX_AUTH_FAILURES
          MaxStrikes,       \* GM_PING_MAX_STRIKES
          MaxPings,         \* bound: pings in flight per session
          Rebinds,          \* may a client authenticate a registered socket
                            \* again for another session or in another role?
          NoSocket, NoPeer, NoProtocol, NoSession

Roles == {"gm", "player"}
PeerRecords == [user : Users, session : Sessions, role : Roles]

ASSUME ConstantsAssumption ==
    /\ OwnerOf \in [Sessions -> Users]
    /\ Protocols \subseteq Nat
    /\ MinProtocol \in Nat
    /\ MaxPeers \in Nat \ {0}
    /\ MaxAuthFailures \in Nat \ {0}
    /\ MaxStrikes \in Nat \ {0}
    /\ MaxPings \in Nat
    /\ Rebinds \in BOOLEAN
    /\ NoSocket \notin Sockets
    /\ NoPeer \notin PeerRecords
    /\ NoProtocol \notin Protocols
    /\ NoSession \notin Sessions

VARIABLES
    conn,          \* socket.connected: "new" before, "closed" after
    authFailures,  \* socket.data.authFailures
    rooms,         \* the session rooms a socket has joined
    peers,         \* socketId -> peer
    gmSockets,     \* sessionId -> socketId
    gmProtocols,   \* sessionId -> protocol version
    gmPingStrikes, \* sessionId -> consecutive ping timeouts
    pings,         \* ping-gm sent and neither answered nor timed out
    games,         \* rows of game_sessions
    members,       \* rows of session_players
    fresh,         \* games whose last_gm_seen_at is within the expiry days
    roster,        \* what a socket was told: PEER_JOINED and no PEER_LEFT since
    knownGm,       \* gmPeerId of the last SESSION_INFO a socket was sent
    notified,      \* since then: a GM's PEER_JOINED, or knownGm's PEER_LEFT
    misses         \* history: timeouts of pings sent to this socket since its
                   \* last answer; read by no action

registry == <<peers, gmSockets, gmProtocols, gmPingStrikes>>
database == <<games, members, fresh>>
told == <<roster, knownGm, notified>>
vars == <<conn, authFailures, rooms, registry, pings, database, told, misses>>

TypeOK ==
    /\ conn \in [Sockets -> {"new", "open", "closed"}]
    /\ authFailures \in [Sockets -> 0 .. MaxAuthFailures - 1]
    /\ rooms \in [Sockets -> SUBSET Sessions]
    /\ peers \in [Sockets -> PeerRecords \cup {NoPeer}]
    /\ gmSockets \in [Sessions -> Sockets \cup {NoSocket}]
    /\ gmProtocols \in [Sessions -> Protocols \cup {NoProtocol}]
    /\ gmPingStrikes \in [Sessions -> 0 .. MaxStrikes - 1]
    /\ pings \in [Sessions -> [Sockets -> 0 .. MaxPings]]
    /\ games \subseteq Sessions
    /\ members \subseteq Users \X Sessions
    /\ fresh \subseteq Sessions
    /\ roster \in [Sockets -> SUBSET Sockets]
    /\ knownGm \in [Sockets -> Sockets \cup {NoSocket}]
    /\ notified \in [Sockets -> BOOLEAN]
    /\ misses \in [Sockets -> 0 .. MaxStrikes]

Init ==
    /\ conn = [k \in Sockets |-> "new"]
    /\ authFailures = [k \in Sockets |-> 0]
    /\ rooms = [k \in Sockets |-> {}]
    /\ peers = [k \in Sockets |-> NoPeer]
    /\ gmSockets = [s \in Sessions |-> NoSocket]
    /\ gmProtocols = [s \in Sessions |-> NoProtocol]
    /\ gmPingStrikes = [s \in Sessions |-> 0]
    /\ pings = [s \in Sessions |-> [k \in Sockets |-> 0]]
    /\ games = Sessions
    /\ members = {}
    /\ fresh = Sessions
    /\ roster = [k \in Sockets |-> {}]
    /\ knownGm = [k \in Sockets |-> NoSocket]
    /\ notified = [k \in Sockets |-> FALSE]
    /\ misses = [k \in Sockets |-> 0]

-----------------------------------------------------------------------------
(* The registry.                                                           *)

IsPeer(k) == peers[k] # NoPeer
InSession(k, s) == IsPeer(k) /\ peers[k].session = s
IsGmPeer(k, s) == InSession(k, s) /\ peers[k].role = "gm"
IsPlayer(k, s) == InSession(k, s) /\ peers[k].role = "player"
PeersOf(s) == {k \in Sockets : InSession(k, s)}
GmConnected(s) == gmSockets[s] # NoSocket

\* What the rows and maps hold once the sockets of `gone` are closed.
Cleared(f, gone, none) == [k \in Sockets |-> IF k \in gone THEN none ELSE f[k]]
DropsGmEntry(s, gone) == gmSockets[s] \in gone /\ IsGmPeer(gmSockets[s], s)
GmMapAfter(f, gone, none) ==
    [s \in Sessions |-> IF DropsGmEntry(s, gone) THEN none ELSE f[s]]

\* k is in the room that hears that d left.
HearsLeave(k, d) == IsPeer(d) /\ peers[d].session \in rooms[k]

\* mutant: evicted sockets leave without PEER_LEFT.
RosterWithoutLeave(gone) == [k \in Sockets |-> IF k \in gone THEN {} ELSE roster[k]]

RosterAfter(gone) ==
    [k \in Sockets |-> IF k \in gone THEN {}
                       ELSE roster[k] \ {d \in gone : HearsLeave(k, d)}]

\* mutant: an evicted GM leaves without PEER_LEFT.
NotifiedWithoutLeave(gone) == [k \in Sockets |-> k \notin gone /\ notified[k]]

NotifiedAfter(gone) ==
    [k \in Sockets |-> /\ k \notin gone
                       /\ \/ notified[k]
                          \/ \E d \in gone : HearsLeave(k, d) /\ knownGm[k] = d]

\* The sockets of `gone` are closed, and evicted if they were registered: the
\* rest of each one's session hears PEER_LEFT and the registry forgets it.
CloseSockets(gone) ==
    /\ conn' = Cleared(conn, gone, "closed")
    /\ authFailures' = Cleared(authFailures, gone, 0)
    /\ rooms' = Cleared(rooms, gone, {})
    /\ peers' = Cleared(peers, gone, NoPeer)
    /\ gmSockets' = GmMapAfter(gmSockets, gone, NoSocket)
    /\ gmProtocols' = GmMapAfter(gmProtocols, gone, NoProtocol)
    /\ gmPingStrikes' = GmMapAfter(gmPingStrikes, gone, 0)
    /\ roster' = RosterAfter(gone)
    /\ knownGm' = Cleared(knownGm, gone, NoSocket)
    /\ notified' = NotifiedAfter(gone)
    /\ misses' = Cleared(misses, gone, 0)

-----------------------------------------------------------------------------
(* Connections.                                                            *)

Connect(k) ==
    /\ conn[k] = "new"
    /\ conn' = [conn EXCEPT ![k] = "open"]
    /\ UNCHANGED <<authFailures, rooms, registry, pings, database, told, misses>>

\* The client leaves, or its transport is found dead.
Disconnect(k) ==
    /\ conn[k] = "open"
    /\ CloseSockets({k})
    /\ UNCHANGED <<pings, database>>

\* The process ends and starts again: its maps and timers are gone, no
\* PEER_LEFT is sent, and only the database is left.
ServerRestart ==
    /\ conn' = [k \in Sockets |-> IF conn[k] = "open" THEN "closed" ELSE conn[k]]
    /\ authFailures' = [k \in Sockets |-> 0]
    /\ rooms' = [k \in Sockets |-> {}]
    /\ peers' = [k \in Sockets |-> NoPeer]
    /\ gmSockets' = [s \in Sessions |-> NoSocket]
    /\ gmProtocols' = [s \in Sessions |-> NoProtocol]
    /\ gmPingStrikes' = [s \in Sessions |-> 0]
    /\ pings' = [s \in Sessions |-> [k \in Sockets |-> 0]]
    /\ roster' = [k \in Sockets |-> {}]
    /\ knownGm' = [k \in Sockets |-> NoSocket]
    /\ notified' = [k \in Sockets |-> FALSE]
    /\ misses' = [k \in Sockets |-> 0]
    /\ UNCHANGED database

-----------------------------------------------------------------------------
(* The authenticate handler, one action per way it can end.                *)

\* An invalid payload, like every other final rejection, closes the socket.
AuthInvalidPayload(k) ==
    /\ conn[k] = "open"
    /\ CloseSockets({k})
    /\ UNCHANGED <<pings, database>>

\* An expired token leaves the socket open to try again ...
AuthBadToken(k) ==
    /\ conn[k] = "open"
    /\ authFailures[k] + 1 < MaxAuthFailures
    /\ authFailures' = [authFailures EXCEPT ![k] = @ + 1]
    /\ UNCHANGED <<conn, rooms, registry, pings, database, told, misses>>

\* ... until it has failed MaxAuthFailures times in a row.
AuthBadTokenDrop(k) ==
    /\ conn[k] = "open"
    /\ authFailures[k] + 1 >= MaxAuthFailures
    /\ CloseSockets({k})
    /\ UNCHANGED <<pings, database>>

\* The checks of role, session, membership and protocol.
MayConnect(u, s, role, p) ==
    /\ s \in games
    /\ IF role = "gm" THEN OwnerOf[s] = u /\ p \in Protocols /\ p >= MinProtocol
                      ELSE OwnerOf[s] = u \/ <<u, s>> \in members

AuthRefused(k, u, s, role, p) ==
    /\ conn[k] = "open"
    /\ ~ MayConnect(u, s, role, p)
    /\ CloseSockets({k})
    /\ UNCHANGED <<pings, database>>

\* A client authenticates again only as it did before, unless Rebinds.
SameBinding(k, u, s, role) ==
    \/ Rebinds
    \/ ~ IsPeer(k)
    \/ peers[k] = [user |-> u, session |-> s, role |-> role]

Accepted(k, u, s, role, p) ==
    /\ conn[k] = "open"
    /\ MayConnect(u, s, role, p)
    /\ SameBinding(k, u, s, role)

IsReauth(k, s) == InSession(k, s)

\* mutant: a new GM connection leaves the old one registered.
NotReplaced(s, role) == {}

\* A GM connection replaces the one the session has.
Replaced(s, role) == IF role = "gm" /\ GmConnected(s) THEN {gmSockets[s]} ELSE {}

\* mutant: one socket too many.
IsOverfull(s, gone) == Cardinality(PeersOf(s) \ gone) > MaxPeers

IsFull(s, gone) == Cardinality(PeersOf(s) \ gone) >= MaxPeers

AuthFull(k, u, s, role, p) ==
    /\ Accepted(k, u, s, role, p)
    /\ ~ IsReauth(k, s)
    /\ IsFull(s, Replaced(s, role))
    /\ CloseSockets({k} \cup Replaced(s, role))
    /\ UNCHANGED <<pings, database>>

Peer(u, s, role) == [user |-> u, session |-> s, role |-> role]

\* What the room of s is told when k joins it; `gone` was evicted just before.
RosterAfterJoin(k, s, gone) ==
    [j \in Sockets |-> IF j # k /\ j \notin gone /\ s \in rooms[j]
                       THEN RosterAfter(gone)[j] \cup {k}
                       ELSE RosterAfter(gone)[j]]

JoinPlayer(k, u, s) ==
    /\ Accepted(k, u, s, "player", NoProtocol)
    /\ ~ IsReauth(k, s)
    /\ ~ IsFull(s, {})
    /\ peers' = [peers EXCEPT ![k] = Peer(u, s, "player")]
    /\ authFailures' = [authFailures EXCEPT ![k] = 0]
    /\ rooms' = [rooms EXCEPT ![k] = @ \cup {s}]
    /\ knownGm' = [knownGm EXCEPT ![k] = gmSockets[s]]
    /\ notified' = [notified EXCEPT ![k] = FALSE]
    /\ roster' = RosterAfterJoin(k, s, {})
    /\ UNCHANGED <<conn, gmSockets, gmProtocols, gmPingStrikes, pings, database, misses>>

\* mutant: only the replacement of a GM is announced, not its return.
NotifiedOfReplacement(k, s, gone) ==
    [j \in Sockets |-> \/ NotifiedAfter(gone)[j]
                       \/ gone # {} /\ j # k /\ j \notin gone /\ s \in rooms[j]]

\* Whoever is in the room hears that the GM k joined.
NotifiedOfGm(k, s, gone) ==
    [j \in Sockets |-> \/ NotifiedAfter(gone)[j]
                       \/ j # k /\ j \notin gone /\ s \in rooms[j]]

\* The old GM is evicted first; if k itself was the session's stale entry it
\* is closed and registered all the same.
JoinGm(k, u, s, p) ==
    LET gone == Replaced(s, "gm") IN
    /\ Accepted(k, u, s, "gm", p)
    /\ ~ IsReauth(k, s)
    /\ ~ IsFull(s, gone)
    /\ conn' = Cleared(conn, gone, "closed")
    /\ peers' = [Cleared(peers, gone, NoPeer) EXCEPT ![k] = Peer(u, s, "gm")]
    /\ authFailures' = [Cleared(authFailures, gone, 0) EXCEPT ![k] = 0]
    /\ rooms' = [Cleared(rooms, gone, {}) EXCEPT ![k] = IF k \in gone THEN {} ELSE @ \cup {s}]
    /\ gmSockets' = [GmMapAfter(gmSockets, gone, NoSocket) EXCEPT ![s] = k]
    /\ gmProtocols' = [GmMapAfter(gmProtocols, gone, NoProtocol) EXCEPT ![s] = p]
    /\ gmPingStrikes' = GmMapAfter(gmPingStrikes, gone, 0)
    /\ fresh' = fresh \cup {s}
    /\ knownGm' = Cleared(knownGm, gone, NoSocket)
    /\ notified' = NotifiedOfGm(k, s, gone)
    /\ roster' = RosterAfterJoin(k, s, gone)
    /\ misses' = Cleared(misses, gone, 0)
    /\ UNCHANGED <<pings, games, members>>

\* A socket already in the session: nothing is announced, nobody is evicted,
\* the session is not asked whether it is full.
ReauthPlayer(k, u, s) ==
    /\ Accepted(k, u, s, "player", NoProtocol)
    /\ IsReauth(k, s)
    /\ peers' = [peers EXCEPT ![k] = Peer(u, s, "player")]
    /\ authFailures' = [authFailures EXCEPT ![k] = 0]
    /\ knownGm' = [knownGm EXCEPT ![k] = gmSockets[s]]
    /\ notified' = [notified EXCEPT ![k] = FALSE]
    /\ rooms' = [rooms EXCEPT ![k] = @ \cup {s}]
    /\ UNCHANGED <<conn, gmSockets, gmProtocols, gmPingStrikes, pings, database, roster, misses>>

ReauthGm(k, u, s, p) ==
    /\ Accepted(k, u, s, "gm", p)
    /\ IsReauth(k, s)
    /\ peers' = [peers EXCEPT ![k] = Peer(u, s, "gm")]
    /\ authFailures' = [authFailures EXCEPT ![k] = 0]
    /\ gmSockets' = [gmSockets EXCEPT ![s] = k]
    /\ gmProtocols' = [gmProtocols EXCEPT ![s] = p]
    /\ fresh' = fresh \cup {s}
    /\ rooms' = [rooms EXCEPT ![k] = @ \cup {s}]
    /\ UNCHANGED <<conn, gmPingStrikes, pings, games, members, told, misses>>

-----------------------------------------------------------------------------
(* pingGmSocket: GET /publicgames calls it for each public game that has a  *)
(* GM.  A game here is a public one; a private one is never pinged.        *)

InFlight(s) == Cardinality({w \in Sockets \X (1 .. MaxPings) : w[2] <= pings[s][w[1]]})

Listed(s) == s \in games /\ GmConnected(s)

PingStart(s) ==
    /\ Listed(s)
    /\ conn[gmSockets[s]] = "open"
    /\ InFlight(s) < MaxPings
    /\ pings[s][gmSockets[s]] < MaxPings
    /\ pings' = [pings EXCEPT ![s][gmSockets[s]] = @ + 1]
    /\ UNCHANGED <<conn, authFailures, rooms, registry, database, told, misses>>

\* mutant: the entry is dropped as removePeer does, for a registered GM only.
PingGoneOfPeer(s) ==
    /\ Listed(s)
    /\ conn[gmSockets[s]] # "open"
    /\ IF IsGmPeer(gmSockets[s], s)
       THEN /\ gmSockets' = [gmSockets EXCEPT ![s] = NoSocket]
            /\ gmProtocols' = [gmProtocols EXCEPT ![s] = NoProtocol]
            /\ gmPingStrikes' = [gmPingStrikes EXCEPT ![s] = 0]
       ELSE UNCHANGED <<gmSockets, gmProtocols, gmPingStrikes>>
    /\ UNCHANGED <<conn, authFailures, rooms, peers, pings, database, told, misses>>

\* The entry names a socket that is gone: only the GM maps are cleared.
PingGone(s) ==
    /\ Listed(s)
    /\ conn[gmSockets[s]] # "open"
    /\ gmSockets' = [gmSockets EXCEPT ![s] = NoSocket]
    /\ gmProtocols' = [gmProtocols EXCEPT ![s] = NoProtocol]
    /\ gmPingStrikes' = [gmPingStrikes EXCEPT ![s] = 0]
    /\ UNCHANGED <<conn, authFailures, rooms, peers, pings, database, told, misses>>

\* mutant: an answer does not clear the strikes.
PingAckKeepsStrikes(s, k) ==
    /\ pings[s][k] > 0
    /\ conn[k] = "open"
    /\ pings' = [pings EXCEPT ![s][k] = @ - 1]
    /\ misses' = [misses EXCEPT ![k] = 0]
    /\ UNCHANGED <<conn, authFailures, rooms, registry, database, told>>

PingAck(s, k) ==
    /\ pings[s][k] > 0
    /\ conn[k] = "open"
    /\ pings' = [pings EXCEPT ![s][k] = @ - 1]
    /\ gmPingStrikes' = [gmPingStrikes EXCEPT ![s] = 0]
    /\ misses' = [misses EXCEPT ![k] = 0]
    /\ UNCHANGED <<conn, authFailures, rooms, peers, gmSockets, gmProtocols, database, told>>

MissesAfter(k) == IF misses[k] < MaxStrikes THEN misses[k] + 1 ELSE misses[k]

\* mutant: every timeout counts as the first.
PingStrikeOne(s, k) ==
    /\ pings[s][k] > 0
    /\ gmPingStrikes[s] + 1 < MaxStrikes
    /\ pings' = [pings EXCEPT ![s][k] = @ - 1]
    /\ gmPingStrikes' = [gmPingStrikes EXCEPT ![s] = 1]
    /\ misses' = [misses EXCEPT ![k] = IF conn[k] = "open" THEN MissesAfter(k) ELSE @]
    /\ UNCHANGED <<conn, authFailures, rooms, peers, gmSockets, gmProtocols, database, told>>

\* A ping sent to k times out: its timer outlives the socket, and the strike
\* is counted for the session whoever its GM is by now.
PingStrike(s, k) ==
    /\ pings[s][k] > 0
    /\ gmPingStrikes[s] + 1 < MaxStrikes
    /\ pings' = [pings EXCEPT ![s][k] = @ - 1]
    /\ gmPingStrikes' = [gmPingStrikes EXCEPT ![s] = @ + 1]
    /\ misses' = [misses EXCEPT ![k] = IF conn[k] = "open" THEN MissesAfter(k) ELSE @]
    /\ UNCHANGED <<conn, authFailures, rooms, peers, gmSockets, gmProtocols, database, told>>

\* The last strike evicts the socket the ping was sent to.
PingEvict(s, k) ==
    /\ pings[s][k] > 0
    /\ gmPingStrikes[s] + 1 >= MaxStrikes
    /\ pings' = [pings EXCEPT ![s][k] = @ - 1]
    /\ CloseSockets({k})
    /\ UNCHANGED database

-----------------------------------------------------------------------------
(* The database's side: who may authenticate, and what the cleanup deletes.*)

\* gamelist/join let u in (password and limits: see GameSessions).
JoinGame(u, s) ==
    /\ s \in games
    /\ u # OwnerOf[s]
    /\ <<u, s>> \notin members
    /\ members' = members \cup {<<u, s>>}
    /\ UNCHANGED <<conn, authFailures, rooms, registry, pings, games, fresh, told, misses>>

\* The rows go; the sockets registered in the session are left as they are.
Deleted(gone) ==
    /\ games' = games \ gone
    /\ members' = {m \in members : m[2] \notin gone}

DeleteGame(s) ==
    /\ s \in games
    /\ Deleted({s})
    /\ fresh' = fresh \ {s}
    /\ UNCHANGED <<conn, authFailures, rooms, registry, pings, told, misses>>

\* sessionExpiryDays pass since last_gm_seen_at.
Expire(s) ==
    /\ s \in fresh
    /\ fresh' = fresh \ {s}
    /\ UNCHANGED <<conn, authFailures, rooms, registry, pings, games, members, told, misses>>

\* mutants: the sessions whose GM answers pings; those with anybody in them.
AnsweringGmSessionIds == {s \in Sessions : GmConnected(s) /\ gmPingStrikes[s] = 0}
BusySessionIds == {s \in Sessions : PeersOf(s) # {}}

GmSessionIds == {s \in Sessions : GmConnected(s)}

RunCleanup ==
    /\ fresh' = fresh \cup (GmSessionIds \cap games)
    /\ Deleted({s \in games : s \notin fresh' /\ s \notin GmSessionIds})
    /\ UNCHANGED <<conn, authFailures, rooms, registry, pings, told, misses>>

-----------------------------------------------------------------------------
Announced == Protocols \cup {NoProtocol}

Authenticate(k) ==
    \/ AuthInvalidPayload(k)
    \/ AuthBadToken(k)
    \/ AuthBadTokenDrop(k)
    \/ \E u \in Users, s \in Sessions :
          \/ \E role \in Roles, p \in Announced :
                AuthRefused(k, u, s, role, p) \/ AuthFull(k, u, s, role, p)
          \/ JoinPlayer(k, u, s)
          \/ ReauthPlayer(k, u, s)
          \/ \E p \in Protocols : JoinGm(k, u, s, p) \/ ReauthGm(k, u, s, p)

\* A ping is sent, or the entry turns out to be one of a socket that is gone.
PingGmSocket(s) ==
    /\ Listed(s)
    /\ IF conn[gmSockets[s]] = "open" THEN PingStart(s) ELSE PingGone(s)

Ping(s) ==
    \/ PingGmSocket(s)
    \/ \E k \in Sockets : PingAck(s, k) \/ PingStrike(s, k) \/ PingEvict(s, k)

Next ==
    \/ \E k \in Sockets : Connect(k) \/ Disconnect(k) \/ Authenticate(k)
    \/ ServerRestart
    \/ \E s \in Sessions : Ping(s) \/ DeleteGame(s) \/ Expire(s)
    \/ \E u \in Users, s \in Sessions : JoinGame(u, s)
    \/ RunCleanup

Spec == Init /\ [][Next]_vars

(* A waiting player's client authenticates again when it hears of the GM;  *)
(* the public page keeps being asked for; a ping's timer fires; days pass  *)
(* and the hourly cleanup runs.                                            *)

ClientReauthenticates(k) ==
    /\ notified[k]
    /\ \E u \in Users, s \in Sessions :
          /\ IsPlayer(k, s)
          /\ peers[k].user = u
          /\ ReauthPlayer(k, u, s) \/ AuthRefused(k, u, s, "player", NoProtocol)

Fairness ==
    /\ \A k \in Sockets : WF_vars(ClientReauthenticates(k))
    /\ \A s \in Sessions : WF_vars(PingStart(s)) /\ WF_vars(PingGone(s)) /\ WF_vars(Expire(s))
    /\ \A s \in Sessions, k \in Sockets :
          WF_vars(PingAck(s, k) \/ PingStrike(s, k) \/ PingEvict(s, k))
    /\ WF_vars(RunCleanup)

LiveSpec == Spec /\ Fairness

-----------------------------------------------------------------------------
(* Properties.                                                             *)

\* The registry is exact: a session's GM entry names a socket exactly when that
\* socket is open and registered as its GM, an entry has a protocol exactly when
\* it has a socket, and nobody is registered on a closed socket.  Everything that
\* asks "is there a GM" (relays, gm-alive, publicgames, the cleanup) relies on it
\* (signalingService.js:40-47, 82-85, 95-102).
RegistryExact ==
    /\ \A s \in Sessions, k \in Sockets : gmSockets[s] = k <=> IsGmPeer(k, s)
    /\ \A s \in Sessions : GmConnected(s) <=> gmProtocols[s] # NoProtocol
    /\ \A k \in Sockets : IsPeer(k) => conn[k] = "open"

\* No order of joins, GM replacements and re-authentications (which skip the
\* check) puts more sockets in a session than its limit (authenticate.js:90-104).
SessionCapacity == \A s \in Sessions : Cardinality(PeersOf(s)) <= MaxPeers

\* Of two sockets registered in one session at least one was told of the other,
\* and nobody still counts on a socket that has left: PEER_JOINED and PEER_LEFT
\* miss nobody through evictions, replacements and restarts
\* (authenticate.js:140-147, signalingService.js:65-70, signalingServer.js:45).
RosterExact ==
    /\ \A k \in Sockets : \A j \in roster[k] :
          \E s \in Sessions : InSession(j, s) /\ InSession(k, s)
    /\ \A s \in Sessions : \A j, k \in PeersOf(s) :
          j # k => j \in roster[k] \/ k \in roster[j]

\* A player's idea of the GM is right, or it has been sent the news that makes it
\* ask again (authenticate.js:126-147).
PlayersInformed ==
    \A k \in Sockets, s \in Sessions :
        IsPlayer(k, s) => notified[k] \/ knownGm[k] = gmSockets[s]

\* The owner's new GM connection is not refused as one too many after the old
\* one was already evicted for it (authenticate.js:91-103).
ReplacementNotRefused ==
    [][\A k \in Sockets, u \in Users, s \in Sessions, p \in Protocols :
          AuthFull(k, u, s, "gm", p) => ~ GmConnected(s)]_vars

\* The cleanup never deletes a game whose GM is connected, however long ago it
\* authenticated (cleanupService.js:26-50).
CleanupSparesLiveGame ==
    [][RunCleanup =>
          \A s \in games : (\E k \in Sockets : conn[k] = "open" /\ IsGmPeer(k, s))
                           => s \in games']_vars

\* A GM is evicted by pings only after missing, without answering any in between,
\* all of MaxStrikes but the strikes its predecessor's pings in flight can leave
\* behind (signalingService.js:181-196).
EvictionNeedsMisses ==
    [][\A s \in Sessions, k \in Sockets :
          PingEvict(s, k) /\ conn[k] = "open" => misses[k] + 1 + MaxPings >= MaxStrikes]_vars

\* What the comment promises: one slow answer does not break an active session
\* (signalingService.js:10-11, 183-185).
SingleSlowAnswerForgiven ==
    [][\A s \in Sessions, k \in Sockets :
          PingEvict(s, k) /\ conn[k] = "open" => misses[k] + 1 >= 2]_vars

\* While a session keeps its GM connection, every player in it comes to know it:
\* the announcement of a new GM reaches waiting players (authenticate.js:136-147).
PlayersFindGm ==
    \A k, g \in Sockets, s \in Sessions :
        IsPlayer(k, s) /\ gmSockets[s] = g
            ~> knownGm[k] = g \/ gmSockets[s] # g \/ ~ IsPlayer(k, s)

\* A listed GM that misses a ping answers a later one or loses the session, it
\* does not stay listed and silent (signalingService.js:181-203).
SilentGmEvicted ==
    \A g \in Sockets, s \in Sessions :
        gmSockets[s] = g /\ misses[g] > 0 ~> misses[g] = 0 \/ s \notin games

\* A game its GM backend does not come back to is deleted (config.js:57-59,
\* cleanupService.js:36-50).
DeadGamesExpire ==
    \A s \in Sessions : s \in games /\ ~ GmConnected(s) ~> s \notin games \/ GmConnected(s)

\* A GM entry left behind by a socket that changed its session or role is
\* dropped by the next ping (signalingService.js:171-178).
StaleEntryDropped ==
    \A s \in Sessions : Listed(s) /\ conn[gmSockets[s]] = "closed"
                            ~> ~ (Listed(s) /\ conn[gmSockets[s]] = "closed")

-----------------------------------------------------------------------------
(* The abstract directory this server implements.                          *)

Directory == INSTANCE GmDirectory WITH
    holder <- gmSockets,
    retired <- {k \in Sockets : conn[k] = "closed"},
    waits <- [k \in Sockets |->
                IF IsPeer(k) /\ peers[k].role = "player" THEN peers[k].session ELSE NoSession],
    belief <- knownGm

\* The registry, the announcements and the re-authentications together keep the
\* directory's promise (authenticate.js:86-147, signalingService.js:40-93).
ImplementsDirectory == Directory!Spec
=============================================================================
