---------------------------- MODULE ServerProofs ----------------------------
(***************************************************************************)
(* What rests on the registry: the relays and the public list of games.    *)
(* What SignalingProofs proves of the registry is true of a server that    *)
(* also relays or is asked for its games, and gives what players may rely  *)
(* on and what a visitor is told.                                          *)
(***************************************************************************)
EXTENDS Relay, PublicGames, SignalingProofs

-----------------------------------------------------------------------------
(* The relays.                                                             *)

\* A server that relays is a signaling server: relaying and counting candidates
\* leave the registry as it is.
THEOREM RelayingKeepsTheRegistry == RelaySpec => Spec
<1>1. RelayInit => Init
  BY DEF RelayInit
<1>2. [RelayNext]_allVars => [Next]_vars
  <2> SUFFICES ASSUME [RelayNext]_allVars PROVE [Next]_vars
    OBVIOUS
  <2>1. CASE ServerStep
    BY <2>1 DEF ServerStep
  <2>2. ASSUME NEW k \in Sockets, NEW j \in Sockets,
               RelayOffer(k, j) \/ RelayAnswer(k, j)
                 \/ RelayIceCandidate(k, j) \/ RefuseIceCandidate(k, j)
        PROVE  UNCHANGED vars
    BY <2>2 DEF RelayOffer, RelayAnswer, RelayIceCandidate, RefuseIceCandidate
  <2>3. CASE Tick
    BY <2>3 DEF Tick
  <2>4. CASE UNCHANGED allVars
    BY <2>4 DEF allVars
  <2> QED BY <2>1, <2>2, <2>3, <2>4 DEF RelayNext
<1> QED BY <1>1, <1>2, PTL DEF RelaySpec, Spec

\* Counters are of registered sockets only: whatever takes a socket from the
\* registry takes its counters too, and only registered sockets get new ones.
THEOREM CountersAreOfPeers == RelaySpec => []CountersOfPeers
<1>1. RelayInit => CountersOfPeers
  BY DEF RelayInit, CountersOfPeers
<1>2. CountersOfPeers /\ [RelayNext]_allVars => CountersOfPeers'
  <2> SUFFICES ASSUME CountersOfPeers, [RelayNext]_allVars,
                      NEW w \in Pairs, iceRateLimits'[w] # NoEntry
               PROVE  (IsPeer(w[1]) /\ IsPeer(w[2]))'
    BY DEF CountersOfPeers
  <2>0. w[1] \in Sockets /\ w[2] \in Sockets /\ w = <<w[1], w[2]>>
    BY DEF Pairs
  <2>1. CASE ServerStep
    <3>1. w[1] \notin Removed /\ w[2] \notin Removed /\ iceRateLimits[w] # NoEntry
      BY <2>1 DEF ServerStep, WithoutEntriesOf
    <3>2. IsPeer(w[1]) /\ IsPeer(w[2])
      BY <3>1 DEF CountersOfPeers
    <3> QED BY <3>1, <3>2, <2>0 DEF Removed, IsPeer
  <2>2. ASSUME NEW k \in Sockets, NEW j \in Sockets,
               RelayIceCandidate(k, j) \/ RefuseIceCandidate(k, j)
        PROVE  (IsPeer(w[1]) /\ IsPeer(w[2]))'
    <3>1. IsPeer(k) /\ IsPeer(j) /\ peers' = peers
      BY <2>2 DEF RelayIceCandidate, RefuseIceCandidate, MayRelayIce, GmAndPlayer, vars, registry
    <3>2. \E e : iceRateLimits' = [iceRateLimits EXCEPT ![<<k, j>>] = e]
      BY <2>2 DEF RelayIceCandidate, RefuseIceCandidate
    <3>3. CASE w = <<k, j>>
      BY <3>1, <3>3 DEF IsPeer
    <3>4. CASE w # <<k, j>>
      <4>1. iceRateLimits[w] # NoEntry
        BY <3>2, <3>4
      <4> QED BY <4>1, <3>1 DEF CountersOfPeers, IsPeer
    <3> QED BY <3>3, <3>4
  <2>3. ASSUME NEW k \in Sockets, NEW j \in Sockets, RelayOffer(k, j) \/ RelayAnswer(k, j)
        PROVE  (IsPeer(w[1]) /\ IsPeer(w[2]))'
    BY <2>3 DEF RelayOffer, RelayAnswer, CountersOfPeers, IsPeer, vars, registry
  <2>4. CASE Tick
    BY <2>4 DEF Tick, CountersOfPeers, IsPeer, vars, registry
  <2>5. CASE UNCHANGED allVars
    BY <2>5 DEF allVars, relayVars, CountersOfPeers, IsPeer, vars, registry
  <2> QED BY <2>1, <2>2, <2>3, <2>4, <2>5 DEF RelayNext
<1> QED BY <1>1, <1>2, PTL DEF RelaySpec

\* A player's offer to the GM it was last told of is passed on, unless the player
\* has since been told to look again.
THEOREM OffersDoReachTheGm ==
    ASSUME Rebinds = FALSE
    PROVE  RelaySpec => []OffersReachTheGm
<1>1. TypeOK /\ RegistryExact /\ PlayersInformed => OffersReachTheGm
  <2> SUFFICES ASSUME TypeOK, RegistryExact, PlayersInformed,
                      NEW k \in Sockets, NEW j \in Sockets,
                      IsPeer(k), peers[k].role = "player", knownGm[k] = j, ~ notified[k]
               PROVE  GmAndPlayer(j, k)
    BY DEF OffersReachTheGm
  <2>1. peers[k] \in PeerRecords
    BY DEF TypeOK, IsPeer
  <2>2. PICK s \in Sessions : peers[k].session = s
    BY <2>1 DEF PeerRecords
  <2>3. gmSockets[s] = j
    BY <2>2 DEF PlayersInformed, IsPlayer, InSession
  <2>4. IsGmPeer(j, s)
    BY <2>3 DEF RegistryExact
  <2> QED BY <2>2, <2>3, <2>4 DEF GmAndPlayer, IsSessionGm, IsGmPeer, InSession
<1> QED BY <1>1, RelayingKeepsTheRegistry, TypeCorrect, RegistryIsExact, PlayersAreInformed, PTL

\* An answer or a candidate reaches a player from the GM it was told of or from a
\* newer one it was told to look for, never from another player.
THEOREM PlayersDoHearTheirGm ==
    ASSUME Rebinds = FALSE
    PROVE  RelaySpec => []PlayersHearTheirGm
<1>1. RelayInit => PlayersHearTheirGm
  BY DEF RelayInit, PlayersHearTheirGm
<1>2. TypeOK /\ PlayersInformed /\ PlayersHearTheirGm /\ [RelayNext]_allVars => PlayersHearTheirGm'
  <2> SUFFICES ASSUME TypeOK, PlayersInformed, PlayersHearTheirGm, [RelayNext]_allVars
               PROVE  PlayersHearTheirGm'
    OBVIOUS
  <2>1. CASE message' = NoMessage
    BY <2>1 DEF PlayersHearTheirGm
  <2>2. CASE UNCHANGED allVars
    BY <2>2 DEF allVars, vars, registry, told, relayVars, PlayersHearTheirGm
  <2>3. ASSUME NEW kind, NEW k \in Sockets, NEW j \in Sockets,
               GmAndPlayer(k, j) \/ GmAndPlayer(j, k), PassOn(kind, k, j), UNCHANGED vars
        PROVE  PlayersHearTheirGm'
    <3> SUFFICES ASSUME peers[j].role = "player"
                 PROVE  knownGm[j] = k \/ notified[j]
      BY <2>3 DEF PassOn, PlayersHearTheirGm, vars, registry, told
    <3>1. GmAndPlayer(k, j)
      BY <2>3 DEF GmAndPlayer, IsSessionGm
    <3>2. PICK s \in Sessions : peers[j].session = s
      BY <3>1 DEF TypeOK, GmAndPlayer, IsPeer, PeerRecords
    <3>3. gmSockets[s] = k /\ IsPlayer(j, s)
      BY <3>1, <3>2 DEF GmAndPlayer, IsSessionGm, IsPlayer, InSession
    <3> QED BY <3>3 DEF PlayersInformed
  <2>4. ASSUME NEW k \in Sockets, NEW j \in Sockets,
               RelayOffer(k, j) \/ RelayAnswer(k, j)
                 \/ RelayIceCandidate(k, j) \/ RefuseIceCandidate(k, j)
        PROVE  PlayersHearTheirGm'
    <3>1. ASSUME RelayOffer(k, j) PROVE PlayersHearTheirGm'
      BY <3>1, <2>3 DEF RelayOffer
    <3>2. ASSUME RelayAnswer(k, j) PROVE PlayersHearTheirGm'
      BY <3>2, <2>3 DEF RelayAnswer
    <3>3. ASSUME RelayIceCandidate(k, j) PROVE PlayersHearTheirGm'
      BY <3>3, <2>3 DEF RelayIceCandidate, MayRelayIce
    <3>4. ASSUME RefuseIceCandidate(k, j) PROVE PlayersHearTheirGm'
      BY <3>4, <2>1 DEF RefuseIceCandidate
    <3> QED BY <2>4, <3>1, <3>2, <3>3, <3>4
  <2>5. CASE ServerStep
    BY <2>5, <2>1 DEF ServerStep
  <2>6. CASE Tick
    BY <2>6, <2>1 DEF Tick
  <2> QED BY <2>2, <2>4, <2>5, <2>6 DEF RelayNext
<1> QED BY <1>1, <1>2, RelayingKeepsTheRegistry, TypeCorrect, PlayersAreInformed, PTL DEF RelaySpec

-----------------------------------------------------------------------------
(* The limit on candidates, for any limit and length of the window.  What  *)
(* was passed on for a pair is a set of cells, one for each candidate: its *)
(* age and its number among those of that age.                             *)

Cells(p, lo, hi) ==
    {c \in Ages \X (1 .. IceMax + 1) : c[2] <= p[c[1]] /\ lo <= c[1] /\ c[1] <= hi}

History == [Ages -> 0 .. IceMax]

LEMMA CellsFinite ==
    ASSUME NEW p, NEW lo, NEW hi
    PROVE  /\ IsFiniteSet(Cells(p, lo, hi))
           /\ Cardinality(Cells(p, lo, hi)) \in Nat
<1>1. IsFiniteSet(Ages) /\ IsFiniteSet(1 .. IceMax + 1)
  BY FS_Interval, RelayAssumption DEF Ages
<1>2. IsFiniteSet(Ages \X (1 .. IceMax + 1))
  BY <1>1, FS_Product
<1>3. IsFiniteSet(Cells(p, lo, hi))
  BY <1>2, FS_Subset DEF Cells
<1> QED BY <1>3, FS_CardinalityType

\* Nothing passed on, nothing counted.
LEMMA NoCells ==
    ASSUME NEW lo, NEW hi
    PROVE  Cardinality(Cells(NonePassed, lo, hi)) = 0
<1>1. Cells(NonePassed, lo, hi) = {}
  BY RelayAssumption DEF Cells, NonePassed, Ages
<1> QED BY <1>1, FS_EmptySet

\* A pair's candidates are those of its window and those before it.
LEMMA CellsSplit ==
    ASSUME NEW p \in History, NEW a \in Nat
    PROVE  LET all == Cardinality(Cells(p, 0, IceWindow)) IN
           /\ Cardinality(Cells(p, 0, a)) <= all
           /\ all <= Cardinality(Cells(p, 0, a)) + Cardinality(Cells(p, a + 1, IceWindow))
<1> DEFINE S == Cells(p, 0, a)
           T == Cells(p, a + 1, IceWindow)
           All == Cells(p, 0, IceWindow)
<1>1. All = S \cup T
  BY RelayAssumption DEF Cells, Ages
<1>2. IsFiniteSet(S) /\ IsFiniteSet(T) /\ IsFiniteSet(All)
  BY CellsFinite
<1>3. S \cap T = {}
  BY RelayAssumption DEF Cells, Ages
<1> HIDE DEF S, T, All
<1>4. Cardinality(S \cup T) = Cardinality(S) + Cardinality(T) - Cardinality(S \cap T)
  BY <1>2, FS_Union
<1>5. Cardinality(S) \in Nat /\ Cardinality(T) \in Nat /\ Cardinality(S \cap T) = 0
  BY <1>2, <1>3, FS_CardinalityType, FS_EmptySet
<1>6. Cardinality(S) <= Cardinality(All) /\ Cardinality(All) <= Cardinality(S) + Cardinality(T)
  BY <1>1, <1>4, <1>5
<1> QED BY <1>6 DEF S, T, All

\* One candidate more is one cell more of the window, and none before it.
LEMMA CellsMore ==
    ASSUME NEW p \in History, NEW a \in Nat,
           NEW q, q = [p EXCEPT ![0] = @ + 1]
    PROVE  /\ Cardinality(Cells(q, 0, a)) = Cardinality(Cells(p, 0, a)) + 1
           /\ Cells(q, a + 1, IceWindow) = Cells(p, a + 1, IceWindow)
<1> DEFINE new == <<0, p[0] + 1>>
<1>1. 0 \in Ages /\ p[0] \in 0 .. IceMax
  BY RelayAssumption DEF Ages, History
<1>2. new \notin Cells(p, 0, a)
  BY <1>1 DEF Cells
<1>3. Cells(q, 0, a) = Cells(p, 0, a) \cup {new}
  <2>1. ASSUME NEW c \in Cells(q, 0, a) PROVE c \in Cells(p, 0, a) \cup {new}
    <3>1. c \in Ages \X (1 .. IceMax + 1) /\ c[2] <= q[c[1]] /\ 0 <= c[1] /\ c[1] <= a
      BY <2>1 DEF Cells
    <3>2. CASE c[1] # 0
      BY <3>1, <3>2 DEF Cells, History
    <3>3. CASE c[1] = 0
      <4>1. c[2] <= p[0] + 1 /\ c = <<0, c[2]>> /\ c[2] \in 1 .. IceMax + 1
        BY <3>1, <3>3, <1>1 DEF History
      <4>2. CASE c[2] = p[0] + 1
        BY <4>1, <4>2
      <4>3. CASE c[2] # p[0] + 1
        <5>1. c[2] <= p[c[1]]
          BY <4>1, <4>3, <3>3, <1>1, RelayAssumption
        <5> QED BY <3>1, <5>1 DEF Cells
      <4> QED BY <4>2, <4>3
    <3> QED BY <3>2, <3>3
  <2>2. ASSUME NEW c \in Cells(p, 0, a) PROVE c \in Cells(q, 0, a)
    <3>1. c \in Ages \X (1 .. IceMax + 1) /\ c[2] <= p[c[1]] /\ 0 <= c[1] /\ c[1] <= a
      BY DEF Cells
    <3>2. c[2] <= q[c[1]]
      BY <3>1, <1>1, RelayAssumption DEF History
    <3> QED BY <3>1, <3>2 DEF Cells
  <2>3. new \in Cells(q, 0, a)
    BY <1>1, RelayAssumption DEF Cells, History
  <2> QED BY <2>1, <2>2, <2>3
<1>4. Cardinality(Cells(q, 0, a)) = Cardinality(Cells(p, 0, a)) + 1
  BY <1>2, <1>3, CellsFinite, FS_AddElement
<1>5. Cells(q, a + 1, IceWindow) = Cells(p, a + 1, IceWindow)
  <2>1. \A c \in Ages \X (1 .. IceMax + 1) : a + 1 <= c[1] => q[c[1]] = p[c[1]]
    BY DEF Ages, History
  <2> QED BY <2>1 DEF Cells
<1> QED BY <1>4, <1>5

\* The youngest are among the window's.
LEMMA YoungestCounted ==
    ASSUME NEW p \in [Ages -> Nat], p[0] <= IceMax + 1, NEW a \in Nat
    PROVE  p[0] <= Cardinality(Cells(p, 0, a))
<1> DEFINE f == [n \in 1 .. p[0] |-> <<0, n>>]
<1>1. 0 \in Ages /\ p[0] \in Nat
  BY RelayAssumption DEF Ages
<1>2. f \in [1 .. p[0] -> Cells(p, 0, a)]
  BY <1>1, RelayAssumption DEF Cells
<1>3. f \in Injection(1 .. p[0], Cells(p, 0, a))
  BY <1>2 DEF Injection, IsInjective
<1>4. Cardinality(1 .. p[0]) <= Cardinality(Cells(p, 0, a))
  BY <1>3, CellsFinite, FS_Injection
<1>5. Cardinality(1 .. p[0]) = p[0]
  BY <1>1, FS_Interval
<1> QED BY <1>4, <1>5

Aged(p) == [age \in Ages |-> IF age = 0 THEN 0 ELSE p[age - 1]]

\* Time moves the cells along, and out at the window's end.
LEMMA CellsAge ==
    ASSUME NEW p \in History, NEW lo \in Nat, NEW hi \in Nat
    PROVE  /\ Aged(p) \in History
           /\ Cardinality(Cells(Aged(p), lo + 1, hi + 1)) <= Cardinality(Cells(p, lo, hi))
           /\ hi < IceWindow => Cardinality(Cells(Aged(p), lo + 1, hi + 1))
                                  = Cardinality(Cells(p, lo, hi))
<1> DEFINE S == Cells(Aged(p), lo + 1, hi + 1)
           T == Cells(p, lo, hi)
           f == [c \in S |-> <<c[1] - 1, c[2]>>]
<1>1. Aged(p) \in History
  BY RelayAssumption DEF Aged, History, Ages
<1>2. ASSUME NEW c \in S PROVE <<c[1] - 1, c[2]>> \in T
  <2>1. c \in Ages \X (1 .. IceMax + 1) /\ c[2] <= Aged(p)[c[1]]
        /\ lo + 1 <= c[1] /\ c[1] <= hi + 1
    BY DEF Cells
  <2>2. c[1] - 1 \in Ages /\ Aged(p)[c[1]] = p[c[1] - 1]
    <3>1. c[1] \in Ages /\ c[1] # 0 /\ c[1] - 1 \in Ages
      BY <2>1, RelayAssumption DEF Ages
    <3> QED BY <3>1 DEF Aged
  <2> QED BY <2>1, <2>2 DEF Cells, Ages
<1>3. f \in [S -> T]
  BY <1>2
<1>4. \A c, d \in S : f[c] = f[d] => c = d
  BY DEF Cells, Ages
<1>5. f \in Injection(S, T)
  BY <1>3, <1>4 DEF Injection, IsInjective
<1>6. ASSUME hi < IceWindow, NEW d \in T PROVE \E c \in S : f[c] = d
  <2>1. d \in Ages \X (1 .. IceMax + 1) /\ d[2] <= p[d[1]] /\ lo <= d[1] /\ d[1] <= hi
    BY DEF Cells
  <2>2. d[1] + 1 \in Ages /\ Aged(p)[d[1] + 1] = p[d[1]]
    <3>1. d[1] + 1 \in Ages /\ d[1] + 1 # 0 /\ (d[1] + 1) - 1 = d[1]
      BY <1>6, <2>1, RelayAssumption DEF Ages
    <3>2. Aged(p)[d[1] + 1] = p[(d[1] + 1) - 1]
      BY <3>1 DEF Aged
    <3> QED BY <3>1, <3>2
  <2>3. <<d[1] + 1, d[2]>> \in S
    BY <2>1, <2>2 DEF Cells, Ages
  <2>4. f[<<d[1] + 1, d[2]>>] = d
    BY <2>1, <2>3 DEF Ages
  <2> QED BY <2>3, <2>4
<1>7. hi < IceWindow => f \in Surjection(S, T)
  BY <1>3, <1>6 DEF Surjection
<1>8. IsFiniteSet(T)
  BY CellsFinite
<1> HIDE DEF S, T, f
<1>9. Cardinality(S) <= Cardinality(T) /\ (hi < IceWindow => Cardinality(S) = Cardinality(T))
  BY <1>5, <1>7, <1>8, FS_Injection
<1> QED BY <1>1, <1>9 DEF S, T

-----------------------------------------------------------------------------
\* A pair's counter holds what was passed on since its window began, up to the
\* limit, and no more than the limit was passed on before that.
PairInv(entry, p) ==
    IF entry = NoEntry THEN p = NonePassed
    ELSE /\ entry \in Entries
         /\ Cardinality(Cells(p, 0, entry.age)) <= IceMax
         /\ Cardinality(Cells(p, entry.age + 1, IceWindow)) <= IceMax
         /\ IF entry.age <= IceWindow
            THEN Cardinality(Cells(p, 0, entry.age))
                   = IF entry.count > IceMax THEN IceMax ELSE entry.count
            ELSE p[0] = 0

IceInv ==
    /\ iceRateLimits \in [Pairs -> Entries \cup {NoEntry}]
    /\ passed \in [Pairs -> History]
    /\ message \in Messages \cup {NoMessage}
    /\ \A w \in Pairs : PairInv(iceRateLimits[w], passed[w])

LEMMA NonePassedType == NonePassed \in History
BY RelayAssumption DEF NonePassed, History

\* What the candidate about to be counted finds.
LEMMA WindowInv ==
    ASSUME IceInv, NEW k \in Sockets, NEW j \in Sockets
    PROVE  LET w == <<k, j>>
               p == passed[w]
               e == Window(k, j) IN
           /\ p \in History
           /\ e.count \in 0 .. IceMax + 1 /\ e.age \in Ages
           /\ e = [count |-> e.count, age |-> e.age]
           /\ Cardinality(Cells(p, 0, e.age)) = IF e.count > IceMax THEN IceMax ELSE e.count
           /\ Cardinality(Cells(p, e.age + 1, IceWindow)) <= IceMax
<1> DEFINE w == <<k, j>>
           p == passed[w]
           e == Window(k, j)
<1>1. w \in Pairs /\ p \in History /\ PairInv(iceRateLimits[w], p) /\ 0 \in Ages
  BY RelayAssumption DEF IceInv, Pairs, Ages
<1>2. CASE iceRateLimits[w] = NoEntry
  <2>1. p = NonePassed /\ e = [count |-> 0, age |-> 0]
    BY <1>1, <1>2 DEF PairInv, Window
  <2> QED BY <1>1, <2>1, NoCells, RelayAssumption
<1>3. CASE iceRateLimits[w] # NoEntry /\ iceRateLimits[w].age > IceWindow
  <2> DEFINE a == iceRateLimits[w].age
  <2>1. e = [count |-> 0, age |-> 0]
    BY <1>3 DEF Window
  <2>2. a = IceWindow + 1 /\ p[0] = 0 /\ Cardinality(Cells(p, 0, a)) <= IceMax
    BY <1>1, <1>3, RelayAssumption DEF PairInv, Entries
  <2>3. Cells(p, 0, 0) = {}
    BY <2>2, RelayAssumption DEF Cells, Ages
  <2>4. Cells(p, 1, IceWindow) \subseteq Cells(p, 0, a)
    BY <2>2, RelayAssumption DEF Cells, Ages
  <2>5. Cardinality(Cells(p, 1, IceWindow)) <= Cardinality(Cells(p, 0, a))
    BY <2>4, CellsFinite, FS_Subset
  <2>6. Cardinality(Cells(p, 1, IceWindow)) <= IceMax
    BY <2>2, <2>5, CellsFinite, RelayAssumption
  <2>7. Cardinality(Cells(p, 0, 0)) = 0
    BY <2>3, FS_EmptySet
  <2> QED BY <1>1, <2>1, <2>6, <2>7, RelayAssumption
<1>4. CASE iceRateLimits[w] # NoEntry /\ ~ (iceRateLimits[w].age > IceWindow)
  <2>1. e = iceRateLimits[w] /\ e \in Entries
    BY <1>1, <1>4 DEF PairInv, Window
  <2>2. e.count \in 0 .. IceMax + 1 /\ e.age \in Ages /\ e = [count |-> e.count, age |-> e.age]
    BY <1>4, <2>1, RelayAssumption DEF Entries, Ages
  <2> QED BY <1>1, <1>4, <2>1, <2>2, RelayAssumption DEF PairInv, Ages
<1> QED BY <1>2, <1>3, <1>4

LEMMA CandidateInv ==
    ASSUME IceInv, NEW k \in Sockets, NEW j \in Sockets, RelayIceCandidate(k, j)
    PROVE  IceInv'
<1> DEFINE w == <<k, j>>
           p == passed[w]
           q == [p EXCEPT ![0] = @ + 1]
           e == Window(k, j)
           n == Counted(e)
<1>1. w \in Pairs /\ p \in History /\ 0 \in Ages
      /\ e.count \in 0 .. IceMax + 1 /\ e.age \in Ages /\ e.age \in Nat
      /\ e = [count |-> e.count, age |-> e.age]
      /\ Cardinality(Cells(p, 0, e.age)) = (IF e.count > IceMax THEN IceMax ELSE e.count)
      /\ Cardinality(Cells(p, e.age + 1, IceWindow)) <= IceMax
  BY WindowInv, RelayAssumption DEF Pairs, Ages
<1>2. n.count <= IceMax
  BY DEF RelayIceCandidate, WithinLimit
<1>3. n = [count |-> e.count + 1, age |-> e.age] /\ n.count \in 1 .. IceMax /\ n.age = e.age
  <2>1. ~ (e.count > IceMax)
    BY <1>1, <1>2, RelayAssumption DEF Counted
  <2> QED BY <1>1, <1>2, <2>1, RelayAssumption DEF Counted
<1>4. /\ Cardinality(Cells(q, 0, n.age)) = n.count
      /\ Cardinality(Cells(q, n.age + 1, IceWindow)) <= IceMax
  <2>1. /\ Cardinality(Cells(q, 0, e.age)) = Cardinality(Cells(p, 0, e.age)) + 1
        /\ Cells(q, e.age + 1, IceWindow) = Cells(p, e.age + 1, IceWindow)
    BY <1>1, CellsMore
  <2>2. ~ (e.count > IceMax) /\ n.count = e.count + 1
    BY <1>1, <1>3, RelayAssumption
  <2> QED BY <1>1, <1>3, <2>1, <2>2, RelayAssumption
<1>5. q \in History
  <2>1. p[0] \in 0 .. IceMax
    BY <1>1 DEF History
  <2>2. q \in [Ages -> Nat] /\ q[0] = p[0] + 1 /\ q[0] <= IceMax + 1
    BY <1>1, <2>1, RelayAssumption DEF History
  <2>3. q[0] <= Cardinality(Cells(q, 0, n.age))
    BY <1>1, <1>3, <2>2, YoungestCounted
  <2>4. q[0] \in 0 .. IceMax
    BY <1>3, <1>4, <2>1, <2>2, <2>3, RelayAssumption
  <2> QED BY <1>1, <2>4 DEF History
<1>6. n \in Entries /\ n # NoEntry /\ n.age <= IceWindow
  BY <1>1, <1>3, RelayAssumption DEF Entries, Ages
<1>7. PairInv(n, q)
  BY <1>3, <1>4, <1>6, RelayAssumption DEF PairInv
<1>8. iceRateLimits' = [iceRateLimits EXCEPT ![w] = n] /\ passed' = [passed EXCEPT ![w] = q]
  BY DEF RelayIceCandidate
<1>9. message' \in Messages
  BY DEF RelayIceCandidate, PassOn, Messages, Kinds
<1> HIDE DEF n, q, e
<1>10. \A v \in Pairs : PairInv(iceRateLimits'[v], passed'[v])
  BY <1>1, <1>7, <1>8 DEF IceInv
<1> QED BY <1>1, <1>5, <1>6, <1>8, <1>9, <1>10 DEF IceInv

\* A candidate is refused with the limit passed on since the window began.
LEMMA RefusalInv ==
    ASSUME IceInv, NEW k \in Sockets, NEW j \in Sockets, RefuseIceCandidate(k, j)
    PROVE  IceInv' /\ Passed(<<k, j>>) >= IceMax
<1> DEFINE w == <<k, j>>
           p == passed[w]
           e == Window(k, j)
           n == Counted(e)
<1>1. w \in Pairs /\ p \in History /\ 0 \in Ages
      /\ e.count \in 0 .. IceMax + 1 /\ e.age \in Ages /\ e.age \in Nat
      /\ e = [count |-> e.count, age |-> e.age]
      /\ Cardinality(Cells(p, 0, e.age)) = (IF e.count > IceMax THEN IceMax ELSE e.count)
      /\ Cardinality(Cells(p, e.age + 1, IceWindow)) <= IceMax
  BY WindowInv, RelayAssumption DEF Pairs, Ages
<1>2. ~ (n.count <= IceMax)
  BY DEF RefuseIceCandidate, WithinLimit
<1>3. n = [count |-> IceMax + 1, age |-> e.age] /\ e.count >= IceMax
  BY <1>1, <1>2, RelayAssumption DEF Counted
<1>4. Cardinality(Cells(p, 0, e.age)) = IceMax
  BY <1>1, <1>3, RelayAssumption
<1>5. n \in Entries /\ n # NoEntry /\ n.age <= IceWindow /\ n.age = e.age /\ n.count > IceMax
  BY <1>1, <1>3, RelayAssumption DEF Entries, Ages
<1>6. PairInv(n, p)
  BY <1>1, <1>4, <1>5, RelayAssumption DEF PairInv
<1>7. iceRateLimits' = [iceRateLimits EXCEPT ![w] = n] /\ passed' = passed /\ message' = NoMessage
  BY DEF RefuseIceCandidate
<1>8. Passed(w) >= IceMax
  <2>1. Passed(w) = Cardinality(Cells(p, 0, IceWindow))
    <3>1. {c \in Ages \X (1 .. IceMax + 1) : c[2] <= p[c[1]]} = Cells(p, 0, IceWindow)
      BY RelayAssumption DEF Cells, Ages
    <3> QED BY <3>1 DEF Passed
  <2>2. Cardinality(Cells(p, 0, e.age)) <= Cardinality(Cells(p, 0, IceWindow))
    BY <1>1, CellsSplit
  <2>3. Cardinality(Cells(p, 0, IceWindow)) \in Nat
    BY CellsFinite
  <2> QED BY <1>4, <2>1, <2>2, <2>3, RelayAssumption
<1> HIDE DEF n, e
<1>9. \A v \in Pairs : PairInv(iceRateLimits'[v], passed'[v])
  BY <1>1, <1>6, <1>7 DEF IceInv
<1> QED BY <1>1, <1>5, <1>7, <1>8, <1>9 DEF IceInv

LEMMA TickInv ==
    ASSUME IceInv, Tick
    PROVE  IceInv'
<1>1. ASSUME NEW w \in Pairs
      PROVE  /\ iceRateLimits'[w] \in Entries \cup {NoEntry}
             /\ passed'[w] \in History
             /\ PairInv(iceRateLimits'[w], passed'[w])
  <2> DEFINE p == passed[w]
             e == iceRateLimits[w]
  <2>1. p \in History /\ PairInv(e, p) /\ passed'[w] = Aged(p)
        /\ iceRateLimits'[w] = IF e = NoEntry THEN NoEntry ELSE Older(e)
    BY DEF IceInv, Tick, Aged
  <2>2. Aged(p) \in History
    BY <2>1, CellsAge, RelayAssumption
  <2>3. CASE e = NoEntry
    <3>1. Aged(NonePassed) = NonePassed
      BY RelayAssumption DEF Aged, NonePassed, Ages
    <3> QED BY <2>1, <2>2, <2>3, <3>1 DEF PairInv
  <2>4. CASE e # NoEntry
    <3>1. e \in Entries /\ e.count \in 1 .. IceMax + 1 /\ e.age \in 0 .. IceWindow + 1
          /\ e.age \in Nat /\ e = [count |-> e.count, age |-> e.age]
      BY <2>1, <2>4, RelayAssumption DEF PairInv, Entries
    <3>2. Aged(p)[0] = 0
      BY RelayAssumption DEF Aged, Ages
    \* The window moves along, and so does what was before it.
    <3>3. /\ Cells(Aged(p), 0, e.age + 1) = Cells(Aged(p), 1, e.age + 1)
          /\ \A a \in Nat : Cells(Aged(p), a, IceWindow) = Cells(Aged(p), a, IceWindow + 1)
      BY <3>1, <3>2, RelayAssumption DEF Cells, Ages
    <3>4. /\ Cardinality(Cells(Aged(p), 0, e.age + 1)) <= Cardinality(Cells(p, 0, e.age))
          /\ e.age < IceWindow => Cardinality(Cells(Aged(p), 0, e.age + 1))
                                   = Cardinality(Cells(p, 0, e.age))
      <4>1. 0 \in Nat /\ 0 + 1 = 1
        OBVIOUS
      <4> QED BY <2>1, <3>1, <3>3, <4>1, CellsAge
    <3>5. Cardinality(Cells(Aged(p), e.age + 2, IceWindow))
             <= Cardinality(Cells(p, e.age + 1, IceWindow))
      <4>1. e.age + 1 \in Nat /\ (e.age + 1) + 1 = e.age + 2 /\ e.age + 2 \in Nat
        BY <3>1
      <4>2. Cells(Aged(p), e.age + 2, IceWindow) = Cells(Aged(p), e.age + 2, IceWindow + 1)
        BY <3>3, <4>1
      <4>3. Cardinality(Cells(Aged(p), (e.age + 1) + 1, IceWindow + 1))
               <= Cardinality(Cells(p, e.age + 1, IceWindow))
        BY <2>1, <4>1, CellsAge, RelayAssumption
      <4> QED BY <4>1, <4>2, <4>3
    <3>6. CASE e.age <= IceWindow
      <4> DEFINE n == [count |-> e.count, age |-> e.age + 1]
      <4>1. Older(e) = n /\ n \in Entries /\ n # NoEntry
        BY <3>1, <3>6, RelayAssumption DEF Older, Entries
      <4>2. Cardinality(Cells(p, 0, e.age)) <= IceMax
            /\ Cardinality(Cells(p, e.age + 1, IceWindow)) <= IceMax
            /\ Cardinality(Cells(p, 0, e.age)) = IF e.count > IceMax THEN IceMax ELSE e.count
        BY <2>1, <2>4, <3>6 DEF PairInv
      <4>3. Cardinality(Cells(Aged(p), 0, n.age)) <= IceMax
        BY <3>4, <4>2, CellsFinite, RelayAssumption
      <4>4. Cardinality(Cells(Aged(p), n.age + 1, IceWindow)) <= IceMax
        <5>1. n.age + 1 = e.age + 2
          BY <3>1
        <5> QED BY <3>5, <4>2, <5>1, CellsFinite, RelayAssumption
      <4>5. n.age <= IceWindow => Cardinality(Cells(Aged(p), 0, n.age))
                                   = IF n.count > IceMax THEN IceMax ELSE n.count
        BY <3>1, <3>4, <4>2, RelayAssumption
      <4>6. PairInv(n, Aged(p))
        BY <3>2, <4>1, <4>3, <4>4, <4>5 DEF PairInv
      <4> QED BY <2>1, <2>2, <2>4, <4>1, <4>6
    <3>7. CASE ~ (e.age <= IceWindow)
      <4>1. e.age = IceWindow + 1 /\ Older(e) = e
        BY <3>1, <3>7, RelayAssumption DEF Older
      <4>2. Cardinality(Cells(p, 0, e.age)) <= IceMax
        BY <2>1, <2>4 DEF PairInv
      <4>3. Cells(Aged(p), 0, e.age) = Cells(Aged(p), 0, e.age + 1)
            /\ Cells(Aged(p), e.age + 1, IceWindow) = {}
        BY <4>1, RelayAssumption DEF Cells, Ages
      <4>4. Cardinality(Cells(Aged(p), 0, e.age)) <= IceMax
        BY <3>4, <4>2, <4>3, CellsFinite, RelayAssumption
      <4>5. Cardinality(Cells(Aged(p), e.age + 1, IceWindow)) <= IceMax
        BY <4>3, FS_EmptySet, RelayAssumption
      <4>6. PairInv(e, Aged(p))
        BY <2>4, <3>1, <3>2, <3>7, <4>4, <4>5 DEF PairInv
      <4> QED BY <2>1, <2>2, <2>4, <3>1, <4>1, <4>6
    <3> QED BY <3>6, <3>7
  <2> QED BY <2>3, <2>4
<1>2. message' = NoMessage
  BY DEF Tick
<1>3. /\ iceRateLimits' = [w \in Pairs |-> iceRateLimits'[w]]
      /\ passed' = [w \in Pairs |-> passed'[w]]
  BY DEF Tick
<1> QED BY <1>1, <1>2, <1>3 DEF IceInv

LEMMA ServerStepInv ==
    ASSUME IceInv, ServerStep
    PROVE  IceInv'
<1>1. ASSUME NEW w \in Pairs
      PROVE  /\ iceRateLimits'[w] \in Entries \cup {NoEntry}
             /\ passed'[w] \in History
             /\ PairInv(iceRateLimits'[w], passed'[w])
  <2>1. CASE w[1] \in Removed \/ w[2] \in Removed
    <3>1. iceRateLimits'[w] = NoEntry /\ passed'[w] = NonePassed
      BY <2>1 DEF ServerStep, WithoutEntriesOf
    <3> QED BY <3>1, NonePassedType DEF PairInv
  <2>2. CASE ~ (w[1] \in Removed \/ w[2] \in Removed)
    <3>1. iceRateLimits'[w] = iceRateLimits[w] /\ passed'[w] = passed[w]
      BY <2>2 DEF ServerStep, WithoutEntriesOf
    <3> QED BY <3>1 DEF IceInv
  <2> QED BY <2>1, <2>2
<1>2. message' = NoMessage
  BY DEF ServerStep
<1>3. /\ iceRateLimits' = [w \in Pairs |-> iceRateLimits'[w]]
      /\ passed' = [w \in Pairs |-> passed'[w]]
  BY DEF ServerStep, WithoutEntriesOf
<1> QED BY <1>1, <1>2, <1>3 DEF IceInv

LEMMA IceStep ==
    ASSUME IceInv, [RelayNext]_allVars
    PROVE  IceInv'
<1>1. CASE ServerStep
  BY <1>1, ServerStepInv
<1>2. ASSUME NEW k \in Sockets, NEW j \in Sockets, RelayOffer(k, j) \/ RelayAnswer(k, j)
      PROVE  IceInv'
  BY <1>2 DEF RelayOffer, RelayAnswer, PassOn, Messages, Kinds, IceInv
<1>3. ASSUME NEW k \in Sockets, NEW j \in Sockets, RelayIceCandidate(k, j) PROVE IceInv'
  BY <1>3, CandidateInv
<1>4. ASSUME NEW k \in Sockets, NEW j \in Sockets, RefuseIceCandidate(k, j) PROVE IceInv'
  BY <1>4, RefusalInv
<1>5. CASE Tick
  BY <1>5, TickInv
<1>6. CASE UNCHANGED allVars
  BY <1>6 DEF allVars, relayVars, IceInv
<1> QED BY <1>1, <1>2, <1>3, <1>4, <1>5, <1>6 DEF RelayNext

LEMMA IceAlways == RelaySpec => []IceInv
<1>1. RelayInit => IceInv
  BY NonePassedType DEF RelayInit, IceInv, PairInv
<1>2. IceInv /\ [RelayNext]_allVars => IceInv'
  BY IceStep
<1> QED BY <1>1, <1>2, PTL DEF RelaySpec

\* The counters and what is passed on keep their types: no pair has more passed
\* on in one moment than its limit.
THEOREM RelayTypeCorrect == RelaySpec => []RelayTypeOK
<1>1. IceInv => RelayTypeOK
  BY DEF IceInv, RelayTypeOK, History
<1> QED BY <1>1, IceAlways, PTL

\* No window's length sees more than twice the limit, for any limit, any length of
\* the window and any number of sockets that come, go and change their session.
THEOREM CandidatesAreLimited == RelaySpec => []CandidatesLimited
<1>1. IceInv => CandidatesLimited
  <2> SUFFICES ASSUME IceInv, NEW w \in Pairs PROVE Passed(w) <= 2 * IceMax
    BY DEF CandidatesLimited
  <2> DEFINE p == passed[w]
             e == iceRateLimits[w]
  <2>1. p \in History /\ PairInv(e, p)
    BY DEF IceInv
  <2>2. Passed(w) = Cardinality(Cells(p, 0, IceWindow))
    <3>1. {c \in Ages \X (1 .. IceMax + 1) : c[2] <= p[c[1]]} = Cells(p, 0, IceWindow)
      BY RelayAssumption DEF Cells, Ages
    <3> QED BY <3>1 DEF Passed
  <2>3. CASE e = NoEntry
    BY <2>1, <2>2, <2>3, NoCells, RelayAssumption DEF PairInv
  <2>4. CASE e # NoEntry
    <3>1. e.age \in Nat /\ Cardinality(Cells(p, 0, e.age)) <= IceMax
          /\ Cardinality(Cells(p, e.age + 1, IceWindow)) <= IceMax
      BY <2>1, <2>4, RelayAssumption DEF PairInv, Entries
    <3>2. Cardinality(Cells(p, 0, IceWindow))
            <= Cardinality(Cells(p, 0, e.age)) + Cardinality(Cells(p, e.age + 1, IceWindow))
      BY <2>1, <3>1, CellsSplit
    <3>3. /\ Cardinality(Cells(p, 0, IceWindow)) \in Nat
          /\ Cardinality(Cells(p, 0, e.age)) \in Nat
          /\ Cardinality(Cells(p, e.age + 1, IceWindow)) \in Nat
      BY CellsFinite
    <3> HIDE DEF p
    <3> QED BY <2>2, <3>1, <3>2, <3>3, RelayAssumption
  <2> QED BY <2>3, <2>4
<1> QED BY <1>1, IceAlways, PTL

\* Tries that were refused do not keep a pair shut out: a candidate is refused only
\* after the limit was passed on within the window's length.
THEOREM RefusalsAreDeserved == RelaySpec => RefusalsDeserved
<1>1. IceInv /\ [RelayNext]_allVars
        => [\A k, j \in Sockets : RefuseIceCandidate(k, j) => Passed(<<k, j>>) >= IceMax]_allVars
  BY RefusalInv
<1> QED BY <1>1, IceAlways, PTL DEF RelaySpec, RefusalsDeserved

-----------------------------------------------------------------------------
(* The public list.  An answer names the games whose GM was heard; what a  *)
(* visit waits for, and has still to ping, are entries it read.            *)

\* What a visit knows is of the registry as it was when it came.
VisitInv(v) ==
    visits[v] # NoVisit =>
        /\ visits[v].waits \subseteq visits[v].asked
        /\ \A s \in visits[v].left : <<s, gmSockets[s]>> \in visits[v].asked
        /\ \A s \in visits[v].alive :
              \E k \in Sockets : <<s, k>> \in visits[v].asked \cap visits[v].heard

PublicInv ==
    /\ visits \in [Visits -> VisitRecords \cup {NoVisit}]
    /\ \A v \in Visits : VisitInv(v)
    /\ \A v, w \in Visits : InTurn(v) /\ InTurn(w) => v = w

\* The steps of visits are the server's pings; nothing else of a visit's touches
\* the server.
LEMMA PublicStepIsAStep == [PublicNext]_publicVars => [Next]_vars
<1> SUFFICES ASSUME [PublicNext]_publicVars PROVE [Next]_vars
  OBVIOUS
<1>1. ASSUME NEW v \in Visits, NEW s \in Sessions, VisitPings(v, s) \/ VisitDrops(v, s)
      PROVE  Next
  <2>1. PingGmSocket(s)
    BY <1>1 DEF VisitPings, VisitDrops, PingGmSocket, PingStart, PingGone
  <2> QED BY <2>1 DEF Next, Ping
<1>2. ASSUME NEW v \in Visits, NEW s \in Sessions, NEW k \in Sockets,
             GmAnswers(v, s, k) \/ GmSlow(v, s, k)
      PROVE  Next
  <2>1. PingAck(s, k) \/ PingStrike(s, k) \/ PingEvict(s, k)
    BY <1>2 DEF GmAnswers, GmSlow
  <2> QED BY <2>1 DEF Next, Ping
<1>3. CASE VisitsLost
  BY <1>3 DEF VisitsLost, Next
<1>4. CASE Meanwhile
  BY <1>4 DEF Meanwhile, Next
<1>5. ASSUME NEW v \in Visits, Visit(v) PROVE UNCHANGED vars
  BY <1>5 DEF Visit
<1>6. CASE UNCHANGED publicVars
  BY <1>6 DEF publicVars
<1> QED BY <1>1, <1>2, <1>3, <1>4, <1>5, <1>6 DEF PublicNext

LEMMA VisitFields ==
    ASSUME NEW r \in VisitRecords
    PROVE  /\ r # NoVisit
           /\ r.left \in SUBSET Sessions /\ r.waits \in SUBSET GmEntries
           /\ r.alive \in SUBSET Sessions /\ r.asked \in SUBSET GmEntries
           /\ r.heard \in SUBSET GmEntries
BY VisitsAssumption DEF VisitRecords

\* A visit that a step does not change keeps what it knows, unless it has games
\* left to ping and a GM entry changes.
LEMMA VisitKept ==
    ASSUME NEW v \in Visits, VisitInv(v), visits'[v] = visits[v],
           gmSockets' = gmSockets \/ ~ InTurn(v)
    PROVE  VisitInv(v)' /\ (InTurn(v)' <=> InTurn(v))
BY DEF VisitInv, InTurn

\* One visit's record is replaced; the others keep theirs.
LEMMA OneVisit ==
    ASSUME PublicInv, NEW v \in Visits, NEW r \in VisitRecords,
           visits' = [visits EXCEPT ![v] = r],
           r.waits \subseteq r.asked,
           \A s \in r.left : <<s, gmSockets'[s]>> \in r.asked,
           \A s \in r.alive : \E k \in Sockets : <<s, k>> \in r.asked \cap r.heard,
           \A w \in Visits \ {v} : (gmSockets' = gmSockets \/ ~ InTurn(w))
                                   /\ (r.left # {} => ~ InTurn(w))
    PROVE  PublicInv'
<1>1. /\ visits \in [Visits -> VisitRecords \cup {NoVisit}] /\ \A w \in Visits : VisitInv(w)
      /\ \A u, w \in Visits : InTurn(u) /\ InTurn(w) => u = w
  BY DEF PublicInv
<1>2. visits'[v] = r /\ \A w \in Visits \ {v} : visits'[w] = visits[w]
  BY <1>1
<1>3. visits' \in [Visits -> VisitRecords \cup {NoVisit}]
  BY <1>1
<1>4. VisitInv(v)'
  BY <1>2 DEF VisitInv
<1>5. \A w \in Visits \ {v} : VisitInv(w)' /\ (InTurn(w)' <=> InTurn(w))
  BY <1>1, <1>2, VisitKept
<1>6. InTurn(v)' => r.left # {}
  BY <1>2 DEF InTurn
<1>7. \A u, w \in Visits : InTurn(u)' /\ InTurn(w)' => u = w
  BY <1>1, <1>5, <1>6
<1> QED BY <1>3, <1>4, <1>5, <1>7 DEF PublicInv

\* No visit is changed while none is in its turn.
LEMMA NoVisitChanged ==
    ASSUME PublicInv, visits' = visits, NobodysTurn \/ gmSockets' = gmSockets
    PROVE  PublicInv'
<1>1. \A w \in Visits : VisitInv(w)' /\ (InTurn(w)' <=> InTurn(w))
  BY VisitKept DEF PublicInv, NobodysTurn
<1> QED BY <1>1 DEF PublicInv

LEMMA VisitStep ==
    ASSUME TypeOK, PublicInv, NEW v \in Visits, Visit(v)
    PROVE  PublicInv'
<1>. PICK rows : rows = {s \in Sessions : Listed(s)}
  OBVIOUS
<1>. PICK r : r = [left |-> rows, waits |-> {}, alive |-> {},
                   asked |-> {<<s, gmSockets[s]>> : s \in rows}, heard |-> {}]
  OBVIOUS
<1>1. visits' = [visits EXCEPT ![v] = r] /\ NobodysTurn /\ gmSockets' = gmSockets
  BY DEF Visit, vars, registry
<1>2. \A s \in rows : gmSockets[s] \in Sockets
  BY DEF TypeOK, Listed, GmConnected
<1>3. r \in VisitRecords
  BY <1>2 DEF VisitRecords, GmEntries
<1>4. \A w \in Visits : ~ InTurn(w)
  BY <1>1 DEF NobodysTurn
<1> QED BY <1>1, <1>3, <1>4, OneVisit

\* A ping of the turn: the other visits have no game left to ping.
LEMMA VisitTurnStep ==
    ASSUME TypeOK, PublicInv, NEW v \in Visits, NEW s \in Sessions,
           VisitPings(v, s) \/ VisitDrops(v, s)
    PROVE  PublicInv'
<1>. PICK sent \in SUBSET {<<s, gmSockets[s]>>} :
        /\ sent # {} => gmSockets' = gmSockets
        /\ gmSockets' = gmSockets \/ gmSockets' = [gmSockets EXCEPT ![s] = NoSocket]
        /\ visits' = [visits EXCEPT ![v] = [visits[v] EXCEPT !.left = @ \ {s},
                                                             !.waits = @ \cup sent]]
  <2>1. CASE VisitPings(v, s)
    <3>1. visits' = [visits EXCEPT ![v].left = @ \ {s},
                                   ![v].waits = @ \cup {<<s, gmSockets[s]>>}]
          /\ gmSockets' = gmSockets
      BY <2>1 DEF VisitPings, PingStart, registry
    <3>2. visits[v] \in VisitRecords
      BY <2>1 DEF VisitPings, InTurn, PublicInv
    <3> QED BY <3>1, <3>2 DEF PublicInv
  <2>2. CASE VisitDrops(v, s)
    <3>1. visits' = [visits EXCEPT ![v].left = @ \ {s}]
          /\ gmSockets' = [gmSockets EXCEPT ![s] = NoSocket]
      BY <2>2 DEF VisitDrops, PingGone
    <3>2. visits[v] \in VisitRecords
      BY <2>2 DEF VisitDrops, InTurn, PublicInv
    <3>3. [visits[v] EXCEPT !.left = @ \ {s}]
             = [visits[v] EXCEPT !.left = @ \ {s}, !.waits = @ \cup {}]
      BY <3>2 DEF VisitRecords
    <3> QED BY <3>1, <3>2, <3>3 DEF PublicInv
  <2> QED BY <2>1, <2>2
<1>. PICK r : r = [visits[v] EXCEPT !.left = @ \ {s}, !.waits = @ \cup sent]
  OBVIOUS
<1>1. /\ visits[v] \in VisitRecords /\ visits[v] # NoVisit /\ InTurn(v) /\ s \in visits[v].left
      /\ VisitInv(v)
  BY DEF VisitPings, VisitDrops, InTurn, PublicInv
<1>2. /\ visits[v].waits \subseteq visits[v].asked
      /\ \A t \in visits[v].left : <<t, gmSockets[t]>> \in visits[v].asked
      /\ \A t \in visits[v].alive :
              \E k \in Sockets : <<t, k>> \in visits[v].asked \cap visits[v].heard
      /\ visits[v].asked \in SUBSET GmEntries
  BY <1>1, VisitFields DEF VisitInv
<1>3. /\ r \in VisitRecords /\ r.left = visits[v].left \ {s} /\ r.waits = visits[v].waits \cup sent
      /\ r.alive = visits[v].alive /\ r.asked = visits[v].asked /\ r.heard = visits[v].heard
  <2>. PICK S : S = visits[v].left \ {s}
    OBVIOUS
  <2>. PICK W : W = visits[v].waits \cup sent
    OBVIOUS
  <2>1. visits[v] \in VisitRecords /\ S \in SUBSET Sessions /\ W \in SUBSET GmEntries
    BY <1>1, <1>2, VisitFields
  <2>2. r = [visits[v] EXCEPT !.left = S, !.waits = W]
    OBVIOUS
  <2>3. /\ r \in VisitRecords /\ r.left = S /\ r.waits = W
        /\ r.alive = visits[v].alive /\ r.asked = visits[v].asked /\ r.heard = visits[v].heard
    BY <2>1, <2>2 DEF VisitRecords
  <2> QED BY <2>3
<1>4. r.waits \subseteq r.asked
  BY <1>1, <1>2, <1>3
<1>5. \A t \in r.left : <<t, gmSockets'[t]>> \in r.asked
  <2>1. \A t \in Sessions \ {s} : gmSockets'[t] = gmSockets[t]
    BY DEF TypeOK
  <2> QED BY <1>1, <1>2, <1>3, <2>1, VisitFields
<1>6. \A w \in Visits \ {v} : ~ InTurn(w)
  BY <1>1 DEF PublicInv
<1> QED BY <1>2, <1>3, <1>4, <1>5, <1>6, OneVisit

\* A timer that fires takes away what its visit waits for.
LEMMA GmSlowStep ==
    ASSUME PublicInv, NEW v \in Visits, NEW s \in Sessions, NEW k \in Sockets, GmSlow(v, s, k)
    PROVE  PublicInv'
<1>. PICK r : r = [visits[v] EXCEPT !.left = @, !.waits = @ \ {<<s, k>>}]
  OBVIOUS
<1>1. /\ visits[v] \in VisitRecords /\ visits[v] # NoVisit /\ VisitInv(v)
      /\ \A w \in Visits : ~ InTurn(w)
  BY DEF GmSlow, UnderWay, PublicInv, NobodysTurn
<1>2. visits' = [visits EXCEPT ![v] = r]
  <2>1. visits' = [visits EXCEPT ![v].waits = @ \ {<<s, k>>}]
    BY DEF GmSlow
  <2>2. r = [visits[v] EXCEPT !.waits = @ \ {<<s, k>>}]
    BY <1>1 DEF VisitRecords
  <2> QED BY <2>1, <2>2 DEF PublicInv
<1>3. /\ r \in VisitRecords /\ r.left = visits[v].left /\ r.waits \subseteq visits[v].waits
      /\ r.alive = visits[v].alive /\ r.asked = visits[v].asked /\ r.heard = visits[v].heard
  <2>. PICK W : W = visits[v].waits \ {<<s, k>>}
    OBVIOUS
  <2>. PICK S : S = visits[v].left
    OBVIOUS
  <2>1. visits[v] \in VisitRecords /\ S \in SUBSET Sessions /\ W \in SUBSET GmEntries
    BY <1>1, VisitFields
  <2>2. r = [visits[v] EXCEPT !.left = S, !.waits = W]
    OBVIOUS
  <2>3. /\ r \in VisitRecords /\ r.left = S /\ r.waits = W
        /\ r.alive = visits[v].alive /\ r.asked = visits[v].asked /\ r.heard = visits[v].heard
    BY <2>1, <2>2 DEF VisitRecords
  <2> QED BY <2>3
<1>4. r.left = {}
  BY <1>1, <1>3 DEF InTurn
<1> QED BY <1>1, <1>2, <1>3, <1>4, OneVisit DEF VisitInv

\* A visit under way has heard the GM that answers; the one that asked has its game.
LEMMA HeardFields ==
    ASSUME PublicInv, NEW v \in Visits, NEW s \in Sessions, NEW k \in Sockets, NEW w \in Visits,
           UnderWay(w), visits' = Heard(v, s, k)
    PROVE  /\ visits[w] \in VisitRecords /\ visits[w] # NoVisit
           /\ visits'[w] \in VisitRecords
           /\ visits'[w].left = visits[w].left
           /\ visits'[w].asked = visits[w].asked
           /\ visits'[w].heard = visits[w].heard \cup {<<s, k>>}
           /\ w = v => /\ visits'[w].alive = visits[w].alive \cup {s}
                       /\ visits'[w].waits = visits[w].waits \ {<<s, k>>}
           /\ w # v => /\ visits'[w].alive = visits[w].alive
                       /\ visits'[w].waits = visits[w].waits
<1>. PICK r : r = visits[w]
  OBVIOUS
<1>. PICK heard : heard = r.heard \cup {<<s, k>>}
  OBVIOUS
<1>. PICK alive : alive = IF w = v THEN r.alive \cup {s} ELSE r.alive
  OBVIOUS
<1>. PICK waits : waits = IF w = v THEN r.waits \ {<<s, k>>} ELSE r.waits
  OBVIOUS
<1>1. r \in VisitRecords /\ r # NoVisit
  BY DEF UnderWay, PublicInv
<1>2. heard \in SUBSET GmEntries /\ alive \in SUBSET Sessions /\ waits \in SUBSET GmEntries
  BY <1>1, VisitFields DEF GmEntries
<1>3. visits'[w] = [r EXCEPT !.heard = heard, !.alive = alive, !.waits = waits]
  BY DEF Heard
<1>. PICK p : p = visits'[w]
  OBVIOUS
<1>4. /\ p \in VisitRecords /\ p.left = r.left /\ p.waits = waits
      /\ p.alive = alive /\ p.asked = r.asked /\ p.heard = heard
  BY <1>1, <1>2, <1>3 DEF VisitRecords
<1> QED BY <1>1, <1>4

\* Every visit under way hears the GM that answers; the one that asked goes on
\* with its game, which is of an entry it read.
LEMMA GmAnswersStep ==
    ASSUME PublicInv, NEW v \in Visits, NEW s \in Sessions, NEW k \in Sockets,
           GmAnswers(v, s, k)
    PROVE  PublicInv'
<1>1. /\ visits' = Heard(v, s, k) /\ visits[v] # NoVisit /\ <<s, k>> \in visits[v].waits
      /\ \A w \in Visits : ~ InTurn(w)
  BY DEF GmAnswers, UnderWay, NobodysTurn
<1>2. ASSUME NEW w \in Visits
      PROVE  /\ visits'[w] \in VisitRecords \cup {NoVisit} /\ VisitInv(w)' /\ ~ InTurn(w)'
  <2>1. visits[w] \in VisitRecords \cup {NoVisit} /\ VisitInv(w) /\ ~ InTurn(w)
    BY <1>1 DEF PublicInv
  <2>2. CASE ~ UnderWay(w)
    <3>1. visits'[w] = visits[w]
      BY <1>1, <2>2 DEF Heard
    <3> QED BY <2>1, <3>1, VisitKept DEF InTurn
  <2>3. CASE UnderWay(w)
    <3>. PICK r : r = visits[w]
      OBVIOUS
    <3>1. /\ r \in VisitRecords /\ r # NoVisit /\ visits'[w] \in VisitRecords
          /\ visits'[w].left = r.left /\ visits'[w].asked = r.asked
          /\ visits'[w].heard = r.heard \cup {<<s, k>>} /\ visits'[w].waits \subseteq r.waits
          /\ visits'[w].alive = IF w = v THEN r.alive \cup {s} ELSE r.alive
      <4>1. /\ visits[w] \in VisitRecords /\ visits[w] # NoVisit
            /\ visits'[w] \in VisitRecords
            /\ visits'[w].left = visits[w].left
            /\ visits'[w].asked = visits[w].asked
            /\ visits'[w].heard = visits[w].heard \cup {<<s, k>>}
            /\ w = v => /\ visits'[w].alive = visits[w].alive \cup {s}
                        /\ visits'[w].waits = visits[w].waits \ {<<s, k>>}
            /\ w # v => /\ visits'[w].alive = visits[w].alive
                        /\ visits'[w].waits = visits[w].waits
        BY <1>1, <2>3, HeardFields
      <4> QED BY <4>1
    <3>2. /\ r.waits \subseteq r.asked /\ r.left = {}
          /\ \A t \in r.alive : \E j \in Sockets : <<t, j>> \in r.asked \cap r.heard
      BY <2>1, <3>1 DEF VisitInv, InTurn
    <3>3. \A t \in visits'[w].alive :
             \E j \in Sockets : <<t, j>> \in visits'[w].asked \cap visits'[w].heard
      BY <1>1, <3>1, <3>2
    <3>4. VisitInv(w)'
      BY <3>1, <3>2, <3>3 DEF VisitInv
    <3> QED BY <3>1, <3>2, <3>4 DEF InTurn
  <2> QED BY <2>2, <2>3
<1>3. visits' \in [Visits -> VisitRecords \cup {NoVisit}]
  BY <1>1, <1>2 DEF Heard
<1> QED BY <1>2, <1>3 DEF PublicInv

LEMMA PublicInvStep ==
    ASSUME TypeOK, PublicInv, [PublicNext]_publicVars
    PROVE  PublicInv'
<1>1. ASSUME NEW v \in Visits, NEW s \in Sessions, NEW k \in Sockets,
             GmAnswers(v, s, k) \/ GmSlow(v, s, k)
      PROVE  PublicInv'
  BY <1>1, GmAnswersStep, GmSlowStep
<1>2. CASE VisitsLost
  BY <1>2 DEF VisitsLost, PublicInv, VisitInv, InTurn
<1>3. CASE Meanwhile
  BY <1>3, NoVisitChanged DEF Meanwhile
<1>4. CASE UNCHANGED publicVars
  BY <1>4, NoVisitChanged DEF publicVars, vars, registry
<1> QED BY <1>1, <1>2, <1>3, <1>4, VisitStep, VisitTurnStep DEF PublicNext

\* Asking for the list is nothing to the registry but pings: visits come, wait and
\* end, and the server goes through a behaviour of Signaling
\* (gamelist.js:67-77, signalingService.js:167-206).
THEOREM VisitsOnlyPing == PublicSpec => Spec
<1>1. PublicInit => Init
  BY DEF PublicInit
<1> QED BY <1>1, PublicStepIsAStep, PTL DEF PublicSpec, Spec

LEMMA PublicInvariance == PublicSpec => [](TypeOK /\ PublicInv)
<1>1. PublicInit => PublicInv
  BY DEF PublicInit, PublicInv, VisitInv, InTurn
<1>2. TypeOK /\ PublicInv /\ [PublicNext]_publicVars => PublicInv'
  BY PublicInvStep
<1> QED BY <1>1, <1>2, VisitsOnlyPing, TypeCorrect, PTL DEF PublicSpec

\* A game in an answer was listed when the visit came, and the GM connection it had
\* then answered a ping since, whatever clients re-authenticated as meanwhile
\* (gamelist.js:67-77, signalingService.js:167-206).
THEOREM ListedGamesDidAnswer == PublicSpec => []ListedGamesAnswered
<1>1. PublicInv => ListedGamesAnswered
  BY DEF PublicInv, VisitInv, ListedGamesAnswered, Answered
<1> QED BY <1>1, PublicInvariance, PTL

-----------------------------------------------------------------------------
(* Why a visit is answered: what it awaits is in flight, so that a timer    *)
(* ends it, and what it has left can be pinged or dropped.  Each ping in    *)
(* flight is some visit's, and a visit has one for a session at most; so    *)
(* there are never as many as MaxPings when the next one is sent.           *)

Awaits(v, s, k) == visits[v] # NoVisit /\ <<s, k>> \in visits[v].waits
WaitFor(s, k) == {v \in Visits : Awaits(v, s, k)}

\* A visit pings a session once, one that stays listed until then.
TurnInv(v) ==
    visits[v] # NoVisit =>
        /\ \A s \in visits[v].left : Listed(s) /\ \A k \in Sockets : ~ Awaits(v, s, k)
        /\ \A s \in Sessions, j, k \in Sockets : Awaits(v, s, j) /\ Awaits(v, s, k) => j = k

PingsCounted == \A s \in Sessions, k \in Sockets : pings[s][k] = Cardinality(WaitFor(s, k))

AwaitInv == PingsCounted /\ \A v \in Visits : TurnInv(v)

\* Of cells that are counted by disjoint subsets of T there are no more than
\* T has members: each is one member's.
LEMMA CellsWithin ==
    ASSUME NEW T, IsFiniteSet(T), NEW W \in [Sockets -> SUBSET T], NEW f \in [Sockets -> Nat],
           \A k \in Sockets : f[k] = Cardinality(W[k]),
           \A j, k \in Sockets : W[j] \cap W[k] # {} => j = k
    PROVE  IsFiniteSet(InFlightOf(f)) /\ Cardinality(InFlightOf(f)) <= Cardinality(T)
<1> DEFINE B(k) == CHOOSE b : b \in Bijection(1 .. f[k], W[k])
           C == InFlightOf(f)
<1>1. \A k \in Sockets : B(k) \in Bijection(1 .. f[k], W[k])
  <2> TAKE k \in Sockets
  <2>1. IsFiniteSet(W[k])
    BY FS_Subset
  <2>2. Bijection(1 .. f[k], W[k]) # {}
    BY <2>1, FS_CardinalityType DEF ExistsBijection
  <2> QED BY <2>2
<1>2. \A k \in Sockets : /\ B(k) \in [1 .. f[k] -> W[k]]
                         /\ \A m, n \in 1 .. f[k] : B(k)[m] = B(k)[n] => m = n
  BY <1>1 DEF Bijection, Injection, IsInjective
<1> HIDE DEF B
<1>3. \A w \in C : w = <<w[1], w[2]>> /\ w[1] \in Sockets /\ w[2] \in 1 .. f[w[1]]
  BY DEF InFlightOf
<1>. PICK g : g = [w \in C |-> B(w[1])[w[2]]]
  OBVIOUS
<1> HIDE DEF C
<1>4. \A w \in C : g[w] \in W[w[1]] /\ g[w] \in T
  BY <1>2, <1>3
<1>5. ASSUME NEW w \in C, NEW x \in C, g[w] = g[x] PROVE w = x
  <2>1. w[1] = x[1]
    BY <1>3, <1>4, <1>5
  <2>2. w[2] = x[2]
    BY <1>2, <1>3, <1>5, <2>1
  <2> QED BY <1>3, <2>1, <2>2
<1>6. g \in Injection(C, T)
  BY <1>4, <1>5 DEF Injection, IsInjective
<1> QED BY <1>6, FS_Injection DEF C

\* Visits that go on as they were: so do their pings.
LEMMA SameAwaits ==
    ASSUME AwaitInv, pings' = pings,
           \A v \in Visits, s \in Sessions, k \in Sockets : Awaits(v, s, k)' <=> Awaits(v, s, k)
    PROVE  /\ PingsCounted'
           /\ \A v \in Visits, s \in Sessions, j, k \in Sockets :
                 Awaits(v, s, j)' /\ Awaits(v, s, k)' => j = k
<1>1. \A s \in Sessions, k \in Sockets : WaitFor(s, k)' = WaitFor(s, k)
  BY DEF WaitFor
<1>2. PingsCounted'
  BY <1>1 DEF AwaitInv, PingsCounted
<1>3. \A v \in Visits, s \in Sessions, j, k \in Sockets :
         Awaits(v, s, j)' /\ Awaits(v, s, k)' => j = k
  BY DEF AwaitInv, TurnInv, Awaits
<1> QED BY <1>2, <1>3

LEMMA VisitAwaits ==
    ASSUME TypeOK, PublicInv, AwaitInv, NEW v \in Visits, Visit(v)
    PROVE  AwaitInv'
<1>. PICK rows : rows = {s \in Sessions : Listed(s)}
  OBVIOUS
<1>. PICK r : r = [left |-> rows, waits |-> {}, alive |-> {},
                   asked |-> {<<s, gmSockets[s]>> : s \in rows}, heard |-> {}]
  OBVIOUS
<1>1. visits' = [visits EXCEPT ![v] = r] /\ ~ UnderWay(v) /\ NobodysTurn /\ UNCHANGED vars
  BY DEF Visit
<1>2. visits'[v] = r /\ \A w \in Visits \ {v} : visits'[w] = visits[w]
  BY <1>1 DEF PublicInv
<1>3. pings' = pings /\ games' = games /\ gmSockets' = gmSockets
  BY <1>1 DEF vars, registry, database
<1>4. \A s \in Sessions, k \in Sockets : ~ Awaits(v, s, k) /\ ~ Awaits(v, s, k)'
  BY <1>1, <1>2 DEF Awaits, UnderWay, Answered
<1>5. \A w \in Visits, s \in Sessions, k \in Sockets : Awaits(w, s, k)' <=> Awaits(w, s, k)
  BY <1>2, <1>4 DEF Awaits
<1>6. PingsCounted' /\ \A w \in Visits, s \in Sessions, j, k \in Sockets :
                          Awaits(w, s, j)' /\ Awaits(w, s, k)' => j = k
  BY <1>3, <1>5, SameAwaits
<1>7. ASSUME NEW w \in Visits, visits'[w] # NoVisit, NEW s \in visits'[w].left
      PROVE  Listed(s)' /\ \A k \in Sockets : ~ Awaits(w, s, k)'
  <2>1. w = v
    BY <1>1, <1>2, <1>7 DEF NobodysTurn, InTurn
  <2>2. s \in Sessions /\ Listed(s)
    BY <1>2, <1>7, <2>1
  <2> QED BY <1>3, <1>4, <2>1, <2>2 DEF Listed, GmConnected
<1> QED BY <1>6, <1>7 DEF AwaitInv, TurnInv

LEMMA WaitersFinite ==
    \A s \in Sessions, k \in Sockets :
        IsFiniteSet(WaitFor(s, k)) /\ Cardinality(WaitFor(s, k)) \in Nat
<1> TAKE s \in Sessions, k \in Sockets
<1>1. WaitFor(s, k) \in SUBSET Visits
  BY DEF WaitFor
<1> QED BY <1>1, VisitsAssumption, FS_Subset, FS_CardinalityType

\* The visit's ping is one more in flight, and one more visit awaits it.
LEMMA PingAwaits ==
    ASSUME TypeOK, PublicInv, AwaitInv, NEW v \in Visits, NEW s \in Sessions, VisitPings(v, s)
    PROVE  AwaitInv'
<1>. PICK g : g = gmSockets[s]
  OBVIOUS
<1>1. /\ visits[v] \in VisitRecords /\ visits[v] # NoVisit /\ InTurn(v) /\ s \in visits[v].left
      /\ g \in Sockets /\ \A w \in Visits \ {v} : ~ InTurn(w)
  BY DEF VisitPings, InTurn, PublicInv, PingStart, Listed, GmConnected, TypeOK
<1>2. /\ visits' = [visits EXCEPT ![v].left = @ \ {s}, ![v].waits = @ \cup {<<s, g>>}]
      /\ pings' = [pings EXCEPT ![s][g] = @ + 1] /\ games' = games /\ gmSockets' = gmSockets
  BY DEF VisitPings, PingStart, registry, database
<1>3. /\ visits'[v] \in VisitRecords /\ visits'[v] # NoVisit
      /\ visits'[v].left = visits[v].left \ {s}
      /\ visits'[v].waits = visits[v].waits \cup {<<s, g>>}
      /\ \A w \in Visits \ {v} : visits'[w] = visits[w]
  <2>1. visits'[v] = [visits[v] EXCEPT !.left = @ \ {s}, !.waits = @ \cup {<<s, g>>}]
        /\ \A w \in Visits \ {v} : visits'[w] = visits[w]
    BY <1>1, <1>2 DEF PublicInv
  <2>. PICK S : S = visits[v].left \ {s}
    OBVIOUS
  <2>. PICK W : W = visits[v].waits \cup {<<s, g>>}
    OBVIOUS
  <2>2. S \in SUBSET Sessions /\ W \in SUBSET GmEntries
    BY <1>1, VisitFields DEF GmEntries
  <2>3. visits'[v] = [visits[v] EXCEPT !.left = S, !.waits = W]
    BY <2>1
  <2>4. visits'[v] \in VisitRecords /\ visits'[v].left = S /\ visits'[v].waits = W
    BY <1>1, <2>2, <2>3 DEF VisitRecords
  <2> QED BY <2>1, <2>4, VisitsAssumption
<1>4. \A w \in Visits, t \in Sessions, k \in Sockets :
         Awaits(w, t, k)' <=> Awaits(w, t, k) \/ (w = v /\ t = s /\ k = g)
  BY <1>1, <1>3 DEF Awaits
<1>5. \A k \in Sockets : ~ Awaits(v, s, k)
  BY <1>1 DEF AwaitInv, TurnInv
<1>6. PingsCounted'
  <2> SUFFICES ASSUME NEW t \in Sessions, NEW k \in Sockets
               PROVE  pings'[t][k] = Cardinality(WaitFor(t, k)')
    BY DEF PingsCounted
  <2>1. pings[t][k] = Cardinality(WaitFor(t, k))
    BY DEF AwaitInv, PingsCounted
  <2>2. CASE t = s /\ k = g
    <3>1. WaitFor(t, k)' = WaitFor(t, k) \cup {v} /\ v \notin WaitFor(t, k)
      BY <1>4, <1>5, <2>2 DEF WaitFor
    <3>2. Cardinality(WaitFor(t, k) \cup {v}) = Cardinality(WaitFor(t, k)) + 1
      BY <3>1, WaitersFinite, FS_AddElement
    <3>3. pings'[t][k] = pings[t][k] + 1
      BY <1>1, <1>2, <2>2 DEF TypeOK
    <3> QED BY <2>1, <3>1, <3>2, <3>3
  <2>3. CASE ~ (t = s /\ k = g)
    <3>1. WaitFor(t, k)' = WaitFor(t, k)
      BY <1>4, <2>3 DEF WaitFor
    <3>2. pings'[t][k] = pings[t][k]
      BY <1>1, <1>2, <2>3 DEF TypeOK
    <3> QED BY <2>1, <3>1, <3>2
  <2> QED BY <2>2, <2>3
<1>7. \A w \in Visits, t \in Sessions, j, k \in Sockets :
         Awaits(w, t, j)' /\ Awaits(w, t, k)' => j = k
  <2>1. \A w \in Visits, t \in Sessions, j, k \in Sockets :
           Awaits(w, t, j) /\ Awaits(w, t, k) => j = k
    BY DEF AwaitInv, TurnInv, Awaits
  <2> QED BY <1>4, <1>5, <2>1
<1>8. ASSUME NEW w \in Visits, visits'[w] # NoVisit, NEW t \in visits'[w].left
      PROVE  Listed(t)' /\ \A k \in Sockets : ~ Awaits(w, t, k)'
  <2>1. w = v
    BY <1>1, <1>3, <1>8 DEF InTurn
  <2>2. t \in visits[v].left /\ t # s /\ t \in Sessions
    BY <1>1, <1>3, <1>8, <2>1, VisitFields
  <2>3. Listed(t) /\ \A k \in Sockets : ~ Awaits(v, t, k)
    BY <1>1, <2>2 DEF AwaitInv, TurnInv
  <2> QED BY <1>2, <1>4, <2>1, <2>2, <2>3 DEF Listed, GmConnected
<1> QED BY <1>6, <1>7, <1>8 DEF AwaitInv, TurnInv

\* An entry that is dropped is of the game the visit is at, no other that is left.
LEMMA DropAwaits ==
    ASSUME TypeOK, PublicInv, AwaitInv, NEW v \in Visits, NEW s \in Sessions, VisitDrops(v, s)
    PROVE  AwaitInv'
<1>1. /\ visits[v] \in VisitRecords /\ visits[v] # NoVisit /\ InTurn(v) /\ s \in visits[v].left
      /\ \A w \in Visits \ {v} : ~ InTurn(w)
  BY DEF VisitDrops, InTurn, PublicInv
<1>2. /\ visits' = [visits EXCEPT ![v].left = @ \ {s}]
      /\ pings' = pings /\ games' = games /\ gmSockets' = [gmSockets EXCEPT ![s] = NoSocket]
  BY DEF VisitDrops, PingGone, database
<1>3. /\ visits'[v] \in VisitRecords /\ visits'[v] # NoVisit
      /\ visits'[v].left = visits[v].left \ {s} /\ visits'[v].waits = visits[v].waits
      /\ \A w \in Visits \ {v} : visits'[w] = visits[w]
  <2>1. visits'[v] = [visits[v] EXCEPT !.left = @ \ {s}]
        /\ \A w \in Visits \ {v} : visits'[w] = visits[w]
    BY <1>1, <1>2 DEF PublicInv
  <2> QED BY <1>1, <2>1, VisitsAssumption DEF VisitRecords
<1>4. \A w \in Visits, t \in Sessions, k \in Sockets : Awaits(w, t, k)' <=> Awaits(w, t, k)
  BY <1>1, <1>3 DEF Awaits
<1>5. PingsCounted' /\ \A w \in Visits, t \in Sessions, j, k \in Sockets :
                          Awaits(w, t, j)' /\ Awaits(w, t, k)' => j = k
  BY <1>2, <1>4, SameAwaits
<1>6. ASSUME NEW w \in Visits, visits'[w] # NoVisit, NEW t \in visits'[w].left
      PROVE  Listed(t)' /\ \A k \in Sockets : ~ Awaits(w, t, k)'
  <2>1. w = v
    BY <1>1, <1>3, <1>6 DEF InTurn
  <2>2. t \in visits[v].left /\ t # s /\ t \in Sessions
    BY <1>1, <1>3, <1>6, <2>1, VisitFields
  <2>3. Listed(t) /\ \A k \in Sockets : ~ Awaits(v, t, k)
    BY <1>1, <2>2 DEF AwaitInv, TurnInv
  <2>4. gmSockets'[t] = gmSockets[t]
    BY <1>2, <2>2 DEF TypeOK
  <2> QED BY <1>2, <1>4, <2>1, <2>2, <2>3, <2>4 DEF Listed, GmConnected
<1> QED BY <1>5, <1>6 DEF AwaitInv, TurnInv

\* What an answer, or the timer, does to visits: the one that asked stops waiting.
LEMMA PingEnds ==
    ASSUME PublicInv, NEW v \in Visits, NEW s \in Sessions, NEW k \in Sockets,
           GmAnswers(v, s, k) \/ GmSlow(v, s, k), NEW w \in Visits
    PROVE  /\ visits'[w] = NoVisit <=> visits[w] = NoVisit
           /\ visits[w] # NoVisit =>
                /\ visits'[w].left = {}
                /\ w = v => visits'[w].waits = visits[w].waits \ {<<s, k>>}
                /\ w # v => visits'[w].waits = visits[w].waits
<1>1. /\ \A u \in Visits : ~ InTurn(u) /\ visits[v] # NoVisit
      /\ visits \in [Visits -> VisitRecords \cup {NoVisit}]
  BY DEF GmAnswers, GmSlow, UnderWay, NobodysTurn, PublicInv
<1>2. visits[w] # NoVisit => visits[w].left = {}
  BY <1>1 DEF InTurn
<1>3. CASE GmSlow(v, s, k)
  <2>1. visits' = [visits EXCEPT ![v].waits = @ \ {<<s, k>>}]
    BY <1>3 DEF GmSlow
  <2>2. CASE w = v
    <3>1. visits'[w] = [visits[w] EXCEPT !.waits = @ \ {<<s, k>>}] /\ visits[w] \in VisitRecords
      BY <1>1, <2>1, <2>2
    <3>2. visits'[w] \in VisitRecords
      BY <3>1 DEF VisitRecords
    <3> QED BY <1>2, <2>2, <3>1, <3>2, VisitsAssumption DEF VisitRecords
  <2>3. CASE w # v
    BY <1>1, <1>2, <2>1, <2>3
  <2> QED BY <2>2, <2>3
<1>4. CASE GmAnswers(v, s, k)
  <2>1. visits' = Heard(v, s, k) /\ UnderWay(v)
    BY <1>4 DEF GmAnswers
  <2>2. CASE ~ UnderWay(w)
    BY <1>2, <2>1, <2>2 DEF Heard
  <2>3. CASE UnderWay(w)
    <3>1. /\ visits[w] # NoVisit /\ visits'[w] \in VisitRecords
          /\ visits'[w].left = visits[w].left
          /\ w = v => visits'[w].waits = visits[w].waits \ {<<s, k>>}
          /\ w # v => visits'[w].waits = visits[w].waits
      <4>1. /\ visits[w] \in VisitRecords /\ visits[w] # NoVisit
            /\ visits'[w] \in VisitRecords
            /\ visits'[w].left = visits[w].left
            /\ visits'[w].asked = visits[w].asked
            /\ visits'[w].heard = visits[w].heard \cup {<<s, k>>}
            /\ w = v => /\ visits'[w].alive = visits[w].alive \cup {s}
                        /\ visits'[w].waits = visits[w].waits \ {<<s, k>>}
            /\ w # v => /\ visits'[w].alive = visits[w].alive
                        /\ visits'[w].waits = visits[w].waits
        BY <2>1, <2>3, HeardFields
      <4> QED BY <4>1
    <3> QED BY <1>2, <3>1, VisitsAssumption
  <2> QED BY <2>2, <2>3
<1> QED BY <1>3, <1>4

\* A ping that ends is one fewer in flight, and one visit fewer awaits it.
LEMMA EndAwaits ==
    ASSUME TypeOK, PublicInv, AwaitInv, NEW v \in Visits, NEW s \in Sessions, NEW k \in Sockets,
           GmAnswers(v, s, k) \/ GmSlow(v, s, k)
    PROVE  AwaitInv'
<1>1. /\ pings' = [pings EXCEPT ![s][k] = @ - 1] /\ visits[v] # NoVisit
      /\ <<s, k>> \in visits[v].waits
  BY DEF GmAnswers, GmSlow, UnderWay, PingAck, PingStrike, PingEvict
<1>2. \A w \in Visits :
         /\ visits'[w] = NoVisit <=> visits[w] = NoVisit
         /\ visits[w] # NoVisit =>
              /\ visits'[w].left = {}
              /\ w = v => visits'[w].waits = visits[w].waits \ {<<s, k>>}
              /\ w # v => visits'[w].waits = visits[w].waits
  <2> TAKE w \in Visits
  <2>1. /\ visits'[w] = NoVisit <=> visits[w] = NoVisit
        /\ visits[w] # NoVisit =>
             /\ visits'[w].left = {}
             /\ w = v => visits'[w].waits = visits[w].waits \ {<<s, k>>}
             /\ w # v => visits'[w].waits = visits[w].waits
    BY PingEnds
  <2> QED BY <2>1
<1>3. \A w \in Visits, t \in Sessions, j \in Sockets :
         Awaits(w, t, j)' <=> Awaits(w, t, j) /\ ~ (w = v /\ t = s /\ j = k)
  BY <1>2 DEF Awaits
<1>4. PingsCounted'
  <2> SUFFICES ASSUME NEW t \in Sessions, NEW j \in Sockets
               PROVE  pings'[t][j] = Cardinality(WaitFor(t, j)')
    BY DEF PingsCounted
  <2>1. pings[t][j] = Cardinality(WaitFor(t, j))
    BY DEF AwaitInv, PingsCounted
  <2>2. CASE t = s /\ j = k
    <3>1. WaitFor(t, j)' = WaitFor(t, j) \ {v} /\ v \in WaitFor(t, j)
      BY <1>1, <1>3, <2>2 DEF WaitFor, Awaits
    <3>2. Cardinality(WaitFor(t, j) \ {v}) = Cardinality(WaitFor(t, j)) - 1
      BY <3>1, WaitersFinite, FS_RemoveElement
    <3>3. pings'[t][j] = pings[t][j] - 1
      BY <1>1, <2>2 DEF TypeOK
    <3> QED BY <2>1, <3>1, <3>2, <3>3
  <2>3. CASE ~ (t = s /\ j = k)
    <3>1. WaitFor(t, j)' = WaitFor(t, j)
      BY <1>3, <2>3 DEF WaitFor
    <3>2. pings'[t][j] = pings[t][j]
      BY <1>1, <2>3 DEF TypeOK
    <3> QED BY <2>1, <3>1, <3>2
  <2> QED BY <2>2, <2>3
<1>5. \A w \in Visits, t \in Sessions, i, j \in Sockets :
         Awaits(w, t, i)' /\ Awaits(w, t, j)' => i = j
  <2>1. \A w \in Visits, t \in Sessions, i, j \in Sockets :
           Awaits(w, t, i) /\ Awaits(w, t, j) => i = j
    BY DEF AwaitInv, TurnInv, Awaits
  <2> QED BY <1>3, <2>1
<1>6. \A w \in Visits : visits'[w] # NoVisit => visits'[w].left = {}
  BY <1>2
<1> QED BY <1>4, <1>5, <1>6 DEF AwaitInv, TurnInv

\* Between turns the server may do as it likes, so long as it pings nobody.
LEMMA BetweenTurns ==
    ASSUME AwaitInv, visits' = visits, pings' = pings,
           NobodysTurn \/ (games' = games /\ gmSockets' = gmSockets)
    PROVE  AwaitInv'
<1>1. \A w \in Visits, s \in Sessions, k \in Sockets : Awaits(w, s, k)' <=> Awaits(w, s, k)
  BY DEF Awaits
<1>2. PingsCounted' /\ \A w \in Visits, s \in Sessions, j, k \in Sockets :
                          Awaits(w, s, j)' /\ Awaits(w, s, k)' => j = k
  BY <1>1, SameAwaits
<1>3. ASSUME NEW w \in Visits, visits'[w] # NoVisit, NEW s \in visits'[w].left
      PROVE  Listed(s)' /\ \A k \in Sockets : ~ Awaits(w, s, k)'
  <2>1. ~ NobodysTurn
    BY <1>3 DEF NobodysTurn, InTurn
  <2>2. Listed(s) /\ \A k \in Sockets : ~ Awaits(w, s, k)
    BY <1>3 DEF AwaitInv, TurnInv
  <2> QED BY <2>1, <2>2 DEF Listed, GmConnected, Awaits
<1> QED BY <1>2, <1>3 DEF AwaitInv, TurnInv

\* A restart ends every ping and every visit.
LEMMA RestartAwaits ==
    ASSUME VisitsLost
    PROVE  AwaitInv'
<1>1. /\ visits' = [v \in Visits |-> NoVisit]
      /\ pings' = [s \in Sessions |-> [k \in Sockets |-> 0]]
  BY DEF VisitsLost, ServerRestart
<1>2. \A s \in Sessions, k \in Sockets : WaitFor(s, k)' = {}
  BY <1>1 DEF WaitFor, Awaits
<1> QED BY <1>1, <1>2, FS_EmptySet DEF AwaitInv, PingsCounted, TurnInv

LEMMA AwaitStep ==
    ASSUME TypeOK, PublicInv, AwaitInv, [PublicNext]_publicVars
    PROVE  AwaitInv'
<1>1. CASE Meanwhile
  <2>1. /\ NobodysTurn /\ visits' = visits
        /\ \/ \E k \in Sockets : Connect(k) \/ Disconnect(k) \/ Authenticate(k)
           \/ \E s \in Sessions : DeleteGame(s)
           \/ \E u \in Users, s \in Sessions : JoinGame(u, s)
    BY <1>1 DEF Meanwhile
  <2>2. ASSUME NEW k \in Sockets, Authenticate(k) PROVE pings' = pings
    <3>1. CASE AuthInvalidPayload(k) \/ AuthBadToken(k) \/ AuthBadTokenDrop(k)
      BY <3>1 DEF AuthInvalidPayload, AuthBadToken, AuthBadTokenDrop
    <3>2. ASSUME NEW u \in Users, NEW s \in Sessions, NEW role \in Roles, NEW p \in Announced,
                 AuthRefused(k, u, s, role, p) \/ AuthFull(k, u, s, role, p)
          PROVE  pings' = pings
      BY <3>2 DEF AuthRefused, AuthFull
    <3>3. ASSUME NEW u \in Users, NEW s \in Sessions,
                 JoinPlayer(k, u, s) \/ ReauthPlayer(k, u, s)
          PROVE  pings' = pings
      BY <3>3 DEF JoinPlayer, ReauthPlayer
    <3>4. ASSUME NEW u \in Users, NEW s \in Sessions, NEW p \in Protocols,
                 JoinGm(k, u, s, p) \/ ReauthGm(k, u, s, p)
          PROVE  pings' = pings
      BY <3>4 DEF JoinGm, ReauthGm
    <3> QED BY <2>2, <3>1, <3>2, <3>3, <3>4 DEF Authenticate
  <2>3. pings' = pings
    BY <2>1, <2>2 DEF Connect, Disconnect, DeleteGame, JoinGame
  <2> QED BY <2>1, <2>3, BetweenTurns
<1>2. CASE UNCHANGED publicVars
  BY <1>2, BetweenTurns DEF publicVars, vars, registry, database
<1>3. ASSUME NEW v \in Visits, NEW s \in Sessions, NEW k \in Sockets,
             GmAnswers(v, s, k) \/ GmSlow(v, s, k)
      PROVE  AwaitInv'
  BY <1>3, EndAwaits
<1> QED BY <1>1, <1>2, <1>3, VisitAwaits, PingAwaits, DropAwaits, RestartAwaits DEF PublicNext

LEMMA AwaitInvariance == PublicSpec => [](TypeOK /\ PublicInv /\ AwaitInv)
<1>1. PublicInit => AwaitInv
  <2> SUFFICES ASSUME PublicInit PROVE AwaitInv
    OBVIOUS
  <2>1. /\ visits = [v \in Visits |-> NoVisit]
        /\ pings = [s \in Sessions |-> [k \in Sockets |-> 0]]
    BY DEF PublicInit, Init
  <2>2. \A s \in Sessions, k \in Sockets : WaitFor(s, k) = {}
    BY <2>1 DEF WaitFor, Awaits
  <2> QED BY <2>1, <2>2, FS_EmptySet DEF AwaitInv, PingsCounted, TurnInv
<1>2. TypeOK /\ PublicInv /\ AwaitInv /\ [PublicNext]_publicVars => AwaitInv'
  BY AwaitStep
<1> QED BY <1>1, <1>2, PublicInvariance, PTL DEF PublicSpec

-----------------------------------------------------------------------------
\* Every promise a visit waits for has a ping in flight behind it, of its own, so
\* that the ping's timer is still to fire, whatever was evicted, replaced or closed
\* meanwhile: Promise.all never waits in vain (gamelist.js:71-76,
\* signalingService.js:180-206).
AwaitedPingsInFlight ==
    \A s \in Sessions :
        /\ \A v \in Visits, k \in Sockets : Awaits(v, s, k) => pings[s][k] > 0
        /\ \A k \in Sockets : pings[s][k] <= Cardinality(Visits)

THEOREM AwaitedPingsAreInFlight == PublicSpec => []AwaitedPingsInFlight
<1>1. AwaitInv => AwaitedPingsInFlight
  <2> SUFFICES ASSUME AwaitInv, NEW s \in Sessions, NEW k \in Sockets
               PROVE  /\ \A v \in Visits : Awaits(v, s, k) => pings[s][k] > 0
                      /\ pings[s][k] <= Cardinality(Visits)
    BY DEF AwaitedPingsInFlight
  <2>1. pings[s][k] = Cardinality(WaitFor(s, k)) /\ WaitFor(s, k) \in SUBSET Visits
    BY DEF AwaitInv, PingsCounted, WaitFor
  <2>2. IsFiniteSet(WaitFor(s, k)) /\ pings[s][k] \in Nat /\ pings[s][k] <= Cardinality(Visits)
    BY <2>1, FS_Subset, FS_CardinalityType, VisitsAssumption
  <2>3. ASSUME NEW v \in Visits, Awaits(v, s, k) PROVE pings[s][k] # 0
    <3>1. WaitFor(s, k) # {}
      BY <2>3 DEF WaitFor
    <3> QED BY <2>1, <2>2, <3>1, FS_EmptySet
  <2> QED BY <2>2, <2>3
<1> QED BY <1>1, AwaitInvariance, PTL

\* A visit that has games left to ping can ping or drop each of them: the game is
\* still listed, and the pings of other visits never use up what may be in flight
\* (gamelist.js:67-73, signalingService.js:167-180).
TurnGoesOn ==
    \A v \in Visits, s \in Sessions :
        InTurn(v) /\ s \in visits[v].left =>
            /\ Listed(s)
            /\ InFlight(s) < MaxPings /\ pings[s][gmSockets[s]] < MaxPings

THEOREM TurnsGoOn == PublicSpec => []TurnGoesOn
<1>1. TypeOK /\ AwaitInv => TurnGoesOn
  <2> SUFFICES ASSUME TypeOK, AwaitInv, NEW v \in Visits, NEW s \in Sessions,
                      InTurn(v), s \in visits[v].left
               PROVE  /\ Listed(s) /\ InFlight(s) < MaxPings
                      /\ pings[s][gmSockets[s]] < MaxPings
    BY DEF TurnGoesOn
  <2>1. Listed(s) /\ gmSockets[s] \in Sockets /\ \A k \in Sockets : ~ Awaits(v, s, k)
    BY DEF AwaitInv, TurnInv, InTurn, Listed, GmConnected, TypeOK
  <2>. PICK T : T = Visits \ {v}
    OBVIOUS
  <2>2. IsFiniteSet(T) /\ Cardinality(T) \in Nat /\ Cardinality(T) < MaxPings
    <3>1. IsFiniteSet(T) /\ Cardinality(T) = Cardinality(Visits) - 1
      BY FS_RemoveElement, VisitsAssumption
    <3>2. Cardinality(T) \in Nat /\ Cardinality(Visits) \in Nat /\ Cardinality(Visits) <= MaxPings
      BY <3>1, FS_CardinalityType, VisitsAssumption
    <3>3. MaxPings \in Nat
      BY ConstantsAssumption
    <3> QED BY <3>1, <3>2, <3>3
  <2>. PICK W : W = [k \in Sockets |-> WaitFor(s, k)]
    OBVIOUS
  <2>3. W \in [Sockets -> SUBSET T] /\ \A k \in Sockets : pings[s][k] = Cardinality(W[k])
    BY <2>1 DEF AwaitInv, PingsCounted, WaitFor
  <2>4. \A j, k \in Sockets : W[j] \cap W[k] # {} => j = k
    BY DEF AwaitInv, TurnInv, WaitFor, Awaits
  <2>5. pings[s] \in [Sockets -> Nat]
    BY ConstantsAssumption DEF TypeOK
  <2>6. /\ IsFiniteSet(InFlightOf(pings[s]))
        /\ Cardinality(InFlightOf(pings[s])) <= Cardinality(T)
    BY <2>2, <2>3, <2>4, <2>5, CellsWithin
  <2>7. InFlight(s) = Cardinality(InFlightOf(pings[s]))
    BY DEF InFlight, InFlightOf
  <2>8. IsFiniteSet(W[gmSockets[s]]) /\ Cardinality(W[gmSockets[s]]) <= Cardinality(T)
    BY <2>1, <2>2, <2>3, FS_Subset
  <2>. PICK n : n = Cardinality(InFlightOf(pings[s]))
    OBVIOUS
  <2>9. n \in Nat
    BY <2>6, FS_CardinalityType
  <2> QED BY <2>1, <2>2, <2>3, <2>5, <2>6, <2>7, <2>8, <2>9, ConstantsAssumption
<1> QED BY <1>1, AwaitInvariance, PTL
=============================================================================
