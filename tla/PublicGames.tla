---------------------------- MODULE PublicGames ----------------------------
(***************************************************************************)
(* The public list of games, GET /publicgames (routes/gamelist.js), over   *)
(* the signaling server it asks.                                           *)
(*                                                                         *)
(* A visit reads the public games that have a GM entry and pings all of    *)
(* them in one turn of the event loop; then it awaits every ping, and      *)
(* answers with the games it read whose GM answered.  The turn takes one   *)
(* step per game, and nothing else runs until it ends.                     *)
(*                                                                         *)
(* Every step is one of Signaling or leaves it alone.  Which slice of the  *)
(* list the answer carries (page, count) is left out.                      *)
(***************************************************************************)
EXTENDS Signaling

CONSTANTS Visits,    \* requests for the list: bound on those under way
          NoVisit

VARIABLE visits      \* what each request knows, from when it came: one of
                     \* VisitRecords, or NoVisit

GmEntries == Sessions \X Sockets

VisitRecords == [left : SUBSET Sessions,     \* candidates not yet pinged
                 waits : SUBSET GmEntries,   \* pings awaited
                 alive : SUBSET Sessions,    \* games whose ping was answered
                 asked : SUBSET GmEntries,   \* history: the entries it read
                 heard : SUBSET GmEntries]   \* history: who answered any ping
                                             \* since it came

ASSUME VisitsAssumption ==
    /\ IsFiniteSet(Visits)
    /\ Cardinality(Visits) <= MaxPings
    /\ NoVisit \notin VisitRecords

publicVars == <<vars, visits>>

PublicInit ==
    /\ Init
    /\ visits = [v \in Visits |-> NoVisit]

-----------------------------------------------------------------------------
Answered(v) == visits[v] # NoVisit /\ visits[v].left = {} /\ visits[v].waits = {}
UnderWay(v) == visits[v] # NoVisit /\ ~ Answered(v)

\* The turn of a visit that has games left to ping.
InTurn(v) == visits[v] # NoVisit /\ visits[v].left # {}
NobodysTurn == \A v \in Visits : ~ InTurn(v)

\* The games to ping are those with a GM entry, connected or not.
Visit(v) ==
    /\ NobodysTurn
    /\ ~ UnderWay(v)
    /\ LET rows == {s \in Sessions : Listed(s)} IN
       visits' = [visits EXCEPT ![v] =
                     [left |-> rows, waits |-> {}, alive |-> {},
                      asked |-> {<<s, gmSockets[s]>> : s \in rows}, heard |-> {}]]
    /\ UNCHANGED vars

VisitPings(v, s) ==
    /\ InTurn(v)
    /\ s \in visits[v].left
    /\ PingStart(s)
    /\ visits' = [visits EXCEPT ![v].left = @ \ {s},
                                ![v].waits = @ \cup {<<s, gmSockets[s]>>}]

\* The socket is gone: false at once, and the game is left out.
VisitDrops(v, s) ==
    /\ InTurn(v)
    /\ s \in visits[v].left
    /\ PingGone(s)
    /\ visits' = [visits EXCEPT ![v].left = @ \ {s}]

\* The answer resolves the visit's own promise; every visit under way can tell
\* that the GM answered.
Heard(v, s, k) ==
    [w \in Visits |->
        IF ~ UnderWay(w) THEN visits[w]
        ELSE [visits[w] EXCEPT !.heard = @ \cup {<<s, k>>},
                               !.alive = IF w = v THEN @ \cup {s} ELSE @,
                               !.waits = IF w = v THEN @ \ {<<s, k>>} ELSE @]]

GmAnswers(v, s, k) ==
    /\ NobodysTurn
    /\ UnderWay(v)
    /\ <<s, k>> \in visits[v].waits
    /\ PingAck(s, k)
    /\ visits' = Heard(v, s, k)

\* mutants: a GM that is not evicted yet is alive; the timer of a ping goes with
\* its socket.
GmSlowListed(v, s, k) ==
    /\ NobodysTurn
    /\ UnderWay(v)
    /\ <<s, k>> \in visits[v].waits
    /\ PingStrike(s, k) \/ PingEvict(s, k)
    /\ visits' = [visits EXCEPT ![v].waits = @ \ {<<s, k>>},
                                ![v].alive = IF IsGmPeer(k, s)' THEN @ \cup {s} ELSE @]

GmSlowWhileOpen(v, s, k) ==
    /\ NobodysTurn
    /\ UnderWay(v)
    /\ <<s, k>> \in visits[v].waits
    /\ conn[k] = "open"
    /\ PingStrike(s, k) \/ PingEvict(s, k)
    /\ visits' = [visits EXCEPT ![v].waits = @ \ {<<s, k>>}]

\* The timer fires, also for a socket that was closed meanwhile.
GmSlow(v, s, k) ==
    /\ NobodysTurn
    /\ UnderWay(v)
    /\ <<s, k>> \in visits[v].waits
    /\ PingStrike(s, k) \/ PingEvict(s, k)
    /\ visits' = [visits EXCEPT ![v].waits = @ \ {<<s, k>>}]

\* The visitors' connections end with the process.
VisitsLost ==
    /\ NobodysTurn
    /\ ServerRestart
    /\ visits' = [v \in Visits |-> NoVisit]

\* What goes on meanwhile.  The cleanup is left out: it deletes games as their
\* owners do, and what else it reads and writes no visit looks at.
Meanwhile ==
    /\ NobodysTurn
    /\ \/ \E k \in Sockets : Connect(k) \/ Disconnect(k) \/ Authenticate(k)
       \/ \E s \in Sessions : DeleteGame(s)
       \/ \E u \in Users, s \in Sessions : JoinGame(u, s)
    /\ UNCHANGED visits

PublicNext ==
    \/ \E v \in Visits :
          \/ Visit(v)
          \/ \E s \in Sessions : VisitPings(v, s) \/ VisitDrops(v, s)
          \/ \E s \in Sessions, k \in Sockets : GmAnswers(v, s, k) \/ GmSlow(v, s, k)
    \/ VisitsLost
    \/ Meanwhile

PublicSpec == PublicInit /\ [][PublicNext]_publicVars

(* The public page keeps being asked for, a turn runs to its end, and the   *)
(* server's own timer ends each ping; strongly fair, for other visits' turns *)
(* only hold it up.  Nothing is assumed of a GM.                            *)
PublicFairness ==
    \A v \in Visits :
        /\ WF_publicVars(Visit(v))
        /\ WF_publicVars(\E s \in Sessions : VisitPings(v, s) \/ VisitDrops(v, s))
        /\ SF_publicVars(\E s \in Sessions, k \in Sockets :
                             GmAnswers(v, s, k) \/ GmSlow(v, s, k))

PublicLiveSpec == PublicSpec /\ PublicFairness

-----------------------------------------------------------------------------
(* Properties.                                                             *)

\* Every game in an answer is one the visit read as listed, whose GM connection
\* of that moment answered a ping after the visit came, whatever was evicted,
\* replaced, bound to another session or deleted while it waited for the slowest
\* (gamelist.js:67-77, signalingService.js:167-206).
ListedGamesAnswered ==
    \A v \in Visits : Answered(v) =>
        \A s \in visits[v].alive :
            \E k \in Sockets : <<s, k>> \in visits[v].asked \cap visits[v].heard

\* Every visit is answered, whatever becomes of the sockets it pinged: they may
\* be evicted, replaced or closed while Promise.all waits (gamelist.js:71-76).
VisitsAnswered == \A v \in Visits : UnderWay(v) ~> ~ UnderWay(v)
=============================================================================
