-------------------------------- MODULE Relay --------------------------------
(***************************************************************************)
(* What the signaling server passes on between the sockets it registers:   *)
(* WebRTC offers from a player to its GM, answers back, ICE candidates     *)
(* either way, the latter limited per pair and window.                     *)
(*                                                                         *)
(*   signaling/relay.js             gmAndPlayer and the relays             *)
(*   services/signalingService.js   checkIceRateLimit, and the part of     *)
(*                                  removePeer that forgets the counters   *)
(*                                                                         *)
(* Times are ages: how long ago a window began, how long ago a candidate   *)
(* was passed on.  Both matter up to the length of a window only.          *)
(***************************************************************************)
EXTENDS Signaling

CONSTANTS IceMax,      \* ICE_RATE_LIMIT_MAX
          IceWindow,   \* ICE_RATE_LIMIT_WINDOW_MS
          NoEntry, NoMessage

Pairs == Sockets \X Sockets
Kinds == {"offer", "answer", "candidate"}
Ages == 0 .. IceWindow
\* A count past the limit is the limit's successor; an age past the window, the
\* window's.
Entries == [count : 1 .. IceMax + 1, age : 0 .. IceWindow + 1]
Messages == [kind : Kinds, from : Sockets, to : Sockets]

ASSUME RelayAssumption ==
    /\ IceMax \in Nat \ {0}
    /\ IceWindow \in Nat
    /\ NoEntry \notin Entries
    /\ NoMessage \notin Messages

VARIABLES
    iceRateLimits,  \* <<from, to>> -> count and age of its window
    passed,         \* history: candidates passed on for a pair, by their age
    message         \* what this step passed on

relayVars == <<iceRateLimits, passed, message>>
allVars == <<vars, relayVars>>

RelayTypeOK ==
    /\ iceRateLimits \in [Pairs -> Entries \cup {NoEntry}]
    /\ passed \in [Pairs -> [Ages -> 0 .. IceMax]]
    /\ message \in Messages \cup {NoMessage}

NonePassed == [age \in Ages |-> 0]

RelayInit ==
    /\ Init
    /\ iceRateLimits = [w \in Pairs |-> NoEntry]
    /\ passed = [w \in Pairs |-> NonePassed]
    /\ message = NoMessage

-----------------------------------------------------------------------------
\* The socket is its session's GM right now.
IsSessionGm(k) == IsPeer(k) /\ peers[k].role = "gm" /\ gmSockets[peers[k].session] = k

\* mutant: any two members of a session.
AnyTwoMembers(a, b) == IsPeer(a) /\ IsPeer(b) /\ peers[a].session = peers[b].session

\* a and b are in one session, a its GM and b a player.
GmAndPlayer(a, b) ==
    /\ IsPeer(a) /\ IsPeer(b)
    /\ peers[a].session = peers[b].session
    /\ IsSessionGm(a)
    /\ peers[b].role = "player"

PassOn(kind, k, j) == message' = [kind |-> kind, from |-> k, to |-> j]

RelayOffer(k, j) ==
    /\ conn[k] = "open"
    /\ GmAndPlayer(j, k)
    /\ PassOn("offer", k, j)
    /\ UNCHANGED <<vars, iceRateLimits, passed>>

RelayAnswer(k, j) ==
    /\ conn[k] = "open"
    /\ GmAndPlayer(k, j)
    /\ PassOn("answer", k, j)
    /\ UNCHANGED <<vars, iceRateLimits, passed>>

\* The entry a candidate is counted in: the pair's, or a new window's.
Window(k, j) ==
    IF iceRateLimits[<<k, j>>] = NoEntry \/ iceRateLimits[<<k, j>>].age > IceWindow
    THEN [count |-> 0, age |-> 0]
    ELSE iceRateLimits[<<k, j>>]

\* mutant: the window starts again with every candidate it lets through.
CountedAnew(entry) == [count |-> IF entry.count > IceMax THEN entry.count ELSE entry.count + 1,
                       age |-> 0]

Counted(entry) ==
    [entry EXCEPT !.count = IF entry.count > IceMax THEN entry.count ELSE entry.count + 1]

\* mutant: the limit itself is let through once more.
WithinLimitOnce(entry) == entry.count <= IceMax + 1

WithinLimit(entry) == entry.count <= IceMax

MayRelayIce(k, j) == conn[k] = "open" /\ (GmAndPlayer(k, j) \/ GmAndPlayer(j, k))

RelayIceCandidate(k, j) ==
    LET entry == Counted(Window(k, j)) IN
    /\ MayRelayIce(k, j)
    /\ WithinLimit(entry)
    /\ iceRateLimits' = [iceRateLimits EXCEPT ![<<k, j>>] = entry]
    /\ passed' = [passed EXCEPT ![<<k, j>>][0] = @ + 1]
    /\ PassOn("candidate", k, j)
    /\ UNCHANGED vars

\* Counted, but not passed on.
RefuseIceCandidate(k, j) ==
    LET entry == Counted(Window(k, j)) IN
    /\ MayRelayIce(k, j)
    /\ ~ WithinLimit(entry)
    /\ iceRateLimits' = [iceRateLimits EXCEPT ![<<k, j>>] = entry]
    /\ message' = NoMessage
    /\ UNCHANGED <<vars, passed>>

\* mutant: only what the socket sent is forgotten, not what was sent to it.
OwnEntries(f, gone, none) == [w \in Pairs |-> IF w[1] \in gone THEN none ELSE f[w]]

\* removePeer forgets the counters of whatever socket it removes.
WithoutEntriesOf(f, gone, none) ==
    [w \in Pairs |-> IF w[1] \in gone \/ w[2] \in gone THEN none ELSE f[w]]

\* The sockets this step takes from the registry or closes.
Removed == {k \in Sockets : \/ IsPeer(k) /\ peers'[k] = NoPeer
                            \/ conn[k] = "open" /\ conn'[k] # "open"}

\* A step of the registry; the counters of the sockets it removes go with them.
ServerStep ==
    /\ Next
    /\ iceRateLimits' = WithoutEntriesOf(iceRateLimits, Removed, NoEntry)
    /\ passed' = [w \in Pairs |-> IF w[1] \in Removed \/ w[2] \in Removed
                                   THEN NonePassed ELSE passed[w]]
    /\ message' = NoMessage

\* Time passes.
Older(entry) == [entry EXCEPT !.age = IF @ > IceWindow THEN @ ELSE @ + 1]

Tick ==
    /\ iceRateLimits' = [w \in Pairs |-> IF iceRateLimits[w] = NoEntry THEN NoEntry
                                         ELSE Older(iceRateLimits[w])]
    /\ passed' = [w \in Pairs |-> [age \in Ages |-> IF age = 0 THEN 0 ELSE passed[w][age - 1]]]
    /\ message' = NoMessage
    /\ UNCHANGED vars

RelayNext ==
    \/ ServerStep
    \/ \E k, j \in Sockets :
          \/ RelayOffer(k, j) \/ RelayAnswer(k, j)
          \/ RelayIceCandidate(k, j) \/ RefuseIceCandidate(k, j)
    \/ Tick

RelaySpec == RelayInit /\ [][RelayNext]_allVars

-----------------------------------------------------------------------------
(* Properties.                                                             *)

\* All that was passed on for a pair within one window's length.
Passed(w) == Cardinality({c \in Ages \X (1 .. IceMax + 1) : c[2] <= passed[w][c[1]]})

\* However the fixed windows fall, no window's length sees more than two windows'
\* candidates between a pair (signalingService.js:122-141).
CandidatesLimited == \A w \in Pairs : Passed(w) <= 2 * IceMax

\* A candidate is refused only if the limit was passed on within the window's
\* length: tries that were refused do not keep a pair shut out
\* (signalingService.js:126-139).
RefusalsDeserved ==
    [][\A k, j \in Sockets : RefuseIceCandidate(k, j) => Passed(<<k, j>>) >= IceMax]_allVars

\* The counters name registered sockets only: none is left behind by evictions,
\* replacements and restarts (signalingService.js:51-56).
CountersOfPeers ==
    \A w \in Pairs : iceRateLimits[w] # NoEntry => IsPeer(w[1]) /\ IsPeer(w[2])

\* "Relaying between any two members let a player answer another player's offer":
\* what reaches a player comes from the GM it was told of, or from a newer one that
\* it was told to look for (relay.js:7-26).
PlayersHearTheirGm ==
    message # NoMessage /\ peers[message.to].role = "player"
        => knownGm[message.to] = message.from \/ notified[message.to]

\* An offer to the GM a player was last told of is never dropped without the player
\* having been told to look again (relay.js:30-43, authenticate.js:126-147).
OffersReachTheGm ==
    \A k, j \in Sockets :
        /\ IsPeer(k) /\ peers[k].role = "player"
        /\ knownGm[k] = j
        /\ ~ notified[k]
        => GmAndPlayer(j, k)
=============================================================================
