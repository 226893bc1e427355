---------------------------- MODULE GameSessions ----------------------------
(***************************************************************************)
(* Game sessions, who has joined them, and the limits on tries to join.    *)
(*                                                                         *)
(*   services/gameSessionService.js   create, update, join, delete         *)
(*   routes/gamelist.js               the handlers and their two limiters  *)
(*                                                                         *)
(* A request passes both limiters and its handler in one turn of the event *)
(* loop.  It is counted when it arrives; whether it succeeded is known to  *)
(* the limiters when its response has been handed over (the `finish`       *)
(* event), which a slow client can delay: that is a step of its own.       *)
(*                                                                         *)
(* Left out: what is only shown (names, images, whether a game is public). *)
(***************************************************************************)
EXTENDS Naturals, FiniteSets

CONSTANTS Users, Admins,
          Addresses,       \* clients' addresses
          Sessions,        \* ids of game sessions, each used once
          Passwords,
          Requests,        \* bound: responses waiting for their finish event
          PerUser,         \* JOIN_FAILURES_PER_USER
          PerAddress,      \* JOIN_FAILURES_PER_IP
          MaxHits,         \* bound: requests counted for one key
          NoGame, NoPassword, NoRequest

Keys == Users \cup Addresses
Limit(key) == IF key \in Users THEN PerUser ELSE PerAddress

Games == [owner : Users, passwordRequired : BOOLEAN, password : Passwords \cup {NoPassword}]
Responses == [status : {200, 409}, keys : SUBSET Keys, early : SUBSET Keys]

ASSUME GameSessionsAssumption ==
    /\ Admins \subseteq Users
    /\ Users \cap Addresses = {}
    /\ PerUser \in Nat \ {0}
    /\ PerAddress \in Nat \ {0}
    /\ MaxHits \in Nat
    /\ IsFiniteSet(Requests)
    /\ NoGame \notin Games
    /\ NoPassword \notin Passwords
    /\ NoRequest \notin Responses

VARIABLES
    users,         \* rows of users
    games,         \* rows of game_sessions
    players,       \* rows of session_players
    everGames,     \* history: ids given to a game
    hits,          \* the limiters' counters, per user and per address
    unfinished,    \* joins whose response is not handed over: its status,
                   \* the keys they were counted for, and of these the keys
                   \* whose window ended since
    failed,        \* history: tries of the window that did not succeed
    wrong,         \* history: wrong passwords of the window
    returned       \* history: what tries of earlier windows took back

database == <<users, games, players, everGames>>
counts == <<failed, wrong, returned>>
vars == <<database, hits, unfinished, counts>>

Exists(s) == games[s] # NoGame

TypeOK ==
    /\ users \subseteq Users
    /\ games \in [Sessions -> Games \cup {NoGame}]
    /\ players \in [Sessions -> SUBSET Users]
    /\ everGames \subseteq Sessions
    /\ hits \in [Keys -> Nat]
    /\ unfinished \in [Requests -> Responses \cup {NoRequest}]
    /\ failed \in [Keys -> Nat]
    /\ wrong \in [Keys -> Nat]
    /\ returned \in [Keys -> Nat]

Init ==
    /\ users = Users
    /\ games = [s \in Sessions |-> NoGame]
    /\ players = [s \in Sessions |-> {}]
    /\ everGames = {}
    /\ hits = [key \in Keys |-> 0]
    /\ unfinished = [q \in Requests |-> NoRequest]
    /\ failed = [key \in Keys |-> 0]
    /\ wrong = [key \in Keys |-> 0]
    /\ returned = [key \in Keys |-> 0]

-----------------------------------------------------------------------------
(* Games.                                                                  *)

\* A password is kept only if one is asked for; asked for and not given, it comes
\* with the GM backend's next start.
NewGame(u, required, password) ==
    [owner |-> u, passwordRequired |-> required,
     password |-> IF required THEN password ELSE NoPassword]

\* The owner's row must still be there.
CreateSession(u, s, required, password) ==
    /\ s \notin everGames
    /\ u \in users
    /\ games' = [games EXCEPT ![s] = NewGame(u, required, password)]
    /\ everGames' = everGames \cup {s}
    /\ UNCHANGED <<users, players, hits, unfinished, counts>>

\* By the owner, or by an admin (whose access token says so).
MayManage(u, s) == Exists(s) /\ (games[s].owner = u \/ u \in Admins)

\* mutant: a password left out is cleared, like every other detail.
UpdatedClears(game, password) ==
    [game EXCEPT !.passwordRequired = password # NoPassword, !.password = password]

\* Only a password changes what is modelled; left out, the stored one is kept.
Updated(game, password) ==
    IF password = NoPassword THEN game
    ELSE [game EXCEPT !.passwordRequired = TRUE, !.password = password]

UpdateSession(u, s, password) ==
    /\ MayManage(u, s)
    /\ games' = [games EXCEPT ![s] = Updated(@, password)]
    /\ UNCHANGED <<users, players, everGames, hits, unfinished, counts>>

\* The rows of `gone` and, by cascade, of their players.
RemoveGames(gone) ==
    /\ games' = [s \in Sessions |-> IF s \in gone THEN NoGame ELSE games[s]]
    /\ players' = [s \in Sessions |-> IF s \in gone THEN {} ELSE players[s]]

DeleteSession(u, s) ==
    /\ MayManage(u, s)
    /\ RemoveGames({s})
    /\ UNCHANGED <<users, everGames, hits, unfinished, counts>>

\* The cleanup found it expired (see Signaling for when).
ExpireSession(s) ==
    /\ Exists(s)
    /\ RemoveGames({s})
    /\ UNCHANGED <<users, everGames, hits, unfinished, counts>>

GamesOf(u) == {s \in Sessions : Exists(s) /\ games[s].owner = u}

\* mutant: the games go, the rows of other players stay behind.
DeleteUserOnly(u) ==
    /\ u \in users
    /\ \E admin \in Admins : admin # u
    /\ users' = users \ {u}
    /\ games' = [s \in Sessions |-> IF s \in GamesOf(u) THEN NoGame ELSE games[s]]
    /\ players' = [s \in Sessions |-> players[s] \ {u}]
    /\ UNCHANGED <<everGames, hits, unfinished, counts>>

\* By an admin other than the account itself.  Its games and memberships go with
\* it; its access token lives on.
DeleteUser(u) ==
    /\ u \in users
    /\ \E admin \in Admins : admin # u
    /\ users' = users \ {u}
    /\ games' = [s \in Sessions |-> IF s \in GamesOf(u) THEN NoGame ELSE games[s]]
    /\ players' = [s \in Sessions |-> IF s \in GamesOf(u) THEN {} ELSE players[s] \ {u}]
    /\ UNCHANGED <<everGames, hits, unfinished, counts>>

-----------------------------------------------------------------------------
(* Joining.                                                                *)

IsOwner(u, s) == Exists(s) /\ games[s].owner = u
WrongPassword(u, s, password) ==
    /\ Exists(s) /\ games[s].passwordRequired /\ games[s].password # NoPassword
    /\ ~ IsOwner(u, s) /\ u \notin players[s]
    /\ password # NoPassword /\ password # games[s].password

\* What joinSession answers: a member of long standing gets 409.
Status(u, s, password) ==
    IF ~ Exists(s) THEN 404
    ELSE IF IsOwner(u, s) THEN 200
    ELSE IF u \in players[s] THEN 409
    ELSE IF games[s].passwordRequired /\ games[s].password = NoPassword THEN 503
    ELSE IF games[s].passwordRequired /\ password = NoPassword THEN 400
    ELSE IF games[s].passwordRequired /\ password # games[s].password THEN 401
    ELSE IF u \notin users THEN 500   \* the row cannot refer to the account
    ELSE 200

\* A member coming back is let in as well.
LetsIn(status) == status = 200 \/ status = 409

\* mutant: the library's default.
RequestWasSuccessfulDefault(status) == status < 400

RequestWasSuccessful(status) == status < 400 \/ status = 409

\* mutant: the limit is reached, not passed, by one more.
PassesOnce(key) == hits[key] + 1 <= Limit(key) + 1

Passes(key) == hits[key] + 1 <= Limit(key)

Add(f, keys) == [key \in Keys |-> IF key \in keys THEN f[key] + 1 ELSE f[key]]

Arrives(a, u) == hits[a] < MaxHits /\ hits[u] < MaxHits

\* Too many failed tries of the address, or of the user: the limiters passed
\* until then have counted this one as failed too.
Refuse(keys) ==
    /\ hits' = Add(hits, keys)
    /\ failed' = Add(failed, keys)
    /\ UNCHANGED <<database, unfinished, wrong, returned>>

RefuseAddress(u, a) == Arrives(a, u) /\ ~ Passes(a) /\ Refuse({a})
RefuseUser(u, a) == Arrives(a, u) /\ Passes(a) /\ ~ Passes(u) /\ Refuse({a, u})

JoinFails(u, a, s, password) ==
    /\ Arrives(a, u) /\ Passes(a) /\ Passes(u)
    /\ ~ LetsIn(Status(u, s, password))
    /\ hits' = Add(hits, {a, u})
    /\ failed' = Add(failed, {a, u})
    /\ wrong' = IF WrongPassword(u, s, password) THEN Add(wrong, {a, u}) ELSE wrong
    /\ UNCHANGED <<database, unfinished, returned>>

\* The owner and those who joined before get in as they are.
Join(q, u, a, s, password) ==
    /\ Arrives(a, u) /\ Passes(a) /\ Passes(u)
    /\ unfinished[q] = NoRequest
    /\ LetsIn(Status(u, s, password))
    /\ players' = IF IsOwner(u, s) THEN players ELSE [players EXCEPT ![s] = @ \cup {u}]
    /\ hits' = Add(hits, {a, u})
    /\ unfinished' = [unfinished EXCEPT ![q] = 
                        [status |-> Status(u, s, password), keys |-> {a, u}, early |-> {}]]
    /\ UNCHANGED <<users, games, everGames, counts>>

\* What handing over a response takes back.
TakenBack(q) ==
    IF RequestWasSuccessful(unfinished[q].status)
    THEN {key \in unfinished[q].keys : hits[key] > 0}
    ELSE {}

\* The response is handed over: the limiters take back what they counted, in
\* whatever window they are by now.  Nothing happens then for a failed try.
Finish(q) ==
    /\ unfinished[q] # NoRequest
    /\ hits' = [key \in Keys |-> IF key \in TakenBack(q) THEN hits[key] - 1 ELSE hits[key]]
    /\ returned' = Add(returned, TakenBack(q) \cap unfinished[q].early)
    /\ unfinished' = [unfinished EXCEPT ![q] = NoRequest]
    /\ UNCHANGED <<database, failed, wrong>>

\* The key's window ends: its counter starts again with the next request.
WindowEnds(key) ==
    /\ hits' = [hits EXCEPT ![key] = 0]
    /\ failed' = [failed EXCEPT ![key] = 0]
    /\ wrong' = [wrong EXCEPT ![key] = 0]
    /\ returned' = [returned EXCEPT ![key] = 0]
    /\ unfinished' = [q \in Requests |->
                        IF unfinished[q] # NoRequest /\ key \in unfinished[q].keys
                        THEN [unfinished[q] EXCEPT !.early = @ \cup {key}]
                        ELSE unfinished[q]]
    /\ UNCHANGED database

\* The counters are in memory, the games in the database.
ServerRestart ==
    /\ hits' = [key \in Keys |-> 0]
    /\ failed' = [key \in Keys |-> 0]
    /\ wrong' = [key \in Keys |-> 0]
    /\ returned' = [key \in Keys |-> 0]
    /\ unfinished' = [q \in Requests |-> NoRequest]
    /\ UNCHANGED database

-----------------------------------------------------------------------------
Given == Passwords \cup {NoPassword}

Next ==
    \/ \E u \in Users, s \in Sessions, password \in Given :
          \/ \E required \in BOOLEAN : CreateSession(u, s, required, password)
          \/ UpdateSession(u, s, password)
          \/ \E a \in Addresses :
                \/ JoinFails(u, a, s, password)
                \/ \E q \in Requests : Join(q, u, a, s, password)
    \/ \E u \in Users, s \in Sessions : DeleteSession(u, s)
    \/ \E s \in Sessions : ExpireSession(s)
    \/ \E u \in Users, a \in Addresses : RefuseAddress(u, a) \/ RefuseUser(u, a)
    \/ \E u \in Users : DeleteUser(u)
    \/ \E q \in Requests : Finish(q)
    \/ \E key \in Keys : WindowEnds(key)
    \/ ServerRestart

Spec == Init /\ [][Next]_vars

-----------------------------------------------------------------------------
(* Properties.                                                             *)

\* What the rows refer to exists, however games and accounts come and go while
\* access tokens live on: games have their owner, memberships their game and
\* account, and only a game that asks for a password keeps one
\* (schema.sql:24-45, gameSessionService.js:7-19, 109-118).
RowsConsistent ==
    \A s \in Sessions :
        /\ Exists(s) => games[s].owner \in users
        /\ Exists(s) /\ ~ games[s].passwordRequired => games[s].password = NoPassword
        /\ players[s] \subseteq users
        /\ players[s] # {} => Exists(s)

\* Within one window no user and no address has more wrong passwords compared than
\* its limit, plus one for each join of an earlier window whose response was handed
\* over in this one (gamelist.js:14-35).
GuessesLimited == \A key \in Keys : wrong[key] <= Limit(key) + returned[key]

\* Joins counted in the key's window and not taken back yet.
Underway(key) == {q \in Requests : /\ unfinished[q] # NoRequest
                                   /\ key \in unfinished[q].keys \ unfinished[q].early}
Earned(key) == failed[key] + Cardinality(Underway(key)) >= Limit(key)

\* "Only failed tries count; a member coming back (409) or a right password never
\* does": a refusal needs failed tries of the window, or joins whose responses are
\* not handed over yet, up to the limit (gamelist.js:18-35).
RefusalsEarned ==
    [][\A u \in Users, a \in Addresses :
          (RefuseAddress(u, a) => Earned(a)) /\ (RefuseUser(u, a) => Earned(u))]_vars

\* A game that asks for a password goes on asking for one, and keeps the one it has
\* until it is given another: the backend's re-sent details never open it
\* (gameSessionService.js:99-118).
PasswordsKept ==
    [][\A s \in Sessions :
          Exists(s) /\ games[s].passwordRequired /\ games'[s] # NoGame
              => /\ games'[s].passwordRequired
                 /\ games[s].password # NoPassword => games'[s].password # NoPassword]_vars
=============================================================================
