------------------------------- MODULE Tokens -------------------------------
(***************************************************************************)
(* What a login hands out and what ends it: refresh tokens, rotated with   *)
(* every use and kept by the client in a cookie or by itself, access       *)
(* tokens, and the tickets a GM backend connects to signaling with.        *)
(*                                                                         *)
(*   services/authService.js     tickets, refresh tokens, rotation         *)
(*   routes/user.js              login, logout, refresh, resetpassword     *)
(*   routes/gamelist.js          signalingticket                           *)
(*   services/cleanupService.js  pruneRefreshTokens                        *)
(*                                                                         *)
(* A handler is one step; where it makes two commits a crash between them  *)
(* is a step of its own.  An answer may be lost after the handler ran.     *)
(* The session a ticket names is left out: only its owner is given one,    *)
(* and its owner's user is what ends it.                                   *)
(***************************************************************************)
EXTENDS Naturals, FiniteSets

CONSTANTS Users,
          Clients,      \* a browser's cookie jar, or a GM backend
          TokenIds,     \* random UUIDs: each is used once
          MaxLogouts,   \* bound: logouts and resets per user
          MaxAsking,    \* bound: refreshes under way
          NoToken, NoUser, NoRow

Rows == [user : Users, revoked : BOOLEAN, expired : BOOLEAN]
Tickets == [user : Users, gen : 0 .. MaxLogouts, logouts : 0 .. MaxLogouts]

ASSUME TokensAssumption ==
    /\ MaxLogouts \in Nat
    /\ MaxAsking \in Nat
    /\ NoToken \notin TokenIds
    /\ NoUser \notin Users
    /\ NoRow \notin Rows

VARIABLES
    users,        \* rows of users
    generation,   \* users.ticket_generation
    rows,         \* refresh_tokens
    tickets,      \* tickets issued and not expired
    access,       \* the user whose unexpired access token a client holds
    cookie,       \* the client's nm_refresh cookie
    held,         \* the refresh token the client keeps itself
    asking,       \* refreshes under way: [client, token, from, mode]
    passwords,    \* history: resets of a user's password
    logouts,      \* history: logouts and completed resets of a user
    halted,       \* history: a reset stopped half-way, none completed since
    origin        \* history: the login a refresh token descends from

database == <<users, generation, rows>>
client == <<access, cookie, held, asking>>
history == <<passwords, logouts, halted, origin>>
vars == <<database, tickets, client, history>>

Modes == {"cookie", "body"}
Requests == [client : Clients, token : TokenIds, from : Modes, mode : Modes]
Origins == [login : TokenIds, logouts : 0 .. MaxLogouts, passwords : 0 .. MaxLogouts]

TypeOK ==
    /\ users \subseteq Users
    /\ generation \in [Users -> 0 .. MaxLogouts]
    /\ rows \in [TokenIds -> Rows \cup {NoRow}]
    /\ tickets \subseteq Tickets
    /\ access \in [Clients -> Users \cup {NoUser}]
    /\ cookie \in [Clients -> TokenIds \cup {NoToken}]
    /\ held \in [Clients -> TokenIds \cup {NoToken}]
    /\ asking \subseteq Requests
    /\ passwords \in [Users -> 0 .. MaxLogouts]
    /\ logouts \in [Users -> 0 .. MaxLogouts]
    /\ halted \subseteq Users
    /\ DOMAIN origin \subseteq TokenIds
    /\ \A t \in DOMAIN origin : origin[t] \in Origins

Init ==
    /\ users = Users
    /\ generation = [u \in Users |-> 0]
    /\ rows = [t \in TokenIds |-> NoRow]
    /\ tickets = {}
    /\ access = [c \in Clients |-> NoUser]
    /\ cookie = [c \in Clients |-> NoToken]
    /\ held = [c \in Clients |-> NoToken]
    /\ asking = {}
    /\ passwords = [u \in Users |-> 0]
    /\ logouts = [u \in Users |-> 0]
    /\ halted = {}
    /\ origin = << >>

-----------------------------------------------------------------------------
\* A refresh token rotateRefreshToken accepts.
Live(t) == t # NoToken /\ rows[t] # NoRow /\ ~ rows[t].revoked /\ ~ rows[t].expired

\* A ticket verifySignalingTicket accepts.
Usable(ticket) == ticket.user \in users /\ ticket.gen = generation[ticket.user]

Unused == TokenIds \ DOMAIN origin

WithOrigin(t, o) == [d \in DOMAIN origin \cup {t} |-> IF d = t THEN o ELSE origin[d]]

\* generateRefreshToken, for a login or for the successor of a used token.
NewRow(u) == [user |-> u, revoked |-> FALSE, expired |-> FALSE]

\* sendTokens: the answer's cookie or body carries t; it may be lost.
Answer(c, u, t, mode, arrives) ==
    /\ access' = IF arrives THEN [access EXCEPT ![c] = u] ELSE access
    /\ cookie' = IF arrives /\ mode = "cookie" THEN [cookie EXCEPT ![c] = t] ELSE cookie
    /\ held' = IF arrives /\ mode = "body" THEN [held EXCEPT ![c] = t] ELSE held

\* login, and the end of register.
Login(c, u, t, mode) ==
    /\ u \in users
    /\ t \in Unused
    /\ rows' = [rows EXCEPT ![t] = NewRow(u)]
    /\ origin' = WithOrigin(t, [login |-> t, logouts |-> logouts[u], passwords |-> passwords[u]])
    /\ \E arrives \in BOOLEAN : Answer(c, u, t, mode, arrives)
    /\ UNCHANGED <<users, generation, tickets, asking, passwords, logouts, halted>>

\* A refresh leaves with what the client has now: another tab's may be under
\* way with the same token.  With no token of its own it relies on the cookie.
SendRefresh(c, mode) ==
    /\ Cardinality(asking) < MaxAsking
    /\ \E from \in Modes :
          LET t == IF from = "body" THEN held[c] ELSE cookie[c] IN
          /\ t # NoToken
          /\ asking' = asking \cup {[client |-> c, token |-> t, from |-> from, mode |-> mode]}
    /\ UNCHANGED <<database, tickets, access, cookie, held, history>>

\* mutant: a cookie's token is answered where the client asked for it.
AnswerModeAsked(r) == r.mode

\* A token from the cookie is always answered with a cookie.
AnswerMode(r) == IF r.from = "cookie" THEN "cookie" ELSE r.mode

Rotated(t, next) ==
    [rows EXCEPT ![t].revoked = TRUE, ![next] = NewRow(rows[t].user)]

\* mutant: the used token stays good.
RefreshUnrevoked(r, next) ==
    /\ r \in asking
    /\ Live(r.token)
    /\ next \in Unused
    /\ rows' = [rows EXCEPT ![next] = NewRow(rows[r.token].user)]
    /\ origin' = WithOrigin(next, origin[r.token])
    /\ asking' = asking \ {r}
    /\ \E arrives \in BOOLEAN :
          Answer(r.client, rows[r.token].user, next, AnswerMode(r), arrives)
    /\ UNCHANGED <<users, generation, tickets, passwords, logouts, halted>>

Refresh(r, next) ==
    /\ r \in asking
    /\ Live(r.token)
    /\ next \in Unused
    /\ rows' = Rotated(r.token, next)
    /\ origin' = WithOrigin(next, origin[r.token])
    /\ asking' = asking \ {r}
    /\ \E arrives \in BOOLEAN :
          Answer(r.client, rows[r.token].user, next, AnswerMode(r), arrives)
    /\ UNCHANGED <<users, generation, tickets, passwords, logouts, halted>>

\* The token was used, revoked, expired or deleted: the client keeps its cookie.
RefreshRefused(r) ==
    /\ r \in asking
    /\ ~ Live(r.token)
    /\ asking' = asking \ {r}
    /\ UNCHANGED <<database, tickets, access, cookie, held, history>>

\* The process ends after the old token is revoked, before the new one is made.
RefreshCrash(r) ==
    /\ r \in asking
    /\ Live(r.token)
    /\ rows' = [rows EXCEPT ![r.token].revoked = TRUE]
    /\ asking' = {}
    /\ UNCHANGED <<users, generation, tickets, access, cookie, held, history>>

\* revokeRefreshTokensForUser, in one transaction.
RevokedOf(u) ==
    [t \in TokenIds |-> IF rows[t] # NoRow /\ rows[t].user = u
                        THEN [rows[t] EXCEPT !.revoked = TRUE]
                        ELSE rows[t]]

\* mutant: the tickets stay good.
RevokeRefreshTokensOnly(u) ==
    rows' = RevokedOf(u) /\ UNCHANGED generation

RevokeRefreshTokensForUser(u) ==
    /\ rows' = RevokedOf(u)
    /\ generation' = [generation EXCEPT ![u] = IF u \in users THEN @ + 1 ELSE @]

\* logout: with an access token of the user, who may be gone.
Logout(c) ==
    LET u == access[c] IN
    /\ u # NoUser
    /\ logouts[u] < MaxLogouts
    /\ RevokeRefreshTokensForUser(u)
    /\ logouts' = [logouts EXCEPT ![u] = IF u \in users THEN @ + 1 ELSE @]
    /\ \E arrives \in BOOLEAN :
          /\ access' = IF arrives THEN [access EXCEPT ![c] = NoUser] ELSE access
          /\ cookie' = IF arrives THEN [cookie EXCEPT ![c] = NoToken] ELSE cookie
    /\ UNCHANGED <<users, tickets, held, asking, passwords, halted, origin>>

\* mutant: the new password does not end the logins made with the old one.
ResetPasswordOnly(u) ==
    /\ u \in users
    /\ logouts[u] < MaxLogouts
    /\ passwords[u] < MaxLogouts
    /\ passwords' = [passwords EXCEPT ![u] = @ + 1]
    /\ halted' = halted \ {u}
    /\ UNCHANGED <<database, tickets, client, logouts, origin>>

ResetPassword(u) ==
    /\ u \in users
    /\ logouts[u] < MaxLogouts
    /\ passwords[u] < MaxLogouts
    /\ passwords' = [passwords EXCEPT ![u] = @ + 1]
    /\ RevokeRefreshTokensForUser(u)
    /\ logouts' = [logouts EXCEPT ![u] = @ + 1]
    /\ halted' = halted \ {u}
    /\ UNCHANGED <<users, tickets, client, origin>>

\* The process ends after the new password is stored.
ResetPasswordCrash(u) ==
    /\ u \in users
    /\ passwords[u] < MaxLogouts
    /\ passwords' = [passwords EXCEPT ![u] = @ + 1]
    /\ halted' = halted \cup {u}
    /\ asking' = {}
    /\ UNCHANGED <<database, tickets, access, cookie, held, logouts, origin>>

\* deleteuser: the user's refresh tokens go with the row.
DeleteUser(u) ==
    /\ u \in users
    /\ users' = users \ {u}
    /\ rows' = [t \in TokenIds |->
                  IF rows[t] # NoRow /\ rows[t].user = u THEN NoRow ELSE rows[t]]
    /\ UNCHANGED <<generation, tickets, client, history>>

\* signalingticket: the owner's access token is traded for a ticket; a deleted
\* user's sessions are gone.
IssueTicket(c) ==
    LET u == access[c] IN
    /\ u \in users
    /\ tickets' = tickets \cup {[user |-> u, gen |-> generation[u], logouts |-> logouts[u]]}
    /\ UNCHANGED <<database, client, history>>

\* Time passes.
ExpireRefreshToken(t) ==
    /\ Live(t)
    /\ rows' = [rows EXCEPT ![t].expired = TRUE]
    /\ UNCHANGED <<users, generation, tickets, client, history>>

ExpireAccessToken(c) ==
    /\ access[c] # NoUser
    /\ access' = [access EXCEPT ![c] = NoUser]
    /\ UNCHANGED <<database, tickets, cookie, held, asking, history>>

ExpireTicket(ticket) ==
    /\ ticket \in tickets
    /\ tickets' = tickets \ {ticket}
    /\ UNCHANGED <<database, client, history>>

Prunable(t) == rows[t] # NoRow /\ (rows[t].revoked \/ rows[t].expired)

PruneRefreshTokens ==
    /\ rows' = [t \in TokenIds |-> IF Prunable(t) THEN NoRow ELSE rows[t]]
    /\ UNCHANGED <<users, generation, tickets, client, history>>

Next ==
    \/ \E c \in Clients :
          \/ \E u \in Users, t \in TokenIds, mode \in Modes : Login(c, u, t, mode)
          \/ \E mode \in Modes : SendRefresh(c, mode)
          \/ Logout(c) \/ IssueTicket(c) \/ ExpireAccessToken(c)
    \/ \E r \in asking :
          \/ \E next \in TokenIds : Refresh(r, next)
          \/ RefreshRefused(r) \/ RefreshCrash(r)
    \/ \E u \in Users : ResetPassword(u) \/ ResetPasswordCrash(u) \/ DeleteUser(u)
    \/ \E t \in TokenIds : ExpireRefreshToken(t)
    \/ \E ticket \in tickets : ExpireTicket(ticket)
    \/ PruneRefreshTokens

Spec == Init /\ [][Next]_vars

-----------------------------------------------------------------------------
(* Properties.                                                             *)

\* However often a login is refreshed, from however many tabs at once, at most
\* one of its tokens is good at a time: using one uses it up
\* (authService.js:92-111).
OneLivePerLogin ==
    \A t, s \in DOMAIN origin :
        Live(t) /\ Live(s) /\ origin[t].login = origin[s].login => t = s

\* After a logout or a completed password reset no refresh token of a login
\* before it, however often rotated, and no ticket issued before it is good
\* again (authService.js:73-75, 113-120).
LogoutEndsLogins ==
    /\ \A t \in DOMAIN origin : Live(t) => origin[t].logouts = logouts[rows[t].user]
    /\ \A ticket \in tickets : Usable(ticket) => ticket.logouts = logouts[ticket.user]

\* No login made with an old password outlives a reset of it, unless the reset
\* stopped between its two commits (user.js:312-317).
ResetEndsOldLogins ==
    \A t \in DOMAIN origin :
        Live(t) => origin[t].passwords = passwords[rows[t].user] \/ rows[t].user \in halted

\* A refresh whose answer arrives never leaves a dead token in a cookie that held
\* a live one, whichever of its tokens the client sent and wherever it asked for
\* the answer (user.js:431-443).
CookieStaysLive ==
    [][\A r \in asking, next \in TokenIds :
          /\ Refresh(r, next)
          /\ next \in {cookie'[r.client], held'[r.client]}
          /\ Live(cookie[r.client])
          => Live(cookie[r.client])']_vars
=============================================================================
