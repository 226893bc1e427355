----------------------------- MODULE TokensProofs -----------------------------
(***************************************************************************)
(* Proofs about Tokens, for any users, clients and numbers of refreshes    *)
(* under way.                                                              *)
(*                                                                         *)
(* But for a login and a refresh, a step only takes from the tokens that   *)
(* are good.  What a login and a refresh add is a token nobody had: that   *)
(* needs every token that is stored, kept or on its way to be one that was *)
(* made, and gives the rest.                                               *)
(***************************************************************************)
EXTENDS Tokens, TLAPS

Made == DOMAIN origin

\* Whatever names a token names one that was made.
NamesMade ==
    /\ \A t \in TokenIds : rows[t] # NoRow => t \in Made
    /\ \A t \in Made : origin[t].login \in Made
    /\ \A c \in Clients : /\ cookie[c] # NoToken => cookie[c] \in Made
                          /\ held[c] # NoToken => held[c] \in Made
    /\ \A r \in asking : r.token \in Made

\* No token is kept in a cookie and outside of it.
KeptApart ==
    /\ \A c, d \in Clients : held[c] # NoToken => held[c] # cookie[d]
    /\ \A r \in asking, d \in Clients : r.from = "body" => r.token # cookie[d]

\* A user's generation is the number of its logouts and resets.
GenerationsCount ==
    /\ generation = logouts
    /\ \A ticket \in tickets : ticket.gen = ticket.logouts

Inv == TypeOK /\ NamesMade /\ KeptApart /\ GenerationsCount

-----------------------------------------------------------------------------
LEMMA InitInv == Init => Inv
<1> SUFFICES ASSUME Init PROVE Inv
  OBVIOUS
<1>1. DOMAIN origin = {}
  BY DEF Init
<1>2. TypeOK
  BY <1>1, TokensAssumption DEF Init, TypeOK
<1>3. NamesMade
  BY <1>1 DEF Init, NamesMade, Made
<1>4. KeptApart
  BY DEF Init, KeptApart
<1>5. GenerationsCount
  BY DEF Init, GenerationsCount
<1> QED BY <1>2, <1>3, <1>4, <1>5 DEF Inv

\* A fresh token's origin joins the others.
LEMMA OriginAdded ==
    ASSUME TypeOK, NEW t \in Unused, NEW o \in Origins, origin' = WithOrigin(t, o)
    PROVE /\ Made' = Made \cup {t} /\ Made' \subseteq TokenIds
          /\ origin'[t] = o
          /\ \A s \in Made : s # t /\ origin'[s] = origin[s]
          /\ \A s \in Made' : origin'[s] \in Origins
BY DEF TypeOK, Unused, WithOrigin, Made

\* An answer leaves a client with what it had, or puts the token in its place.
LEMMA AnswerType ==
    ASSUME TypeOK, NEW c \in Clients, NEW u \in Users, NEW t \in TokenIds, NEW mode,
           NEW arrives \in BOOLEAN, Answer(c, u, t, mode, arrives)
    PROVE /\ access' \in [Clients -> Users \cup {NoUser}]
          /\ cookie' \in [Clients -> TokenIds \cup {NoToken}]
          /\ held' \in [Clients -> TokenIds \cup {NoToken}]
          /\ \A d \in Clients : cookie'[d] # cookie[d] => cookie'[d] = t
          /\ \A d \in Clients : held'[d] # held[d] => held'[d] = t
          /\ \/ cookie' = cookie
             \/ held' = held
BY DEF TypeOK, Answer

\* What a login and a refresh have in common.
LEMMA NewTokenStep ==
    ASSUME Inv, NEW c \in Clients, NEW u \in Users, NEW t \in Unused, NEW mode,
           NEW o \in Origins, origin' = WithOrigin(t, o), o.login \in Made \cup {t},
           \E arrives \in BOOLEAN : Answer(c, u, t, mode, arrives),
           rows' \in [TokenIds -> Rows \cup {NoRow}],
           \A s \in TokenIds \ {t} : rows'[s] # NoRow => rows[s] # NoRow,
           asking' \subseteq asking,
           UNCHANGED <<users, generation, tickets, passwords, logouts, halted>>
    PROVE Inv'
<1>1. TypeOK /\ NamesMade /\ KeptApart /\ GenerationsCount /\ t \in TokenIds /\ t \notin Made
  BY DEF Inv, Unused, Made
<1>2. PICK arrives \in BOOLEAN : Answer(c, u, t, mode, arrives)
  OBVIOUS
<1>3. /\ access' \in [Clients -> Users \cup {NoUser}]
      /\ cookie' \in [Clients -> TokenIds \cup {NoToken}]
      /\ held' \in [Clients -> TokenIds \cup {NoToken}]
      /\ \A d \in Clients : cookie'[d] # cookie[d] => cookie'[d] = t
      /\ \A d \in Clients : held'[d] # held[d] => held'[d] = t
      /\ cookie' = cookie \/ held' = held
  BY <1>1, <1>2, AnswerType
<1>4. /\ Made' = Made \cup {t} /\ Made' \subseteq TokenIds
      /\ origin'[t] = o
      /\ \A s \in Made : s # t /\ origin'[s] = origin[s]
      /\ \A s \in Made' : origin'[s] \in Origins
  BY <1>1, OriginAdded
<1>5. TypeOK'
  BY <1>1, <1>3, <1>4 DEF TypeOK, Made
<1>6. NamesMade'
  <2>1. \A s \in TokenIds : rows'[s] # NoRow => s \in Made'
    BY <1>1, <1>4 DEF NamesMade
  <2>2. \A s \in Made' : origin'[s].login \in Made'
    BY <1>1, <1>4 DEF NamesMade
  <2>3. \A d \in Clients : /\ cookie'[d] # NoToken => cookie'[d] \in Made'
                           /\ held'[d] # NoToken => held'[d] \in Made'
    BY <1>1, <1>3, <1>4 DEF NamesMade
  <2>4. \A r \in asking' : r.token \in Made'
    BY <1>1, <1>4 DEF NamesMade
  <2> QED BY <2>1, <2>2, <2>3, <2>4 DEF NamesMade
<1>7. KeptApart'
  <2>1. \A d, e \in Clients : held'[d] # NoToken => held'[d] # cookie'[e]
    BY <1>1, <1>3, TokensAssumption DEF NamesMade, KeptApart
  <2>2. \A r \in asking', d \in Clients : r.from = "body" => r.token # cookie'[d]
    BY <1>1, <1>3 DEF NamesMade, KeptApart
  <2> QED BY <2>1, <2>2 DEF KeptApart
<1>8. GenerationsCount'
  BY <1>1 DEF GenerationsCount
<1> QED BY <1>5, <1>6, <1>7, <1>8 DEF Inv

\* Every step but a login and a refresh.
OtherNext ==
    \/ \E c \in Clients : \/ \E mode \in Modes : SendRefresh(c, mode)
                          \/ Logout(c) \/ IssueTicket(c) \/ ExpireAccessToken(c)
    \/ \E r \in asking : RefreshRefused(r) \/ RefreshCrash(r)
    \/ \E u \in Users : ResetPassword(u) \/ ResetPasswordCrash(u) \/ DeleteUser(u)
    \/ \E t \in TokenIds : ExpireRefreshToken(t)
    \/ \E ticket \in tickets : ExpireTicket(ticket)
    \/ PruneRefreshTokens
    \/ UNCHANGED vars

\* Revoking all of a user's tokens leaves the others' as they are.
LEMMA RevokedType ==
    ASSUME TypeOK, NEW u \in Users
    PROVE /\ RevokedOf(u) \in [TokenIds -> Rows \cup {NoRow}]
          /\ \A t \in TokenIds :
                /\ RevokedOf(u)[t] = NoRow <=> rows[t] = NoRow
                /\ rows[t] # NoRow /\ rows[t].user # u => RevokedOf(u)[t] = rows[t]
                /\ rows[t] # NoRow /\ rows[t].user = u => RevokedOf(u)[t].revoked
<1>1. ASSUME NEW t \in TokenIds, rows[t] # NoRow
      PROVE  LET row == [rows[t] EXCEPT !.revoked = TRUE] IN
             row \in Rows /\ row.revoked
  BY <1>1 DEF TypeOK, Rows
<1> QED BY <1>1, TokensAssumption DEF TypeOK, RevokedOf

LEMMA RevokeStep ==
    ASSUME TypeOK, NEW u \in Users, RevokeRefreshTokensForUser(u), logouts[u] < MaxLogouts,
           GenerationsCount
    PROVE /\ rows' \in [TokenIds -> Rows \cup {NoRow}]
          /\ generation' \in [Users -> 0 .. MaxLogouts]
          /\ generation' = [logouts EXCEPT ![u] = IF u \in users THEN @ + 1 ELSE @]
          /\ rows' = RevokedOf(u)
<1>1. logouts[u] \in 0 .. MaxLogouts /\ logouts[u] + 1 \in 0 .. MaxLogouts
  BY TokensAssumption DEF TypeOK
<1> QED BY <1>1, RevokedType DEF TypeOK, RevokeRefreshTokensForUser, GenerationsCount

LEMMA OneRowType ==
    ASSUME TypeOK, NEW t \in TokenIds, rows[t] # NoRow,
           \/ rows' = [rows EXCEPT ![t].revoked = TRUE]
           \/ rows' = [rows EXCEPT ![t].expired = TRUE]
    PROVE /\ rows' \in [TokenIds -> Rows \cup {NoRow}]
          /\ \A s \in TokenIds : s # t => rows'[s] = rows[s]
          /\ rows'[t] # NoRow /\ (rows'[t].revoked \/ rows'[t].expired)
<1>1. rows[t] \in Rows
  BY DEF TypeOK
<1>2. CASE rows' = [rows EXCEPT ![t].revoked = TRUE]
  <2> DEFINE row == [rows[t] EXCEPT !.revoked = TRUE]
  <2>1. row \in Rows /\ row.revoked
    BY <1>1 DEF Rows
  <2>2. rows' = [rows EXCEPT ![t] = row]
    BY <1>2
  <2> HIDE DEF row
  <2> QED BY <2>1, <2>2, TokensAssumption DEF TypeOK
<1>3. CASE rows' = [rows EXCEPT ![t].expired = TRUE]
  <2> DEFINE row == [rows[t] EXCEPT !.expired = TRUE]
  <2>1. row \in Rows /\ row.expired
    BY <1>1 DEF Rows
  <2>2. rows' = [rows EXCEPT ![t] = row]
    BY <1>3
  <2> HIDE DEF row
  <2> QED BY <2>1, <2>2, TokensAssumption DEF TypeOK
<1> QED BY <1>2, <1>3

\* What these steps do to the rows: whatever is good after one was there before.
RowsTaken ==
    /\ rows' \in [TokenIds -> Rows \cup {NoRow}]
    /\ origin' = origin
    /\ \A t \in TokenIds : /\ rows'[t] # NoRow => rows[t] # NoRow
                           /\ Live(t)' => rows'[t] = rows[t]

LEMMA OtherRows == ASSUME Inv, OtherNext PROVE RowsTaken
<1>1. TypeOK /\ GenerationsCount
  BY DEF Inv
<1>2. ASSUME NEW u \in Users, rows' = RevokedOf(u), origin' = origin PROVE RowsTaken
  BY <1>1, <1>2, RevokedType DEF TypeOK, RowsTaken, Live
<1>3. ASSUME NEW c \in Clients, Logout(c) PROVE RowsTaken
  <2>1. access[c] \in Users /\ rows' = RevokedOf(access[c]) /\ origin' = origin
    BY <1>1, <1>3 DEF TypeOK, Logout, RevokeRefreshTokensForUser
  <2> QED BY <1>2, <2>1
<1>4. ASSUME NEW u \in Users, ResetPassword(u) PROVE RowsTaken
  BY <1>2, <1>4 DEF ResetPassword, RevokeRefreshTokensForUser
<1>5. ASSUME NEW r \in asking, RefreshCrash(r) PROVE RowsTaken
  <2>1. r.token \in TokenIds /\ rows[r.token] # NoRow /\ origin' = origin
        /\ rows' = [rows EXCEPT ![r.token].revoked = TRUE]
    BY <1>1, <1>5 DEF TypeOK, RefreshCrash, Live, Requests, history
  <2> QED BY <1>1, <2>1, OneRowType DEF RowsTaken, Live
<1>6. ASSUME NEW t \in TokenIds, ExpireRefreshToken(t) PROVE RowsTaken
  <2>1. rows[t] # NoRow /\ rows' = [rows EXCEPT ![t].expired = TRUE] /\ origin' = origin
    BY <1>6 DEF ExpireRefreshToken, Live, history
  <2> QED BY <1>1, <2>1, OneRowType DEF RowsTaken, Live
<1>7. ASSUME NEW u \in Users, DeleteUser(u) PROVE RowsTaken
  BY <1>1, <1>7 DEF TypeOK, DeleteUser, RowsTaken, Live, history
<1>8. CASE PruneRefreshTokens
  BY <1>1, <1>8 DEF TypeOK, PruneRefreshTokens, RowsTaken, Live, history
<1>9. CASE rows' = rows /\ origin' = origin
  BY <1>1, <1>9 DEF TypeOK, RowsTaken, Live
<1>10. \/ rows' = rows /\ origin' = origin
       \/ \E c \in Clients : Logout(c)
       \/ \E u \in Users : ResetPassword(u) \/ DeleteUser(u)
       \/ \E r \in asking : RefreshCrash(r)
       \/ \E t \in TokenIds : ExpireRefreshToken(t)
       \/ PruneRefreshTokens
  BY DEF OtherNext, SendRefresh, IssueTicket, ExpireAccessToken, RefreshRefused,
         ResetPasswordCrash, ExpireTicket, vars, database, history
<1> QED BY <1>3, <1>4, <1>5, <1>6, <1>7, <1>8, <1>9, <1>10

\* The rest of what these steps do: clients are left with what they have or
\* with nothing, and ask with what they have.
LEMMA OtherTypes ==
    ASSUME Inv, OtherNext
    PROVE /\ users' \subseteq users
          /\ tickets' \subseteq Tickets
          /\ access' \in [Clients -> Users \cup {NoUser}]
          /\ cookie' \in [Clients -> TokenIds \cup {NoToken}] /\ held' = held
          /\ \A c \in Clients : cookie'[c] \in {cookie[c], NoToken}
          /\ asking' \subseteq Requests
          /\ \A r \in asking' : r \in asking \/ (r.token # NoToken /\
                (IF r.from = "body" THEN r.token = held[r.client] ELSE r.token = cookie[r.client]))
          /\ halted' \subseteq Users
          /\ passwords' \in [Users -> 0 .. MaxLogouts]
          /\ generation' \in [Users -> 0 .. MaxLogouts]
          /\ logouts' = generation'
          /\ \A ticket \in tickets' : ticket.gen = ticket.logouts
<1>1. TypeOK /\ GenerationsCount
  BY DEF Inv
<1> DEFINE
      Goal == /\ users' \subseteq users
              /\ tickets' \subseteq Tickets
              /\ access' \in [Clients -> Users \cup {NoUser}]
              /\ cookie' \in [Clients -> TokenIds \cup {NoToken}] /\ held' = held
              /\ \A c \in Clients : cookie'[c] \in {cookie[c], NoToken}
              /\ asking' \subseteq Requests
              /\ \A r \in asking' : r \in asking \/ (r.token # NoToken /\
                    (IF r.from = "body" THEN r.token = held[r.client]
                                        ELSE r.token = cookie[r.client]))
              /\ halted' \subseteq Users
              /\ passwords' \in [Users -> 0 .. MaxLogouts]
              /\ generation' \in [Users -> 0 .. MaxLogouts]
              /\ logouts' = generation'
              /\ \A ticket \in tickets' : ticket.gen = ticket.logouts
<1>2. ASSUME NEW c \in Clients, NEW mode \in Modes, SendRefresh(c, mode) PROVE Goal
  <2>1. PICK from \in Modes :
          LET t == IF from = "body" THEN held[c] ELSE cookie[c] IN
          /\ t # NoToken
          /\ asking' = asking \cup {[client |-> c, token |-> t, from |-> from, mode |-> mode]}
    BY <1>2 DEF SendRefresh
  <2> DEFINE t == IF from = "body" THEN held[c] ELSE cookie[c]
             r == [client |-> c, token |-> t, from |-> from, mode |-> mode]
  <2>2. t \in TokenIds /\ r \in Requests
    BY <1>1, <2>1 DEF TypeOK, Requests
  <2>3. asking' = asking \cup {r} /\ r.token # NoToken /\ r.client = c
        /\ (IF r.from = "body" THEN r.token = held[c] ELSE r.token = cookie[c])
    BY <2>1
  <2> HIDE DEF t, r
  <2>4. UNCHANGED <<users, generation, tickets, access, cookie, held, passwords, logouts, halted>>
    BY <1>2 DEF SendRefresh, database, history
  <2> QED BY <1>1, <2>2, <2>3, <2>4 DEF TypeOK, GenerationsCount
<1>3. ASSUME NEW c \in Clients, Logout(c) PROVE Goal
  <2>1. access[c] \in Users /\ RevokeRefreshTokensForUser(access[c])
        /\ logouts[access[c]] < MaxLogouts
    BY <1>1, <1>3 DEF TypeOK, Logout
  <2>2. generation' \in [Users -> 0 .. MaxLogouts] /\ logouts' = generation'
    BY <1>1, <1>3, <2>1, RevokeStep DEF Logout
  <2> QED BY <1>1, <1>3, <2>2 DEF TypeOK, GenerationsCount, Logout
<1>4. ASSUME NEW u \in Users, ResetPassword(u) PROVE Goal
  <2>1. generation' \in [Users -> 0 .. MaxLogouts] /\ logouts' = generation'
    BY <1>1, <1>4, RevokeStep DEF ResetPassword
  <2>2. passwords[u] + 1 \in 0 .. MaxLogouts
    BY <1>1, <1>4, TokensAssumption DEF TypeOK, ResetPassword
  <2> QED BY <1>1, <1>4, <2>1, <2>2 DEF TypeOK, GenerationsCount, ResetPassword, client
<1>5. ASSUME NEW u \in Users, ResetPasswordCrash(u) PROVE Goal
  <2>1. passwords[u] + 1 \in 0 .. MaxLogouts
    BY <1>1, <1>5, TokensAssumption DEF TypeOK, ResetPasswordCrash
  <2> QED BY <1>1, <1>5, <2>1 DEF TypeOK, GenerationsCount, ResetPasswordCrash, database
<1>6. ASSUME NEW c \in Clients, IssueTicket(c) PROVE Goal
  <2> DEFINE ticket == [user |-> access[c], gen |-> generation[access[c]],
                        logouts |-> logouts[access[c]]]
  <2>1. access[c] \in Users
    BY <1>1, <1>6 DEF TypeOK, IssueTicket
  <2>2. ticket \in Tickets /\ ticket.gen = ticket.logouts
    BY <1>1, <2>1 DEF TypeOK, GenerationsCount, Tickets
  <2>3. tickets' = tickets \cup {ticket} /\ UNCHANGED <<database, client, history>>
    BY <1>6 DEF IssueTicket
  <2> HIDE DEF ticket
  <2> QED BY <1>1, <2>2, <2>3 DEF TypeOK, GenerationsCount, database, client, history
<1>7. ASSUME \/ \E c \in Clients : ExpireAccessToken(c)
             \/ \E r \in asking : RefreshRefused(r) \/ RefreshCrash(r)
             \/ \E u \in Users : DeleteUser(u)
             \/ \E t \in TokenIds : ExpireRefreshToken(t)
             \/ \E ticket \in tickets : ExpireTicket(ticket)
             \/ PruneRefreshTokens
             \/ UNCHANGED vars
      PROVE  Goal
  <2>1. /\ users' \subseteq users /\ tickets' \subseteq tickets /\ asking' \subseteq asking
        /\ UNCHANGED <<generation, cookie, held, passwords, logouts, halted>>
    BY <1>7 DEF ExpireAccessToken, RefreshRefused, RefreshCrash, DeleteUser,
           ExpireRefreshToken, ExpireTicket, PruneRefreshTokens, vars, database, client, history
  <2>2. access' \in [Clients -> Users \cup {NoUser}]
    BY <1>1, <1>7 DEF TypeOK, ExpireAccessToken, RefreshRefused, RefreshCrash, DeleteUser,
           ExpireRefreshToken, ExpireTicket, PruneRefreshTokens, vars, database, client, history
  <2> QED BY <1>1, <2>1, <2>2 DEF TypeOK, GenerationsCount
<1> HIDE DEF Goal
<1>8. Goal
  BY <1>2, <1>3, <1>4, <1>5, <1>6, <1>7 DEF OtherNext
<1> QED BY <1>8 DEF Goal

LEMMA OtherInv == ASSUME Inv, OtherNext PROVE Inv'
<1>1. RowsTaken
  BY OtherRows
<1>2. TypeOK /\ NamesMade /\ KeptApart
  BY DEF Inv
<1>3. TypeOK'
  BY <1>1, <1>2, OtherTypes DEF TypeOK, RowsTaken
<1>4. NamesMade'
  <2>1. \A c \in Clients : /\ cookie'[c] # NoToken => cookie'[c] \in Made
                           /\ held'[c] # NoToken => held'[c] \in Made
    BY <1>2, OtherTypes DEF NamesMade
  <2>2. \A r \in asking' : r.token \in Made
    <3> TAKE r \in asking'
    <3>1. r \in Requests /\ r.client \in Clients
      BY OtherTypes DEF Requests
    <3> QED BY <1>2, <3>1, OtherTypes DEF NamesMade
  <2> QED BY <1>1, <1>2, <2>1, <2>2 DEF NamesMade, RowsTaken, Made
<1>5. KeptApart'
  <2>1. \A c, d \in Clients : held'[c] # NoToken => held'[c] # cookie'[d]
    BY <1>2, OtherTypes DEF KeptApart
  <2>2. ASSUME NEW r \in asking', NEW d \in Clients, r.from = "body"
        PROVE  r.token # cookie'[d]
    <3>1. r \in Requests /\ r.client \in Clients /\ r.token # NoToken
      BY OtherTypes, TokensAssumption DEF Requests
    <3> QED BY <1>2, <2>2, <3>1, OtherTypes DEF KeptApart
  <2> QED BY <2>1, <2>2 DEF KeptApart
<1>6. GenerationsCount'
  BY OtherTypes DEF GenerationsCount
<1> QED BY <1>3, <1>4, <1>5, <1>6 DEF Inv

-----------------------------------------------------------------------------
\* A login's row: the only one it adds, and good.
LEMMA LoginRows ==
    ASSUME TypeOK, NEW c \in Clients, NEW u \in Users, NEW t \in TokenIds, NEW mode \in Modes,
           Login(c, u, t, mode)
    PROVE /\ rows' \in [TokenIds -> Rows \cup {NoRow}]
          /\ \A s \in TokenIds \ {t} : rows'[s] = rows[s]
          /\ rows'[t].user = u
          /\ t \in Unused
<1>1. NewRow(u) \in Rows /\ NewRow(u).user = u
  BY DEF NewRow, Rows
<1> QED BY <1>1 DEF TypeOK, Login

LEMMA LoginInv ==
    ASSUME Inv, NEW c \in Clients, NEW u \in Users, NEW t \in TokenIds, NEW mode \in Modes,
           Login(c, u, t, mode)
    PROVE Inv'
<1> DEFINE o == [login |-> t, logouts |-> logouts[u], passwords |-> passwords[u]]
<1>1. TypeOK
  BY DEF Inv
<1>2. o \in Origins /\ o.login \in Made \cup {t}
  BY <1>1 DEF TypeOK, Origins
<1>3. /\ origin' = WithOrigin(t, o) /\ asking' = asking
      /\ \E arrives \in BOOLEAN : Answer(c, u, t, mode, arrives)
      /\ UNCHANGED <<users, generation, tickets, passwords, logouts, halted>>
  BY DEF Login
<1> HIDE DEF o
<1> QED BY <1>1, <1>2, <1>3, LoginRows, NewTokenStep

\* A refresh's rows: the used token revoked, its successor good.
LEMMA RefreshRows ==
    ASSUME Inv, NEW r \in asking, NEW next \in TokenIds, Refresh(r, next)
    PROVE /\ rows' \in [TokenIds -> Rows \cup {NoRow}]
          /\ \A s \in TokenIds \ {next} : rows'[s] # NoRow => rows[s] # NoRow
          /\ \A s \in TokenIds : Live(s)' => s # r.token /\ (s = next \/ rows'[s] = rows[s])
          /\ \A s \in TokenIds \ {next, r.token} : rows'[s] = rows[s]
          /\ rows'[next].user = rows[r.token].user
          /\ rows'[next] # NoRow /\ ~ rows'[next].revoked /\ ~ rows'[next].expired
          /\ r.token \in TokenIds \cap Made /\ rows[r.token].user \in Users
          /\ next \in Unused /\ next # r.token
<1>1. TypeOK /\ NamesMade
  BY DEF Inv
<1>2. r.token \in TokenIds \cap Made /\ next \in Unused /\ next # r.token
  BY <1>1 DEF TypeOK, NamesMade, Requests, Refresh, Unused, Made
<1>3. rows[r.token] \in Rows /\ rows[r.token].user \in Users
  BY <1>1, <1>2 DEF TypeOK, Refresh, Live, Rows
<1> DEFINE used == [rows[r.token] EXCEPT !.revoked = TRUE]
           new == NewRow(rows[r.token].user)
<1>4. used \in Rows /\ used.revoked
  BY <1>3 DEF Rows
<1>5. new \in Rows /\ new.user = rows[r.token].user /\ ~ new.revoked /\ ~ new.expired
  BY <1>3 DEF Rows, NewRow
<1>6. rows' = [rows EXCEPT ![r.token] = used, ![next] = new]
  BY DEF Refresh, Rotated
<1> HIDE DEF used, new
<1>7. /\ rows' \in [TokenIds -> Rows \cup {NoRow}]
      /\ rows'[r.token] = used /\ rows'[next] = new
      /\ \A s \in TokenIds \ {next, r.token} : rows'[s] = rows[s]
  BY <1>1, <1>2, <1>4, <1>5, <1>6 DEF TypeOK
<1>8. rows[r.token] # NoRow /\ new # NoRow
  BY <1>3, <1>5, TokensAssumption
<1>9. \A s \in TokenIds : Live(s)' => s # r.token /\ (s = next \/ rows'[s] = rows[s])
  BY <1>4, <1>7 DEF Live
<1> QED BY <1>2, <1>3, <1>5, <1>7, <1>8, <1>9

LEMMA RefreshInv ==
    ASSUME Inv, NEW r \in asking, NEW next \in TokenIds, Refresh(r, next)
    PROVE Inv'
<1>1. TypeOK /\ NamesMade
  BY DEF Inv
<1>2. r.client \in Clients /\ r.token \in Made /\ rows[r.token].user \in Users
  BY <1>1, RefreshRows DEF TypeOK, Requests
<1>3. origin[r.token] \in Origins /\ origin[r.token].login \in Made \cup {next}
  BY <1>1, <1>2 DEF TypeOK, NamesMade, Made
<1>4. /\ origin' = WithOrigin(next, origin[r.token]) /\ asking' \subseteq asking
      /\ \E arrives \in BOOLEAN :
            Answer(r.client, rows[r.token].user, next, AnswerMode(r), arrives)
      /\ UNCHANGED <<users, generation, tickets, passwords, logouts, halted>>
  BY DEF Refresh
<1> QED BY <1>2, <1>3, <1>4, RefreshRows, NewTokenStep

LEMMA NextCases ==
    [Next]_vars <=>
        \/ \E c \in Clients, u \in Users, t \in TokenIds, mode \in Modes : Login(c, u, t, mode)
        \/ \E r \in asking, next \in TokenIds : Refresh(r, next)
        \/ OtherNext
BY Zenon DEF Next, OtherNext

LEMMA StepInv == Inv /\ [Next]_vars => Inv'
BY NextCases, LoginInv, RefreshInv, OtherInv

LEMMA Invariance == Spec => []Inv
BY InitInv, StepInv, PTL DEF Spec

-----------------------------------------------------------------------------
\* Every variable keeps its type; what a token descends from is known of made
\* tokens (authService.js:64-120).
THEOREM TypeCorrect == Spec => []TypeOK
<1>1. Inv => TypeOK
  BY DEF Inv
<1> QED BY <1>1, Invariance, PTL

\* A token's row, once it is good, was so before, unless the step made it: then
\* it is a login's first or the successor of one that is no longer good.
LEMMA GoodTokens ==
    ASSUME Inv, [Next]_vars
    PROVE \/ RowsTaken
          \/ \E t \in Unused, u \in Users :
                /\ Made' = Made \cup {t} /\ origin'[t].login = t
                /\ origin'[t].logouts = logouts[u] /\ origin'[t].passwords = passwords[u]
                /\ rows'[t].user = u
                /\ \A s \in Made : origin'[s] = origin[s] /\ rows'[s] = rows[s]
                /\ UNCHANGED <<passwords, logouts, halted>>
          \/ \E t \in Unused, old \in Made :
                /\ Made' = Made \cup {t} /\ origin'[t] = origin[old]
                /\ Live(old) /\ ~ Live(old)' /\ rows'[t].user = rows[old].user
                /\ \A s \in Made : /\ origin'[s] = origin[s]
                                   /\ Live(s)' => rows'[s] = rows[s]
                /\ UNCHANGED <<passwords, logouts, halted>>
<1>1. TypeOK /\ NamesMade
  BY DEF Inv
<1>2. ASSUME NEW c \in Clients, NEW u \in Users, NEW t \in TokenIds, NEW mode \in Modes,
             Login(c, u, t, mode)
      PROVE  \E v \in Unused, w \in Users :
                /\ Made' = Made \cup {v} /\ origin'[v].login = v
                /\ origin'[v].logouts = logouts[w] /\ origin'[v].passwords = passwords[w]
                /\ rows'[v].user = w
                /\ \A s \in Made : origin'[s] = origin[s] /\ rows'[s] = rows[s]
                /\ UNCHANGED <<passwords, logouts, halted>>
  <2> DEFINE o == [login |-> t, logouts |-> logouts[u], passwords |-> passwords[u]]
  <2>1. o \in Origins /\ o.login = t /\ o.logouts = logouts[u] /\ o.passwords = passwords[u]
    BY <1>1 DEF TypeOK, Origins
  <2>2. origin' = WithOrigin(t, o) /\ UNCHANGED <<passwords, logouts, halted>>
    BY <1>2 DEF Login
  <2> HIDE DEF o
  <2>3. t \in Unused /\ rows'[t].user = u
        /\ \A s \in TokenIds \ {t} : rows'[s] = rows[s]
    BY <1>1, <1>2, LoginRows
  <2>4. /\ Made' = Made \cup {t} /\ origin'[t] = o
        /\ \A s \in Made : s # t /\ origin'[s] = origin[s]
    BY <1>1, <2>1, <2>2, <2>3, OriginAdded
  <2>5. Made \subseteq TokenIds
    BY <1>1 DEF TypeOK, Made
  <2> QED BY <2>1, <2>2, <2>3, <2>4, <2>5
<1>3. ASSUME NEW r \in asking, NEW next \in TokenIds, Refresh(r, next)
      PROVE  \E t \in Unused, old \in Made :
                /\ Made' = Made \cup {t} /\ origin'[t] = origin[old]
                /\ Live(old) /\ ~ Live(old)' /\ rows'[t].user = rows[old].user
                /\ \A s \in Made : /\ origin'[s] = origin[s]
                                   /\ Live(s)' => rows'[s] = rows[s]
                /\ UNCHANGED <<passwords, logouts, halted>>
  <2>1. r.token \in TokenIds \cap Made /\ next \in Unused
        /\ rows'[next].user = rows[r.token].user
        /\ \A s \in TokenIds : Live(s)' => s # r.token /\ (s = next \/ rows'[s] = rows[s])
    BY <1>3, RefreshRows
  <2>2. origin' = WithOrigin(next, origin[r.token]) /\ Live(r.token)
        /\ UNCHANGED <<passwords, logouts, halted>>
    BY <1>3 DEF Refresh
  <2>3. origin[r.token] \in Origins /\ Made \subseteq TokenIds
    BY <1>1, <2>1 DEF TypeOK, Made
  <2>4. /\ Made' = Made \cup {next} /\ origin'[next] = origin[r.token]
        /\ \A s \in Made : s # next /\ origin'[s] = origin[s]
    BY <1>1, <2>1, <2>2, <2>3, OriginAdded
  <2>5. ~ Live(r.token)' /\ \A s \in Made : Live(s)' => rows'[s] = rows[s]
    BY <2>1, <2>3, <2>4
  <2> QED BY <2>1, <2>2, <2>4, <2>5
<1> QED BY <1>2, <1>3, OtherRows, NextCases

\* Using a token uses it up: of all that descend from one login at most one is
\* good, for any number of clients and refreshes under way
\* (authService.js:92-111).
THEOREM OneIsGood == Spec => []OneLivePerLogin
<1>1. Init => OneLivePerLogin
  BY DEF Init, OneLivePerLogin, Live
<1>2. Inv /\ OneLivePerLogin /\ [Next]_vars => OneLivePerLogin'
  <2> SUFFICES ASSUME Inv, OneLivePerLogin, [Next]_vars,
                      NEW a \in Made', NEW b \in Made', Live(a)', Live(b)',
                      origin'[a].login = origin'[b].login
               PROVE  a = b
    BY DEF OneLivePerLogin, Made
  <2>1. NamesMade /\ Made \subseteq TokenIds /\ Unused \cap Made = {}
    BY DEF Inv, TypeOK, Made, Unused
  <2>2. \A t, s \in Made : Live(t) /\ Live(s) /\ origin[t].login = origin[s].login => t = s
    BY DEF OneLivePerLogin, Made
  <2>3. ASSUME NEW t \in Made, Live(t)', rows'[t] = rows[t] PROVE Live(t)
    BY <2>3 DEF Live
  <2>4. CASE RowsTaken
    <3>1. Made' = Made /\ origin' = origin
      BY <2>4 DEF RowsTaken, Made
    <3>2. Live(a) /\ Live(b)
      BY <2>1, <2>3, <2>4, <3>1 DEF RowsTaken
    <3> QED BY <2>2, <3>1, <3>2
  <2>5. ASSUME NEW t \in Unused, Made' = Made \cup {t}, origin'[t].login = t,
               \A s \in Made : origin'[s] = origin[s] /\ rows'[s] = rows[s]
        PROVE  a = b
    <3>1. \A s \in Made : origin'[s].login \in Made /\ origin'[s].login # t
      BY <2>1, <2>5 DEF NamesMade
    <3>2. CASE a \in Made /\ b \in Made
      BY <2>2, <2>3, <2>5, <3>2
    <3> QED BY <2>5, <3>1, <3>2
  <2>6. ASSUME NEW t \in Unused, NEW old \in Made, Made' = Made \cup {t},
               origin'[t] = origin[old], Live(old), ~ Live(old)',
               \A s \in Made : origin'[s] = origin[s] /\ (Live(s)' => rows'[s] = rows[s])
        PROVE  a = b
    <3>1. ASSUME NEW s \in Made, Live(s)', origin'[s].login = origin'[t].login PROVE FALSE
      <4>1. Live(s) /\ origin[s].login = origin[old].login
        BY <2>3, <2>6, <3>1
      <4>2. s = old
        BY <2>2, <2>6, <4>1
      <4> QED BY <2>6, <3>1, <4>2
    <3>2. CASE a \in Made /\ b \in Made
      BY <2>2, <2>3, <2>6, <3>2
    <3> QED BY <2>6, <3>1, <3>2
  <2> QED BY <2>4, <2>5, <2>6, GoodTokens
<1> QED BY <1>1, <1>2, Invariance, PTL DEF Spec

\* What a step that ends a login counts, it counts for a user none of whose
\* tokens stays good.
LEMMA EndsCounted ==
    ASSUME Inv, RowsTaken, [Next]_vars, NEW t \in Made, Live(t)'
    PROVE LET u == rows[t].user IN
          /\ logouts'[u] = logouts[u]
          /\ passwords'[u] = passwords[u] \/ u \in halted'
          /\ u \in halted => u \in halted'
<1> DEFINE u == rows[t].user
           Goal == /\ logouts'[u] = logouts[u]
                   /\ passwords'[u] = passwords[u] \/ u \in halted'
                   /\ u \in halted => u \in halted'
<1>1. TypeOK /\ t \in TokenIds /\ rows[t] # NoRow /\ rows'[t] = rows[t] /\ ~ rows'[t].revoked
  BY DEF Inv, TypeOK, Made, RowsTaken, Live
<1>2. u \in Users
  BY <1>1 DEF TypeOK, Rows
<1>3. ASSUME NEW v \in Users, rows' = RevokedOf(v) PROVE v # u
  BY <1>1, <1>3, RevokedType
<1> HIDE DEF u
<1>4. ASSUME NEW c \in Clients, Logout(c) PROVE Goal
  <2>1. access[c] \in Users /\ access[c] # u
    BY <1>1, <1>3, <1>4 DEF TypeOK, Logout, RevokeRefreshTokensForUser
  <2> QED BY <1>1, <1>2, <1>4, <2>1 DEF TypeOK, Logout
<1>5. ASSUME NEW v \in Users, ResetPassword(v) PROVE Goal
  <2>1. v # u
    BY <1>3, <1>5 DEF ResetPassword, RevokeRefreshTokensForUser
  <2> QED BY <1>1, <1>2, <1>5, <2>1 DEF TypeOK, ResetPassword
<1>6. ASSUME NEW v \in Users, ResetPasswordCrash(v) PROVE Goal
  BY <1>1, <1>2, <1>6 DEF TypeOK, ResetPasswordCrash
<1>7. CASE UNCHANGED <<passwords, logouts, halted>>
  BY <1>7
<1>8. \/ UNCHANGED <<passwords, logouts, halted>>
      \/ \E c \in Clients : Logout(c)
      \/ \E v \in Users : ResetPassword(v) \/ ResetPasswordCrash(v)
  BY DEF Next, Login, SendRefresh, Refresh, RefreshRefused, RefreshCrash, DeleteUser, IssueTicket,
         ExpireRefreshToken, ExpireAccessToken, ExpireTicket, PruneRefreshTokens, vars, history
<1>9. Goal
  BY <1>4, <1>5, <1>6, <1>7, <1>8
<1> QED BY <1>9 DEF u

\* After a logout or a completed reset nothing given out before it is good again
\* (authService.js:73-75, 113-120).
THEOREM LogoutsEndLogins == Spec => []LogoutEndsLogins
<1> DEFINE TokensEnd == \A t \in Made : Live(t) => origin[t].logouts = logouts[rows[t].user]
<1>1. Init => TokensEnd
  BY DEF Init, Live, Made
<1>2. Inv /\ TokensEnd /\ [Next]_vars => TokensEnd'
  <2> SUFFICES ASSUME Inv, TokensEnd, [Next]_vars, NEW a \in Made', Live(a)'
               PROVE  origin'[a].logouts = logouts'[rows'[a].user]
    OBVIOUS
  <2>1. Made \subseteq TokenIds
    BY DEF Inv, TypeOK, Made
  <2>2. ASSUME NEW t \in Made, Live(t)', rows'[t] = rows[t] PROVE Live(t)
    BY <2>2 DEF Live
  <2>3. CASE RowsTaken
    <3>1. a \in Made /\ origin' = origin /\ rows'[a] = rows[a]
      BY <2>1, <2>3 DEF RowsTaken, Made
    <3>2. logouts'[rows[a].user] = logouts[rows[a].user]
      BY <2>3, <3>1, EndsCounted
    <3> QED BY <2>2, <3>1, <3>2
  <2>4. CASE ~ RowsTaken
    BY <2>2, <2>4, GoodTokens
  <2> QED BY <2>3, <2>4
<1>3. Inv /\ TokensEnd => LogoutEndsLogins
  BY DEF Inv, GenerationsCount, LogoutEndsLogins, Usable, Made
<1> QED BY <1>1, <1>2, <1>3, Invariance, PTL DEF Spec

\* No login made with an old password outlives a completed reset of it
\* (user.js:312-317).
THEOREM ResetsEndOldLogins == Spec => []ResetEndsOldLogins
<1>1. Init => ResetEndsOldLogins
  BY DEF Init, Live, ResetEndsOldLogins
<1>2. Inv /\ ResetEndsOldLogins /\ [Next]_vars => ResetEndsOldLogins'
  <2> SUFFICES ASSUME Inv, ResetEndsOldLogins, [Next]_vars, NEW a \in Made', Live(a)'
               PROVE  \/ origin'[a].passwords = passwords'[rows'[a].user]
                      \/ rows'[a].user \in halted'
    BY DEF ResetEndsOldLogins, Made
  <2>1. Made \subseteq TokenIds
    BY DEF Inv, TypeOK, Made
  <2>2. ASSUME NEW t \in Made, Live(t)
        PROVE  origin[t].passwords = passwords[rows[t].user] \/ rows[t].user \in halted
    BY <2>2 DEF ResetEndsOldLogins, Made
  <2>3. ASSUME NEW t \in Made, Live(t)', rows'[t] = rows[t] PROVE Live(t)
    BY <2>3 DEF Live
  <2>4. CASE RowsTaken
    <3>1. a \in Made /\ origin' = origin /\ rows'[a] = rows[a]
      BY <2>1, <2>4 DEF RowsTaken, Made
    <3>2. /\ passwords'[rows[a].user] = passwords[rows[a].user] \/ rows[a].user \in halted'
          /\ rows[a].user \in halted => rows[a].user \in halted'
      BY <2>4, <3>1, EndsCounted
    <3> QED BY <2>2, <2>3, <3>1, <3>2
  <2>5. CASE ~ RowsTaken
    BY <2>2, <2>3, <2>5, GoodTokens
  <2> QED BY <2>4, <2>5
<1> QED BY <1>1, <1>2, Invariance, PTL DEF Spec

\* A refresh that arrives never leaves a dead token in a cookie that held a live
\* one (user.js:431-443).
THEOREM CookiesStayLive == Spec => CookieStaysLive
<1>1. ASSUME Inv, NEW r \in asking, NEW next \in TokenIds, Refresh(r, next),
             next \in {cookie'[r.client], held'[r.client]}, Live(cookie[r.client])
      PROVE  Live(cookie[r.client])'
  <2>1. TypeOK /\ NamesMade /\ KeptApart /\ r.client \in Clients
    BY <1>1 DEF Inv, TypeOK, Requests
  <2>2. /\ \A s \in TokenIds \ {next, r.token} : rows'[s] = rows[s]
        /\ rows'[next] # NoRow /\ ~ rows'[next].revoked /\ ~ rows'[next].expired
        /\ next \in Unused /\ next # NoToken
    BY <1>1, RefreshRows, TokensAssumption DEF Unused
  <2>3. cookie[r.client] # next /\ held[r.client] # next
    BY <2>1, <2>2 DEF NamesMade, Unused, Made
  <2>4. \/ cookie'[r.client] = next
        \/ cookie'[r.client] = cookie[r.client] /\ r.from = "body"
    <3>1. PICK arrives \in BOOLEAN :
             Answer(r.client, rows[r.token].user, next, AnswerMode(r), arrives)
      BY <1>1 DEF Refresh
    <3> QED BY <1>1, <2>1, <2>3, <3>1 DEF Answer, AnswerMode, TypeOK, Requests, Modes
  <2>5. CASE cookie'[r.client] = next
    BY <2>2, <2>5 DEF Live
  <2>6. CASE cookie'[r.client] = cookie[r.client] /\ r.from = "body"
    <3>1. cookie[r.client] # r.token /\ cookie[r.client] \in TokenIds
      BY <1>1, <2>1, <2>6 DEF KeptApart, TypeOK, Live
    <3>2. rows'[cookie[r.client]] = rows[cookie[r.client]]
      BY <2>2, <2>3, <3>1
    <3> QED BY <1>1, <2>6, <3>2 DEF Live
  <2> QED BY <2>4, <2>5, <2>6
<1>2. Inv => [\A r \in asking, next \in TokenIds :
                /\ Refresh(r, next)
                /\ next \in {cookie'[r.client], held'[r.client]}
                /\ Live(cookie[r.client])
                => Live(cookie[r.client])']_vars
  BY <1>1
<1> QED BY <1>2, Invariance, PTL DEF CookieStaysLive
=============================================================================
