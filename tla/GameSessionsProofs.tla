------------------------- MODULE GameSessionsProofs -------------------------
(***************************************************************************)
(* Game sessions: their rows refer to each other as they should, passwords *)
(* stay, and the join limiters count what they are meant to.               *)
(***************************************************************************)
EXTENDS GameSessions, FiniteSetTheorems, TLAPS

USE DEF database, counts

LEMMA StatusOf ==
    ASSUME NEW u, NEW s, NEW password
    PROVE  LetsIn(Status(u, s, password)) => Status(u, s, password) \in {200, 409}
BY DEF LetsIn

LEMMA AddType ==
    ASSUME NEW f \in [Keys -> Nat], NEW keys
    PROVE  Add(f, keys) \in [Keys -> Nat]
BY DEF Add

\* A game as addgame stores it.
LEMMA NewGameFits ==
    ASSUME NEW u \in Users, NEW r \in BOOLEAN, NEW password \in Given
    PROVE  /\ NewGame(u, r, password) \in Games
           /\ NewGame(u, r, password).owner = u
           /\ ~ NewGame(u, r, password).passwordRequired
                  => NewGame(u, r, password).password = NoPassword
BY DEF NewGame, Games, Given

\* A game as updategame stores it: what asks for a password does so still, and one
\* that is kept is replaced by a password only.
LEMMA UpdatedFits ==
    ASSUME NEW game \in Games, NEW password \in Given
    PROVE  /\ Updated(game, password) \in Games
           /\ Updated(game, password).owner = game.owner
           /\ game.passwordRequired => Updated(game, password).passwordRequired
           /\ game.password # NoPassword => Updated(game, password).password # NoPassword
           /\ (~ game.passwordRequired => game.password = NoPassword)
                  => (~ Updated(game, password).passwordRequired
                        => Updated(game, password).password = NoPassword)
<1>1. CASE password = NoPassword
  BY <1>1 DEF Updated
<1>2. CASE password # NoPassword
  <2> DEFINE new == [game EXCEPT !.passwordRequired = TRUE, !.password = password]
  <2>1. /\ new \in Games /\ new.owner = game.owner
        /\ new.passwordRequired = TRUE /\ new.password = password
    BY <1>2 DEF Games, Given
  <2>2. Updated(game, password) = new
    BY <1>2 DEF Updated
  <2> QED BY <1>2, <2>1, <2>2
<1> QED BY <1>1, <1>2

\* Every variable keeps its type; a limiter's counter never falls below zero
\* though responses of earlier windows take back from it.
THEOREM TypeCorrect == Spec => []TypeOK
<1>1. Init => TypeOK
  BY DEF Init, TypeOK
<1>2. TypeOK /\ [Next]_vars => TypeOK'
  <2> SUFFICES ASSUME TypeOK, [Next]_vars PROVE TypeOK'
    OBVIOUS
  <2> USE DEF TypeOK
  <2>1. ASSUME NEW u \in Users, NEW s \in Sessions, NEW password \in Given, NEW r \in BOOLEAN,
               CreateSession(u, s, r, password)
        PROVE  TypeOK'
    BY <2>1, NewGameFits DEF CreateSession
  <2>2. ASSUME NEW u \in Users, NEW s \in Sessions, NEW password \in Given,
               UpdateSession(u, s, password)
        PROVE  TypeOK'
    <3>1. games[s] \in Games
      BY <2>2 DEF UpdateSession, MayManage, Exists
    <3> QED BY <2>2, <3>1, UpdatedFits DEF UpdateSession
  <2>3. ASSUME NEW gone, RemoveGames(gone),
               UNCHANGED <<users, everGames, hits, unfinished, counts>>
        PROVE  TypeOK'
    BY <2>3 DEF RemoveGames
  <2>4. ASSUME NEW u \in Users, DeleteUser(u) PROVE TypeOK'
    BY <2>4 DEF DeleteUser
  <2>5. ASSUME NEW keys, Refuse(keys) PROVE TypeOK'
    BY <2>5, AddType DEF Refuse
  <2>6. ASSUME NEW u \in Users, NEW a \in Addresses, NEW s \in Sessions, NEW password \in Given,
               JoinFails(u, a, s, password)
        PROVE  TypeOK'
    BY <2>6, AddType DEF JoinFails
  <2>7. ASSUME NEW u \in Users, NEW a \in Addresses, NEW s \in Sessions, NEW password \in Given,
               NEW q \in Requests, Join(q, u, a, s, password)
        PROVE  TypeOK'
    <3>1. [status |-> Status(u, s, password), keys |-> {a, u}, early |-> {}] \in Responses
      BY <2>7, StatusOf DEF Join, Responses, Keys
    <3> QED BY <2>7, <3>1, AddType DEF Join
  <2>8. ASSUME NEW q \in Requests, Finish(q) PROVE TypeOK'
    <3>1. returned' \in [Keys -> Nat]
      BY <2>8, AddType DEF Finish
    <3>2. \A key \in TakenBack(q) : hits[key] > 0
      BY DEF TakenBack
    <3>3. hits' \in [Keys -> Nat]
      BY <2>8, <3>2 DEF Finish
    <3> QED BY <2>8, <3>1, <3>3 DEF Finish
  <2>9. ASSUME NEW key \in Keys, WindowEnds(key) PROVE TypeOK'
    <3>1. ASSUME NEW q \in Requests, unfinished[q] # NoRequest
          PROVE  [unfinished[q] EXCEPT !.early = @ \cup {key}] \in Responses
      BY <3>1 DEF Responses
    <3> QED BY <2>9, <3>1 DEF WindowEnds
  <2>10. CASE ServerRestart
    BY <2>10 DEF ServerRestart
  <2>11. CASE UNCHANGED vars
    BY <2>11 DEF vars
  <2> QED BY <2>1, <2>2, <2>3, <2>4, <2>5, <2>6, <2>7, <2>8, <2>9, <2>10, <2>11
          DEF Next, DeleteSession, ExpireSession, RefuseAddress, RefuseUser
<1> QED BY <1>1, <1>2, PTL DEF Spec

-----------------------------------------------------------------------------
(* The rows.                                                               *)

\* Games have their owner, memberships their game and their account, in every
\* order of deletions, updates and joins with access tokens of deleted accounts.
THEOREM RowsAreConsistent == Spec => []RowsConsistent
<1>1. Init => RowsConsistent
  BY DEF Init, RowsConsistent, Exists
<1>2. TypeOK /\ RowsConsistent /\ [Next]_vars => RowsConsistent'
  <2> SUFFICES ASSUME TypeOK, RowsConsistent, [Next]_vars PROVE RowsConsistent'
    OBVIOUS
  <2> USE DEF TypeOK, RowsConsistent, Exists
  <2>1. ASSUME NEW u \in Users, NEW s \in Sessions, NEW password \in Given, NEW r \in BOOLEAN,
               CreateSession(u, s, r, password)
        PROVE  RowsConsistent'
    <3>1. /\ games'[s].owner = u
          /\ ~ games'[s].passwordRequired => games'[s].password = NoPassword
          /\ games'[s] # NoGame
      BY <2>1, NewGameFits, GameSessionsAssumption DEF CreateSession
    <3>2. u \in users /\ users' = users /\ players' = players
      BY <2>1 DEF CreateSession, NewGame
    <3>3. \A t \in Sessions : t # s => games'[t] = games[t]
      BY <2>1 DEF CreateSession, NewGame
    <3> QED BY <3>1, <3>2, <3>3
  <2>2. ASSUME NEW u \in Users, NEW s \in Sessions, NEW password \in Given,
               UpdateSession(u, s, password)
        PROVE  RowsConsistent'
    <3>1. games[s] \in Games
      BY <2>2 DEF UpdateSession, MayManage
    <3>2. /\ games'[s] # NoGame
          /\ games'[s].owner = games[s].owner
          /\ ~ games'[s].passwordRequired => games'[s].password = NoPassword
      BY <2>2, <3>1, UpdatedFits, GameSessionsAssumption DEF UpdateSession, MayManage
    <3>3. \A t \in Sessions : t # s => games'[t] = games[t]
      BY <2>2 DEF UpdateSession, Updated
    <3>4. users' = users /\ players' = players /\ games[s] # NoGame
      BY <2>2 DEF UpdateSession, Updated, MayManage
    <3> QED BY <3>2, <3>3, <3>4
  <2>3. ASSUME NEW gone, RemoveGames(gone), UNCHANGED users
        PROVE  RowsConsistent'
    BY <2>3 DEF RemoveGames
  <2>4. ASSUME NEW u \in Users, DeleteUser(u) PROVE RowsConsistent'
    BY <2>4 DEF DeleteUser, GamesOf
  <2>5. ASSUME UNCHANGED database PROVE RowsConsistent'
    BY <2>5
  <2>6. ASSUME NEW u \in Users, NEW a \in Addresses, NEW s \in Sessions, NEW password \in Given,
               NEW q \in Requests, Join(q, u, a, s, password)
        PROVE  RowsConsistent'
    <3>1. CASE IsOwner(u, s)
      BY <2>6, <3>1 DEF Join
    <3>2. CASE ~ IsOwner(u, s)
      <4>1. Exists(s) /\ (u \in users \/ u \in players[s])
        BY <2>6, <3>2 DEF Join, LetsIn, Status
      <4> QED BY <2>6, <3>2, <4>1 DEF Join
    <3> QED BY <3>1, <3>2
  <2> QED BY <2>1, <2>2, <2>3, <2>4, <2>5, <2>6
          DEF Next, DeleteSession, ExpireSession, RefuseAddress, RefuseUser, Refuse, JoinFails,
              Finish, WindowEnds, ServerRestart, vars
<1> QED BY <1>1, <1>2, TypeCorrect, PTL DEF Spec

\* What can happen to the games in a step.
LEMMA GameSteps ==
    ASSUME [Next]_vars
    PROVE  \/ \E u \in Users, s \in Sessions, password \in Given, r \in BOOLEAN :
                 CreateSession(u, s, r, password)
           \/ \E u \in Users, s \in Sessions, password \in Given : UpdateSession(u, s, password)
           \/ UNCHANGED everGames /\ \E gone : RemoveGames(gone)
           \/ \E u \in Users : DeleteUser(u)
           \/ UNCHANGED <<games, everGames>>
<1>1. ASSUME NEW u \in Users, NEW s \in Sessions, DeleteSession(u, s)
      PROVE  UNCHANGED everGames /\ RemoveGames({s})
  BY <1>1 DEF DeleteSession
<1>2. ASSUME NEW s \in Sessions, ExpireSession(s)
      PROVE  UNCHANGED everGames /\ RemoveGames({s})
  BY <1>2 DEF ExpireSession
<1>3. ASSUME NEW u \in Users, NEW a \in Addresses, NEW s \in Sessions, NEW password \in Given,
             JoinFails(u, a, s, password) \/ \E q \in Requests : Join(q, u, a, s, password)
      PROVE  UNCHANGED <<games, everGames>>
  BY <1>3 DEF JoinFails, Join
<1>4. ASSUME NEW u \in Users, NEW a \in Addresses, RefuseAddress(u, a) \/ RefuseUser(u, a)
      PROVE  UNCHANGED <<games, everGames>>
  BY <1>4 DEF RefuseAddress, RefuseUser, Refuse
<1>5. ASSUME \/ \E q \in Requests : Finish(q)
             \/ \E key \in Keys : WindowEnds(key)
             \/ ServerRestart
             \/ UNCHANGED vars
      PROVE  UNCHANGED <<games, everGames>>
  BY <1>5 DEF Finish, WindowEnds, ServerRestart, vars
<1> QED BY <1>1, <1>2, <1>3, <1>4, <1>5 DEF Next

\* Ids are not given out twice.
IdsUsed == \A s \in Sessions : Exists(s) => s \in everGames

LEMMA IdsAreUsed == Spec => []IdsUsed
<1>1. Init => IdsUsed
  BY DEF Init, IdsUsed, Exists
<1>2. TypeOK /\ IdsUsed /\ [Next]_vars => IdsUsed'
  <2> SUFFICES ASSUME TypeOK, IdsUsed, [Next]_vars PROVE IdsUsed'
    OBVIOUS
  <2> USE DEF TypeOK, IdsUsed, Exists
  <2>1. ASSUME NEW u \in Users, NEW s \in Sessions, NEW password \in Given, NEW r \in BOOLEAN,
               CreateSession(u, s, r, password)
        PROVE  IdsUsed'
    BY <2>1 DEF CreateSession, NewGame
  <2>2. ASSUME NEW u \in Users, NEW s \in Sessions, NEW password \in Given,
               UpdateSession(u, s, password)
        PROVE  IdsUsed'
    BY <2>2 DEF UpdateSession, Updated, MayManage
  <2>3. ASSUME NEW gone, RemoveGames(gone), UNCHANGED everGames
        PROVE  IdsUsed'
    BY <2>3 DEF RemoveGames
  <2>4. ASSUME NEW u \in Users, DeleteUser(u) PROVE IdsUsed'
    BY <2>4 DEF DeleteUser
  <2>5. ASSUME UNCHANGED <<games, everGames>> PROVE IdsUsed'
    BY <2>5
  <2> QED BY <2>1, <2>2, <2>3, <2>4, <2>5, GameSteps
<1> QED BY <1>1, <1>2, TypeCorrect, PTL DEF Spec

\* A game that asks for a password never stops asking and never loses the one it
\* has, whatever its backend re-sends.
THEOREM PasswordsAreKept == Spec => PasswordsKept
<1> DEFINE Kept == \A s \in Sessions :
                     Exists(s) /\ games[s].passwordRequired /\ games'[s] # NoGame
                        => /\ games'[s].passwordRequired
                           /\ games[s].password # NoPassword => games'[s].password # NoPassword
<1>1. TypeOK /\ IdsUsed /\ [Next]_vars => [Kept]_vars
  <2> SUFFICES ASSUME TypeOK, IdsUsed, Next, NEW t \in Sessions,
                      Exists(t), games[t].passwordRequired, games'[t] # NoGame
               PROVE  \/ games'[t] = games[t]
                      \/ games'[t].passwordRequired /\ games'[t].password # NoPassword
    OBVIOUS
  <2>1. games \in [Sessions -> Games \cup {NoGame}] /\ games[t] \in Games /\ t \in everGames
    BY DEF TypeOK, IdsUsed, Exists
  <2>2. ASSUME NEW u \in Users, NEW s \in Sessions, NEW password \in Given, NEW r \in BOOLEAN,
               CreateSession(u, s, r, password)
        PROVE  games'[t] = games[t]
    BY <2>1, <2>2 DEF CreateSession, NewGame
  <2>3. ASSUME NEW u \in Users, NEW s \in Sessions, NEW password \in Given,
               UpdateSession(u, s, password)
        PROVE  \/ games'[t] = games[t]
               \/ games'[t].passwordRequired /\ games'[t].password # NoPassword
    <3>1. CASE t # s
      BY <2>1, <2>3, <3>1 DEF UpdateSession, Updated
    <3>2. CASE t = s
      BY <2>1, <2>3, <3>2 DEF UpdateSession, Updated, Games
    <3> QED BY <3>1, <3>2
  <2>4. ASSUME NEW gone, RemoveGames(gone) PROVE games'[t] = games[t]
    BY <2>4 DEF RemoveGames
  <2>5. ASSUME NEW u \in Users, DeleteUser(u) PROVE games'[t] = games[t]
    BY <2>5 DEF DeleteUser
  <2> QED BY <2>2, <2>3, <2>4, <2>5, GameSteps
<1> QED BY <1>1, TypeCorrect, IdsAreUsed, PTL DEF Spec, PasswordsKept

-----------------------------------------------------------------------------
(* The counters.                                                           *)

\* A counter holds what failed and what is under way, but for what joins of earlier
\* windows took back; every wrong password failed.
CountInv ==
    \A key \in Keys :
        /\ hits[key] <= failed[key] + Cardinality(Underway(key))
        /\ failed[key] + Cardinality(Underway(key)) <= hits[key] + returned[key]
        /\ wrong[key] <= failed[key]

LEMMA UnderwayFinite ==
    ASSUME NEW key
    PROVE  IsFiniteSet(Underway(key)) /\ Cardinality(Underway(key)) \in Nat
<1>1. Underway(key) \subseteq Requests /\ IsFiniteSet(Requests)
  BY GameSessionsAssumption DEF Underway
<1> QED BY <1>1, FS_Subset, FS_CardinalityType

\* Handing over a response takes one request from what is under way.
LEMMA FinishUnderway ==
    ASSUME NEW q \in Requests, Finish(q), TypeOK, NEW key \in Keys
    PROVE  Cardinality(Underway(key))' =
              IF q \in Underway(key) THEN Cardinality(Underway(key)) - 1
                                     ELSE Cardinality(Underway(key))
<1>1. Underway(key)' = Underway(key) \ {q}
  BY DEF Finish, Underway, TypeOK
<1>2. CASE q \in Underway(key)
  BY <1>1, <1>2, UnderwayFinite, FS_RemoveElement
<1>3. CASE q \notin Underway(key)
  <2>1. Underway(key) \ {q} = Underway(key)
    BY <1>3
  <2> QED BY <1>1, <1>3, <2>1
<1> QED BY <1>2, <1>3

\* A join adds its request to what is under way for the user and the address.
LEMMA JoinUnderway ==
    ASSUME NEW u \in Users, NEW a \in Addresses, NEW s \in Sessions, NEW password \in Given,
           NEW q \in Requests, Join(q, u, a, s, password), TypeOK, NEW key \in Keys
    PROVE  Cardinality(Underway(key))' =
              IF key \in {a, u} THEN Cardinality(Underway(key)) + 1
                                ELSE Cardinality(Underway(key))
<1>1. [status |-> Status(u, s, password), keys |-> {a, u}, early |-> {}] \in Responses
  BY StatusOf DEF Join, Responses, Keys
<1>2. [status |-> Status(u, s, password), keys |-> {a, u}, early |-> {}] # NoRequest
  BY <1>1, GameSessionsAssumption
<1>3. q \notin Underway(key)
  BY DEF Join, Underway
<1>4. CASE key \in {a, u}
  <2>1. Underway(key)' = Underway(key) \cup {q}
    BY <1>2, <1>4 DEF Join, Underway, TypeOK
  <2> QED BY <1>3, <1>4, <2>1, UnderwayFinite, FS_AddElement
<1>5. CASE key \notin {a, u}
  <2>1. Underway(key)' = Underway(key)
    BY <1>3, <1>5 DEF Join, Underway, TypeOK
  <2> QED BY <1>5, <2>1
<1> QED BY <1>4, <1>5

LEMMA CountsKept ==
    ASSUME TypeOK, CountInv, [Next]_vars
    PROVE  CountInv'
<1> USE DEF TypeOK
<1>1. ASSUME UNCHANGED <<hits, unfinished, counts>> PROVE CountInv'
  BY <1>1 DEF CountInv, Underway
<1>2. ASSUME NEW keys, Refuse(keys) PROVE CountInv'
  <2> SUFFICES ASSUME NEW key \in Keys
               PROVE  /\ hits'[key] <= failed'[key] + Cardinality(Underway(key))'
                      /\ failed'[key] + Cardinality(Underway(key))' <= hits'[key] + returned'[key]
                      /\ wrong'[key] <= failed'[key]
    BY DEF CountInv
  <2>1. Underway(key)' = Underway(key)
    BY <1>2 DEF Refuse, Underway
  <2> QED BY <1>2, <2>1, UnderwayFinite DEF Refuse, CountInv, Add
<1>3. ASSUME NEW u \in Users, NEW a \in Addresses, NEW s \in Sessions, NEW password \in Given,
             JoinFails(u, a, s, password)
      PROVE  CountInv'
  <2> SUFFICES ASSUME NEW key \in Keys
               PROVE  /\ hits'[key] <= failed'[key] + Cardinality(Underway(key))'
                      /\ failed'[key] + Cardinality(Underway(key))' <= hits'[key] + returned'[key]
                      /\ wrong'[key] <= failed'[key]
    BY DEF CountInv
  <2>1. Underway(key)' = Underway(key)
    BY <1>3 DEF JoinFails, Underway
  <2> QED BY <1>3, <2>1, UnderwayFinite DEF JoinFails, CountInv, Add
<1>4. ASSUME NEW u \in Users, NEW a \in Addresses, NEW s \in Sessions, NEW password \in Given,
             NEW q \in Requests, Join(q, u, a, s, password)
      PROVE  CountInv'
  <2> SUFFICES ASSUME NEW key \in Keys
               PROVE  /\ hits'[key] <= failed'[key] + Cardinality(Underway(key))'
                      /\ failed'[key] + Cardinality(Underway(key))' <= hits'[key] + returned'[key]
                      /\ wrong'[key] <= failed'[key]
    BY DEF CountInv
  <2>1. UNCHANGED counts /\ hits'[key] = IF key \in {a, u} THEN hits[key] + 1 ELSE hits[key]
    BY <1>4 DEF Join, Add
  <2> QED BY <1>4, <2>1, JoinUnderway, UnderwayFinite DEF CountInv
<1>5. ASSUME NEW q \in Requests, Finish(q) PROVE CountInv'
  <2> SUFFICES ASSUME NEW key \in Keys
               PROVE  /\ hits'[key] <= failed'[key] + Cardinality(Underway(key))'
                      /\ failed'[key] + Cardinality(Underway(key))' <= hits'[key] + returned'[key]
                      /\ wrong'[key] <= failed'[key]
    BY DEF CountInv
  <2>1. key \in TakenBack(q) <=> key \in unfinished[q].keys /\ hits[key] > 0
    BY <1>5 DEF Finish, TakenBack, RequestWasSuccessful, Responses
  <2>2. /\ hits'[key] = IF key \in TakenBack(q) THEN hits[key] - 1 ELSE hits[key]
        /\ returned'[key] = IF key \in TakenBack(q) /\ key \in unfinished[q].early
                            THEN returned[key] + 1 ELSE returned[key]
        /\ failed' = failed /\ wrong' = wrong
    BY <1>5 DEF Finish, Add
  <2>3. q \in Underway(key) <=> key \in unfinished[q].keys /\ key \notin unfinished[q].early
    BY <1>5 DEF Finish, Underway
  <2>4. Cardinality(Underway(key))' =
              IF q \in Underway(key) THEN Cardinality(Underway(key)) - 1
                                     ELSE Cardinality(Underway(key))
    BY <1>5, FinishUnderway
  <2>5. hits[key] \in Nat /\ failed[key] \in Nat /\ returned[key] \in Nat /\ wrong[key] \in Nat
    OBVIOUS
  <2>6. q \in Underway(key) => Cardinality(Underway(key)) >= 1
    BY UnderwayFinite, FS_EmptySet
  <2> QED BY <2>1, <2>2, <2>3, <2>4, <2>5, <2>6, UnderwayFinite DEF CountInv
<1>6. ASSUME NEW ended \in Keys, WindowEnds(ended) PROVE CountInv'
  <2> SUFFICES ASSUME NEW key \in Keys
               PROVE  /\ hits'[key] <= failed'[key] + Cardinality(Underway(key))'
                      /\ failed'[key] + Cardinality(Underway(key))' <= hits'[key] + returned'[key]
                      /\ wrong'[key] <= failed'[key]
    BY DEF CountInv
  <2>0. ASSUME NEW r \in Requests, unfinished[r] # NoRequest
        PROVE  [unfinished[r] EXCEPT !.early = @ \cup {ended}] \in Responses
    BY <2>0 DEF Responses
  <2>1. \A r \in Requests :
           /\ unfinished'[r] # NoRequest <=> unfinished[r] # NoRequest
           /\ unfinished[r] # NoRequest =>
                 /\ unfinished'[r].keys = unfinished[r].keys
                 /\ unfinished'[r].early = IF ended \in unfinished[r].keys
                                           THEN unfinished[r].early \cup {ended}
                                           ELSE unfinished[r].early
    <3> SUFFICES ASSUME NEW r \in Requests
                 PROVE  /\ unfinished'[r] # NoRequest <=> unfinished[r] # NoRequest
                        /\ unfinished[r] # NoRequest =>
                              /\ unfinished'[r].keys = unfinished[r].keys
                              /\ unfinished'[r].early = IF ended \in unfinished[r].keys
                                                        THEN unfinished[r].early \cup {ended}
                                                        ELSE unfinished[r].early
      OBVIOUS
    <3>1. CASE unfinished[r] # NoRequest /\ ended \in unfinished[r].keys
      <4>1. unfinished'[r] = [unfinished[r] EXCEPT !.early = @ \cup {ended}]
        BY <1>6, <3>1 DEF WindowEnds
      <4>2. unfinished'[r] # NoRequest
        BY <4>1, <3>1, <2>0, GameSessionsAssumption
      <4>3. unfinished[r] \in Responses
        BY <3>1
      <4> QED BY <3>1, <4>1, <4>2, <4>3 DEF Responses
    <3>2. CASE ~ (unfinished[r] # NoRequest /\ ended \in unfinished[r].keys)
      <4>1. unfinished'[r] = unfinished[r]
        BY <1>6, <3>2 DEF WindowEnds
      <4> QED BY <3>2, <4>1
    <3> QED BY <3>1, <3>2
  <2>2. CASE key = ended
    <3>1. Underway(key)' = {}
      BY <2>1, <2>2 DEF Underway
    <3>2. Cardinality(Underway(key))' = 0
      BY <3>1, FS_EmptySet
    <3> QED BY <1>6, <2>2, <3>2 DEF WindowEnds
  <2>3. CASE key # ended
    <3>1. Underway(key)' = Underway(key)
      BY <2>1, <2>3 DEF Underway
    <3> QED BY <1>6, <2>3, <3>1 DEF WindowEnds, CountInv
  <2> QED BY <2>2, <2>3
<1>7. CASE ServerRestart
  <2>1. \A key : Underway(key)' = {}
    BY <1>7 DEF ServerRestart, Underway
  <2>2. \A key : Cardinality(Underway(key))' = 0
    BY <2>1, FS_EmptySet
  <2> QED BY <1>7, <2>2 DEF ServerRestart, CountInv
<1> QED BY <1>1, <1>2, <1>3, <1>4, <1>5, <1>6, <1>7
        DEF Next, CreateSession, UpdateSession, DeleteSession, ExpireSession, DeleteUser,
            RefuseAddress, RefuseUser, vars

LEMMA CountsHold == Spec => []CountInv
<1>1. Init => CountInv
  <2> SUFFICES ASSUME Init PROVE CountInv
    OBVIOUS
  <2>1. \A key : Underway(key) = {}
    BY DEF Init, Underway
  <2> QED BY <2>1, FS_EmptySet DEF Init, CountInv
<1>2. TypeOK /\ CountInv /\ [Next]_vars => CountInv'
  BY CountsKept
<1> QED BY <1>1, <1>2, TypeCorrect, PTL DEF Spec

\* No user and no address gets more wrong passwords compared in a window than its
\* limit, but for what joins of earlier windows took back.
THEOREM GuessesAreLimited == Spec => []GuessesLimited
<1>1. Init => GuessesLimited
  BY GameSessionsAssumption DEF Init, GuessesLimited, Limit
<1>2. TypeOK /\ CountInv /\ GuessesLimited /\ [Next]_vars => GuessesLimited'
  <2> SUFFICES ASSUME TypeOK, CountInv, GuessesLimited, [Next]_vars, NEW key \in Keys
               PROVE  wrong'[key] <= Limit(key) + returned'[key]
    BY DEF GuessesLimited
  <2>0. /\ hits[key] \in Nat /\ failed[key] \in Nat /\ wrong[key] \in Nat /\ returned[key] \in Nat
        /\ Limit(key) \in Nat
        /\ wrong[key] <= Limit(key) + returned[key]
    BY GameSessionsAssumption DEF TypeOK, Limit, GuessesLimited
  <2>1. ASSUME wrong'[key] = wrong[key], returned'[key] >= returned[key], returned'[key] \in Nat
        PROVE  wrong'[key] <= Limit(key) + returned'[key]
    BY <2>0, <2>1
  <2>2. ASSUME UNCHANGED <<wrong, returned>>
        PROVE  wrong'[key] <= Limit(key) + returned'[key]
    BY <2>0, <2>2
  <2>3. ASSUME NEW u \in Users, NEW a \in Addresses, NEW s \in Sessions, NEW password \in Given,
               JoinFails(u, a, s, password)
        PROVE  wrong'[key] <= Limit(key) + returned'[key]
    <3>1. CASE WrongPassword(u, s, password) /\ key \in {a, u}
      <4>1. hits[key] + 1 <= Limit(key)
        BY <2>3, <3>1 DEF JoinFails, Passes
      <4>2. wrong[key] <= hits[key] + returned[key]
        <5>1. /\ wrong[key] <= failed[key]
              /\ failed[key] + Cardinality(Underway(key)) <= hits[key] + returned[key]
          BY DEF CountInv
        <5> QED BY <2>0, <5>1, UnderwayFinite
      <4>3. wrong'[key] = wrong[key] + 1 /\ returned'[key] = returned[key]
        BY <2>3, <3>1 DEF JoinFails, Add, TypeOK
      <4> QED BY <2>0, <4>1, <4>2, <4>3
    <3>2. CASE ~ (WrongPassword(u, s, password) /\ key \in {a, u})
      <4>1. wrong'[key] = wrong[key] /\ returned'[key] = returned[key]
        BY <2>3, <3>2 DEF JoinFails, Add, TypeOK
      <4> QED BY <2>0, <4>1
    <3> QED BY <3>1, <3>2
  <2>4. ASSUME NEW q \in Requests, Finish(q)
        PROVE  wrong'[key] <= Limit(key) + returned'[key]
    <3>1. wrong'[key] = wrong[key] /\ returned'[key] \in {returned[key], returned[key] + 1}
      BY <2>4 DEF Finish, Add
    <3> QED BY <2>0, <2>1, <3>1
  <2>5. ASSUME NEW ended \in Keys, WindowEnds(ended)
        PROVE  wrong'[key] <= Limit(key) + returned'[key]
    BY <2>0, <2>5 DEF WindowEnds, TypeOK
  <2>6. CASE ServerRestart
    BY <2>0, <2>6 DEF ServerRestart
  <2>7. ASSUME NEW u \in Users, NEW s \in Sessions, NEW password \in Given,
               \/ \E required \in BOOLEAN : CreateSession(u, s, required, password)
               \/ UpdateSession(u, s, password)
               \/ \E a \in Addresses, q \in Requests : Join(q, u, a, s, password)
        PROVE  UNCHANGED <<wrong, returned>>
    BY <2>7 DEF CreateSession, UpdateSession, Join
  <2>8. ASSUME NEW s \in Sessions, ExpireSession(s) PROVE UNCHANGED <<wrong, returned>>
    BY <2>8 DEF ExpireSession
  <2>9. ASSUME NEW u \in Users, DeleteUser(u) PROVE UNCHANGED <<wrong, returned>>
    BY <2>9 DEF DeleteUser
  <2>10. ASSUME NEW u \in Users, NEW s \in Sessions, DeleteSession(u, s)
         PROVE  UNCHANGED <<wrong, returned>>
    BY <2>10 DEF DeleteSession
  <2>11. ASSUME NEW u \in Users, NEW a \in Addresses, RefuseAddress(u, a) \/ RefuseUser(u, a)
         PROVE  UNCHANGED <<wrong, returned>>
    BY <2>11 DEF RefuseAddress, RefuseUser, Refuse
  <2>12. CASE UNCHANGED vars
    BY <2>12, <2>2 DEF vars
  <2> QED BY <2>2, <2>3, <2>4, <2>5, <2>6, <2>7, <2>8, <2>9, <2>10, <2>11, <2>12 DEF Next
<1> QED BY <1>1, <1>2, TypeCorrect, CountsHold, PTL DEF Spec

\* A try is refused only when failed ones, and joins not handed over yet, have used
\* up the limit: those that succeeded never add up to a refusal.
THEOREM RefusalsAreEarned == Spec => RefusalsEarned
<1> DEFINE Deserved == \A u \in Users, a \in Addresses :
                         (RefuseAddress(u, a) => Earned(a)) /\ (RefuseUser(u, a) => Earned(u))
<1>1. TypeOK /\ CountInv => Deserved
  <2>1. ASSUME TypeOK, CountInv, NEW key \in Keys, ~ Passes(key)
        PROVE  Earned(key)
    <3>1. hits[key] <= failed[key] + Cardinality(Underway(key))
      BY <2>1 DEF CountInv
    <3>2. hits[key] \in Nat /\ failed[key] \in Nat /\ Limit(key) \in Nat
      BY <2>1, GameSessionsAssumption DEF TypeOK, Limit
    <3> QED BY <2>1, <3>1, <3>2, UnderwayFinite DEF Passes, Earned
  <2> QED BY <2>1 DEF RefuseAddress, RefuseUser, Keys
<1> QED BY <1>1, TypeCorrect, CountsHold, PTL DEF RefusalsEarned
=============================================================================
