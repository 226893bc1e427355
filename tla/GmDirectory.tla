----------------------------- MODULE GmDirectory -----------------------------
(***************************************************************************)
(* What the signaling server promises, without its registry: each game     *)
(* session has at most one GM connection, a connection that lost the GM    *)
(* role or left never comes back, and a connection waiting for a session's *)
(* GM either believes the right thing or has been notified to look again.  *)
(***************************************************************************)
CONSTANTS Sockets, Sessions, NoSocket, NoSession

\* What an instance must satisfy for the theorems of GmDirectoryProofs.
NoneDistinct == NoSocket \notin Sockets /\ NoSession \notin Sessions

VARIABLES holder,    \* a session's GM connection
          retired,   \* connections that are over
          waits,     \* the session whose GM a connection waits for
          belief,    \* the GM connection it was told last
          notified   \* it has been told to look again since

vars == <<holder, retired, waits, belief, notified>>

TypeOK ==
    /\ holder \in [Sessions -> Sockets \cup {NoSocket}]
    /\ retired \subseteq Sockets
    /\ waits \in [Sockets -> Sessions \cup {NoSession}]
    /\ belief \in [Sockets -> Sockets \cup {NoSocket}]
    /\ notified \in [Sockets -> BOOLEAN]

Init ==
    /\ holder = [s \in Sessions |-> NoSocket]
    /\ retired = {}
    /\ waits = [k \in Sockets |-> NoSession]
    /\ belief = [k \in Sockets |-> NoSocket]
    /\ notified = [k \in Sockets |-> FALSE]

\* The connections of `gone` are over: nobody holds, waits or believes as them.
Retire(gone) ==
    /\ retired' = retired \cup gone
    /\ waits' = [k \in Sockets |-> IF k \in gone THEN NoSession ELSE waits[k]]
    /\ belief' = [k \in Sockets |-> IF k \in gone THEN NoSocket ELSE belief[k]]

Waiting(k, s) == waits[k] = s

\* k becomes the GM of s; a predecessor is retired and everybody who waits for
\* the session's GM is notified.
Take(k, s) ==
    LET gone == {holder[s]} \ {NoSocket} IN
    /\ k \notin retired
    /\ waits[k] = NoSession
    /\ \A t \in Sessions : holder[t] # k
    /\ holder' = [holder EXCEPT ![s] = k]
    /\ Retire(gone)
    /\ notified' = [j \in Sockets |-> j \notin gone /\ (notified[j] \/ Waiting(j, s))]

\* A connection ends; if it held a session, those who believed in it are told.
Leave(k) ==
    /\ holder' = [s \in Sessions |-> IF holder[s] = k THEN NoSocket ELSE holder[s]]
    /\ Retire({k})
    /\ notified' = [j \in Sockets |->
                      /\ j # k
                      /\ \/ notified[j]
                         \/ \E s \in Sessions :
                              holder[s] = k /\ Waiting(j, s) /\ belief[j] = k]

\* k asks who the GM of s is.
Look(k, s) ==
    /\ k \notin retired
    /\ waits[k] \in {NoSession, s}
    /\ \A t \in Sessions : holder[t] # k
    /\ waits' = [waits EXCEPT ![k] = s]
    /\ belief' = [belief EXCEPT ![k] = holder[s]]
    /\ notified' = [notified EXCEPT ![k] = FALSE]
    /\ UNCHANGED <<holder, retired>>

\* Every connection ends at once.
Restart ==
    /\ \E gone \in SUBSET Sockets :
          /\ \A k \in Sockets : waits[k] # NoSession => k \in gone
          /\ \A s \in Sessions : holder[s] # NoSocket => holder[s] \in gone
          /\ retired' = retired \cup gone
    /\ holder' = [s \in Sessions |-> NoSocket]
    /\ waits' = [k \in Sockets |-> NoSession]
    /\ belief' = [k \in Sockets |-> NoSocket]
    /\ notified' = [k \in Sockets |-> FALSE]

Next ==
    \/ \E k \in Sockets, s \in Sessions : Take(k, s) \/ Look(k, s)
    \/ \E k \in Sockets : Leave(k)
    \/ Restart

Spec == Init /\ [][Next]_vars

-----------------------------------------------------------------------------
\* A session's GM connection is one that is not over and holds nothing else.
HolderCurrent ==
    /\ \A s \in Sessions : holder[s] \notin retired
    /\ \A s, t \in Sessions : holder[s] = holder[t] /\ holder[s] # NoSocket => s = t

\* Who waits for a session's GM knows it or has been told to look again.
WaitersInformed ==
    \A k \in Sockets, s \in Sessions :
        waits[k] = s => notified[k] \/ belief[k] = holder[s]

=============================================================================
