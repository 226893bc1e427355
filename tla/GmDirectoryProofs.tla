-------------------------- MODULE GmDirectoryProofs --------------------------
(***************************************************************************)
(* The directory promises what it should: its sessions are held by one     *)
(* connection that is not over, and no waiting connection is misinformed.  *)
(***************************************************************************)
EXTENDS GmDirectory, TLAPS

\* The directory's variables keep their types.
THEOREM TypeCorrect == Spec => []TypeOK
<1>1. Init => TypeOK
  BY DEF Init, TypeOK
<1>2. TypeOK /\ [Next]_vars => TypeOK'
  <2> SUFFICES ASSUME TypeOK, [Next]_vars PROVE TypeOK'
    OBVIOUS
  <2>1. ASSUME NEW k \in Sockets, NEW s \in Sessions, Take(k, s) PROVE TypeOK'
    BY <2>1 DEF TypeOK, Take, Retire, Waiting
  <2>2. ASSUME NEW k \in Sockets, NEW s \in Sessions, Look(k, s) PROVE TypeOK'
    BY <2>2 DEF TypeOK, Look
  <2>3. ASSUME NEW k \in Sockets, Leave(k) PROVE TypeOK'
    BY <2>3 DEF TypeOK, Leave, Retire, Waiting
  <2>4. ASSUME Restart PROVE TypeOK'
    BY <2>4 DEF TypeOK, Restart
  <2>5. ASSUME UNCHANGED vars PROVE TypeOK'
    BY <2>5 DEF TypeOK, vars
  <2> QED BY <2>1, <2>2, <2>3, <2>4, <2>5 DEF Next
<1> QED BY <1>1, <1>2, PTL DEF Spec

\* No session is held by a connection that is over or that holds another one:
\* a replaced GM is retired together with its entry.
THEOREM HoldersAreCurrent ==
    ASSUME NoneDistinct PROVE Spec => []HolderCurrent
<1>1. Init => HolderCurrent
  BY DEF NoneDistinct, Init, HolderCurrent
<1>2. TypeOK /\ HolderCurrent /\ [Next]_vars => HolderCurrent'
  <2> SUFFICES ASSUME TypeOK, HolderCurrent, [Next]_vars PROVE HolderCurrent'
    OBVIOUS
  <2>1. ASSUME NEW k \in Sockets, NEW s \in Sessions, Take(k, s) PROVE HolderCurrent'
    BY <2>1 DEF NoneDistinct, TypeOK, HolderCurrent, Take, Retire
  <2>2. ASSUME NEW k \in Sockets, NEW s \in Sessions, Look(k, s) PROVE HolderCurrent'
    BY <2>2 DEF TypeOK, HolderCurrent, Look
  <2>3. ASSUME NEW k \in Sockets, Leave(k) PROVE HolderCurrent'
    BY <2>3 DEF NoneDistinct, TypeOK, HolderCurrent, Leave, Retire
  <2>4. ASSUME Restart PROVE HolderCurrent'
    BY <2>4 DEF NoneDistinct, TypeOK, HolderCurrent, Restart
  <2>5. ASSUME UNCHANGED vars PROVE HolderCurrent'
    BY <2>5 DEF HolderCurrent, vars
  <2> QED BY <2>1, <2>2, <2>3, <2>4, <2>5 DEF Next
<1> QED BY <1>1, <1>2, TypeCorrect, PTL DEF Spec

\* Whoever waits for a session's GM was told the right one or has been told to
\* look again, through takeovers, departures and restarts.
THEOREM WaitersAreInformed ==
    ASSUME NoneDistinct PROVE Spec => []WaitersInformed
<1>1. Init => WaitersInformed
  BY DEF NoneDistinct, Init, WaitersInformed
<1>2. TypeOK /\ WaitersInformed /\ [Next]_vars => WaitersInformed'
  <2> SUFFICES ASSUME TypeOK, WaitersInformed, [Next]_vars,
                      NEW j \in Sockets, NEW t \in Sessions, waits'[j] = t
               PROVE  notified'[j] \/ belief'[j] = holder'[t]
    BY DEF WaitersInformed
  <2>0. t # NoSession
    BY DEF NoneDistinct
  <2>1. ASSUME NEW k \in Sockets, NEW s \in Sessions, Take(k, s)
        PROVE  notified'[j] \/ belief'[j] = holder'[t]
    BY <2>0, <2>1 DEF TypeOK, WaitersInformed, Take, Retire, Waiting
  <2>2. ASSUME NEW k \in Sockets, NEW s \in Sessions, Look(k, s)
        PROVE  notified'[j] \/ belief'[j] = holder'[t]
    BY <2>2 DEF TypeOK, WaitersInformed, Look
  <2>3. ASSUME NEW k \in Sockets, Leave(k)
        PROVE  notified'[j] \/ belief'[j] = holder'[t]
    BY <2>0, <2>3 DEF TypeOK, WaitersInformed, Leave, Retire, Waiting
  <2>4. ASSUME Restart PROVE notified'[j] \/ belief'[j] = holder'[t]
    BY <2>0, <2>4 DEF TypeOK, Restart
  <2>5. ASSUME UNCHANGED vars PROVE notified'[j] \/ belief'[j] = holder'[t]
    BY <2>5 DEF WaitersInformed, vars
  <2> QED BY <2>1, <2>2, <2>3, <2>4, <2>5 DEF Next
<1> QED BY <1>1, <1>2, TypeCorrect, PTL DEF Spec
=============================================================================
