---------------------------- MODULE AccountsProofs ----------------------------
(***************************************************************************)
(* Proofs about Accounts, for any accounts, keys and limits, and about     *)
(* AdminPage, for any calls under way at once.                             *)
(*                                                                         *)
(* UsedAsShown and InviteHasCreator are inductive with the types.  That a  *)
(* limit is kept is not: it needs the stored count to be the number of     *)
(* accounts registered and counted, and no one to have registered with a   *)
(* key before there was one.                                               *)
(*                                                                         *)
(* The admin page's properties say what holds once nothing is under way.   *)
(* Their invariant says of the call that is to bring it about that it is   *)
(* there (Promises).                                                       *)
(***************************************************************************)
EXTENDS AdminPage, FiniteSetTheorems, TLAPS

Counted(k) == registered[k] \ uncounted[k]

\* What a key's row has to do with the accounts that used it.
KeyInv(k) ==
    /\ registered[k] \subseteq everUsers
    /\ uncounted[k] \subseteq everUsers
    /\ Exists(k) => k \in everKeys /\ invites[k].uses <= Cardinality(Counted(k))
    /\ InvitationRequired /\ k \notin everKeys => registered[k] = {}
    /\ InvitationRequired /\ Exists(k) => invites[k].uses = Cardinality(Counted(k))
    /\ InvitationRequired /\ Exists(k) /\ invites[k].max # Unlimited
           => invites[k].uses <= invites[k].max

Inv == /\ TypeOK
       /\ \A k \in Keys : KeyInv(k)

-----------------------------------------------------------------------------
\* A finite set of accounts grows by one when a new one joins it, and is no
\* larger than all accounts.
LEMMA CountedAccounts ==
    ASSUME NEW S \in SUBSET Accounts, NEW u \in Accounts \ S
    PROVE /\ Cardinality(S) \in Nat
          /\ Cardinality(S \cup {u}) = Cardinality(S) + 1
          /\ Cardinality(S) + 1 <= Cardinality(Accounts)
          /\ Cardinality(Accounts) \in Nat
<1>1. IsFiniteSet(S) /\ IsFiniteSet(Accounts) /\ IsFiniteSet(S \cup {u})
  BY FS_Subset, FS_AddElement, AccountsAssumption
<1>2. Cardinality(S \cup {u}) = Cardinality(S) + 1
  BY <1>1, FS_AddElement
<1>3. Cardinality(S \cup {u}) <= Cardinality(Accounts)
  BY <1>1, FS_Subset, S \cup {u} \subseteq Accounts
<1> QED BY <1>1, <1>2, <1>3, FS_CardinalityType

\* A row that was counted is a row, with the same owner, limit and age.
LEMMA ConsumedType ==
    ASSUME NEW invite \in Invites, invite.uses + 1 <= Cardinality(Accounts),
           Cardinality(Accounts) \in Nat
    PROVE /\ Consumed(invite) \in Invites
          /\ Consumed(invite).uses = invite.uses + 1
          /\ Consumed(invite).max = invite.max
          /\ Consumed(invite).by = invite.by
          /\ Consumed(invite).used
                = (invite.used \/ (invite.max # Unlimited /\ invite.uses + 1 >= invite.max))
<1>1. invite.uses + 1 \in 0 .. Cardinality(Accounts) /\ invite.used \in BOOLEAN
  BY DEF Invites
<1> DEFINE flag == invite.used \/ (invite.max # Unlimited /\ invite.uses + 1 >= invite.max)
           count == invite.uses + 1
<1>2. Consumed(invite) = [invite EXCEPT !.uses = count, !.used = flag]
  BY Zenon DEF Consumed
<1>3. flag \in BOOLEAN
  BY Zenon
<1>4. count \in 0 .. Cardinality(Accounts)
  BY <1>1
<1> HIDE DEF flag, count
<1>5. /\ Consumed(invite) \in Invites /\ Consumed(invite).uses = count
      /\ Consumed(invite).used = flag /\ Consumed(invite).max = invite.max
      /\ Consumed(invite).by = invite.by
  BY ONLY <1>2, <1>3, <1>4, invite \in Invites DEF Invites
<1> QED BY <1>5, Zenon DEF flag, count

LEMMA InitInv == Init => Inv
<1> SUFFICES ASSUME Init PROVE Inv
  OBVIOUS
<1>1. TypeOK
  BY AccountsAssumption DEF Init, TypeOK
<1>2. \A k \in Keys : KeyInv(k)
  BY AccountsAssumption DEF Init, KeyInv, Exists
<1> QED BY <1>1, <1>2 DEF Inv

-----------------------------------------------------------------------------
\* What KeyInv(k) survives: a step that registers no one with k and leaves k's
\* row as it is, but for its age, or takes it away.
LEMMA KeyFrame ==
    ASSUME NEW k \in Keys, KeyInv(k),
           everUsers \subseteq everUsers', everKeys' = everKeys,
           registered'[k] = registered[k], uncounted'[k] = uncounted[k],
           \/ ~ Exists(k)'
           \/ /\ Exists(k) /\ invites'[k].uses = invites[k].uses
              /\ invites'[k].max = invites[k].max
    PROVE KeyInv(k)'
BY DEF KeyInv, Counted, Exists

\* Steps that touch neither invites nor what was registered.
LEMMA ClaimSteps ==
    ASSUME Inv, \/ \E u \in Accounts : LogIn(u)
                \/ \E claim \in claims : ExpireClaim(claim)
                \/ \E a, u \in Accounts, isAdmin \in BOOLEAN :
                      CreateUser(a, u, isAdmin) \/ ToggleAdmin(a, u, isAdmin)
                \/ UNCHANGED vars
    PROVE Inv'
<1>1. TypeOK /\ UNCHANGED <<invites, everKeys, registered, uncounted>>
      /\ everUsers \subseteq everUsers'
  BY DEF Inv, LogIn, ExpireClaim, CreateUser, ToggleAdmin, Stored, history, vars
<1>2. TypeOK'
  <2>1. CASE \E u \in Accounts : LogIn(u)
    <3>1. PICK u \in Accounts : LogIn(u)
      BY <2>1
    <3>2. u \in everUsers /\ (u \in admins) \in BOOLEAN
      BY <1>1, <3>1 DEF TypeOK, LogIn
    <3>3. Claim(u) \in everUsers \X BOOLEAN
      BY <3>2 DEF Claim
    <3> QED BY <1>1, <3>1, <3>3 DEF TypeOK, LogIn, history
  <2>2. CASE \E claim \in claims : ExpireClaim(claim)
    BY <1>1, <2>2 DEF TypeOK, ExpireClaim, history
  <2>3. CASE \E a, u \in Accounts, isAdmin \in BOOLEAN : CreateUser(a, u, isAdmin)
    BY <1>1, <2>3 DEF TypeOK, CreateUser, Stored
  <2>4. CASE \E a, u \in Accounts, isAdmin \in BOOLEAN : ToggleAdmin(a, u, isAdmin)
    BY <1>1, <2>4 DEF TypeOK, ToggleAdmin, history
  <2>5. CASE UNCHANGED vars
    BY <1>1, <2>5 DEF TypeOK, vars
  <2> QED BY <2>1, <2>2, <2>3, <2>4, <2>5
<1>3. \A k \in Keys : KeyInv(k)'
  <2> TAKE k \in Keys
  <2>1. KeyInv(k)
    BY DEF Inv
  <2> QED BY <1>1, <2>1, KeyFrame DEF Exists
<1> QED BY <1>2, <1>3 DEF Inv

\* Steps that age a row or take rows away.
LEMMA RowSteps ==
    ASSUME Inv, \/ \E key \in Keys : AgeInvite(key)
                \/ \E a \in Accounts, key \in Keys : DeleteInvite(a, key)
                \/ PruneInvites
                \/ \E a, u \in Accounts : DeleteUser(a, u)
    PROVE Inv'
<1>1. TypeOK /\ UNCHANGED history
  BY DEF Inv, AgeInvite, DeleteInvite, PruneInvites, DeleteUser
<1>2. users' \subseteq users /\ claims' = claims /\ admins' = admins \cap users'
  BY <1>1 DEF TypeOK, AgeInvite, DeleteInvite, PruneInvites, DeleteUser
<1>3. /\ invites' \in [Keys -> Invites \cup {NoInvite}]
      /\ \A k \in Keys : \/ ~ Exists(k)'
                         \/ /\ Exists(k) /\ invites'[k].uses = invites[k].uses
                            /\ invites'[k].max = invites[k].max
  <2>1. ASSUME NEW key \in Keys, AgeInvite(key)
        PROVE  <1>3!1 /\ <1>3!2
    <3> DEFINE aged == [invites[key] EXCEPT
                          !.age = IF @ = "valid" THEN "expired" ELSE "old"]
    <3>1. invites' = [invites EXCEPT ![key] = aged]
      BY <2>1 DEF AgeInvite
    <3>2. invites[key] \in Invites
      BY <1>1, <2>1 DEF TypeOK, AgeInvite, Exists
    <3>3. aged \in Invites /\ aged.uses = invites[key].uses /\ aged.max = invites[key].max
      BY <3>2 DEF Invites, Ages
    <3> HIDE DEF aged
    <3>4. Exists(key)
      BY <2>1 DEF AgeInvite
    <3> QED BY <1>1, <3>1, <3>3, <3>4 DEF TypeOK, Exists
  <2>2. ASSUME NEW a \in Accounts, NEW key \in Keys, DeleteInvite(a, key)
        PROVE  <1>3!1 /\ <1>3!2
    BY <1>1, <2>2 DEF TypeOK, DeleteInvite, Exists
  <2>3. CASE PruneInvites
    BY <1>1, <2>3 DEF TypeOK, PruneInvites, Exists
  <2>4. ASSUME NEW a \in Accounts, NEW u \in Accounts, DeleteUser(a, u)
        PROVE  <1>3!1 /\ <1>3!2
    BY <1>1, <2>4 DEF TypeOK, DeleteUser, CascadedInvites, Exists
  <2> QED BY <2>1, <2>2, <2>3, <2>4
<1>4. TypeOK'
  BY <1>1, <1>2, <1>3 DEF TypeOK, history
<1>5. \A k \in Keys : KeyInv(k)'
  <2> TAKE k \in Keys
  <2>1. KeyInv(k)
    BY DEF Inv
  <2> QED BY <1>1, <1>3, <2>1, KeyFrame DEF history
<1> QED BY <1>4, <1>5 DEF Inv

\* A new key has a row whose use is not counted yet; with an invitation
\* required no one can have registered with it before.
LEMMA GenerateStep ==
    ASSUME Inv, NEW a \in Accounts, NEW key \in Keys, NEW max \in Limits,
           GenerateInvite(a, key, max)
    PROVE Inv'
<1> DEFINE row == [by |-> a, max |-> max, uses |-> 0, used |-> FALSE, age |-> "valid"]
<1>1. TypeOK /\ key \notin everKeys /\ invites' = [invites EXCEPT ![key] = row]
      /\ everKeys' = everKeys \cup {key}
      /\ UNCHANGED <<users, admins, claims, everUsers, registered, uncounted>>
  BY DEF Inv, GenerateInvite
<1>2. Cardinality(Accounts) \in Nat
  BY FS_CardinalityType, AccountsAssumption
<1>3. row \in Invites /\ row.uses = 0 /\ row.max = max
  BY <1>2 DEF Invites, Ages
<1> HIDE DEF row
<1>4. TypeOK'
  BY <1>1, <1>3 DEF TypeOK
<1>5. ASSUME NEW k \in Keys PROVE KeyInv(k)'
  <2>1. KeyInv(k)
    BY DEF Inv
  <2>2. CASE k # key
    BY <1>1, <2>1, <2>2 DEF TypeOK, KeyInv, Counted, Exists
  <2>3. CASE k = key
    <3>1. Counted(k)' = Counted(k) /\ Counted(k) \subseteq Accounts
      BY <1>1 DEF TypeOK, Counted
    <3>2. Cardinality(Counted(k)) \in Nat
      BY <3>1, FS_Subset, FS_CardinalityType, AccountsAssumption
    <3>3. InvitationRequired => Cardinality(Counted(k)) = 0
      <4>1. InvitationRequired => Counted(k) = {}
        BY <1>1, <2>1, <2>3 DEF KeyInv, Counted
      <4> QED BY <4>1, FS_EmptySet
    <3>4. invites'[k] = row /\ k \in everKeys' /\ registered'[k] = registered[k]
          /\ uncounted'[k] = uncounted[k] /\ everUsers' = everUsers
      BY <1>1, <2>3 DEF TypeOK
    <3>5. max # Unlimited => max \in Nat
      BY AccountsAssumption
    <3>6. KeyInv(k)!1' /\ KeyInv(k)!2'
      BY <2>1, <3>4 DEF KeyInv
    <3> QED BY <1>3, <3>1, <3>2, <3>3, <3>4, <3>5, <3>6 DEF KeyInv, Exists
  <2> QED BY <2>2, <2>3
<1> QED BY <1>4, <1>5 DEF Inv

\* An account whose registration a crash cut short is not counted by anyone.
LEMMA CrashStep ==
    ASSUME Inv, NEW u \in Accounts, NEW key \in Keys, RegisterCrash(u, key)
    PROVE Inv'
<1>1. TypeOK /\ u \notin everUsers
      /\ registered' = [registered EXCEPT ![key] = @ \cup {u}]
      /\ uncounted' = [uncounted EXCEPT ![key] = @ \cup {u}]
      /\ users' = users \cup {u} /\ everUsers' = everUsers \cup {u}
      /\ UNCHANGED <<admins, claims, invites, everKeys>>
  BY DEF Inv, RegisterCrash, Stored
<1>2. TypeOK'
  BY <1>1 DEF TypeOK
<1>3. InvitationRequired => Exists(key)
  BY DEF RegisterCrash, MayRegister, ValidateInvite
<1>4. ASSUME NEW k \in Keys PROVE KeyInv(k)'
  <2>1. KeyInv(k)
    BY DEF Inv
  <2>2. CASE k # key
    BY <1>1, <2>1, <2>2 DEF TypeOK, KeyInv, Counted, Exists
  <2>3. CASE k = key
    <3>1. Counted(k)' = Counted(k)
      BY <1>1, <2>1, <2>3 DEF TypeOK, KeyInv, Counted
    <3>2. registered'[k] \subseteq everUsers' /\ uncounted'[k] \subseteq everUsers'
      BY <1>1, <2>1, <2>3 DEF TypeOK, KeyInv
    <3> QED BY <1>1, <1>3, <2>1, <2>3, <3>1, <3>2 DEF KeyInv, Exists
  <2> QED BY <2>2, <2>3
<1> QED BY <1>2, <1>4 DEF Inv

\* A registration is counted by the row of its key, if there is one, and only
\* while the row is not used up.
LEMMA RegisterStep ==
    ASSUME Inv, NEW u \in Accounts, NEW key \in Keys, Register(u, key)
    PROVE Inv'
<1>1. TypeOK /\ u \notin everUsers
      /\ registered' = [registered EXCEPT ![key] = @ \cup {u}]
      /\ users' = users \cup {u} /\ everUsers' = everUsers \cup {u}
      /\ claims' = claims \cup {<<u, FALSE>>}
      /\ invites' = (IF Exists(key) THEN [invites EXCEPT ![key] = Consumed(@)] ELSE invites)
      /\ UNCHANGED <<admins, everKeys, uncounted>>
  BY DEF Inv, Register, Stored, ConsumeInvite
<1>2. KeyInv(key)
  BY DEF Inv
<1>3. Counted(key) \in SUBSET Accounts /\ u \in Accounts \ Counted(key)
  BY <1>1, <1>2 DEF TypeOK, KeyInv, Counted
<1>4. /\ Cardinality(Counted(key)) \in Nat /\ Cardinality(Accounts) \in Nat
      /\ Cardinality(Counted(key) \cup {u}) = Cardinality(Counted(key)) + 1
      /\ Cardinality(Counted(key)) + 1 <= Cardinality(Accounts)
  BY <1>3, CountedAccounts
<1>5. Counted(key)' = Counted(key) \cup {u}
  BY <1>1, <1>2 DEF TypeOK, KeyInv, Counted
<1>6. ASSUME Exists(key)
      PROVE  /\ Consumed(invites[key]) \in Invites
             /\ Consumed(invites[key]).uses = invites[key].uses + 1
             /\ Consumed(invites[key]).max = invites[key].max
  <2>1. invites[key] \in Invites
    BY <1>1, <1>6 DEF TypeOK, Exists
  <2>2. invites[key].uses \in Nat
    BY <1>4, <2>1 DEF Invites
  <2>3. invites[key].uses + 1 <= Cardinality(Accounts)
    BY <1>2, <1>4, <1>6, <2>2 DEF KeyInv
  <2> QED BY <1>4, <2>1, <2>3, ConsumedType
<1>7. TypeOK'
  <2>1. invites' \in [Keys -> Invites \cup {NoInvite}]
    <3>1. CASE Exists(key)
      BY <1>1, <1>6, <3>1 DEF TypeOK
    <3>2. CASE ~ Exists(key)
      BY <1>1, <3>2 DEF TypeOK
    <3> QED BY <3>1, <3>2
  <2>2. claims' \subseteq everUsers' \X BOOLEAN
    <3>1. u \in everUsers' /\ FALSE \in BOOLEAN
      BY <1>1
    <3>2. <<u, FALSE>> \in everUsers' \X BOOLEAN
      BY ONLY <3>1
    <3>3. everUsers \X BOOLEAN \subseteq everUsers' \X BOOLEAN
      BY <1>1
    <3>4. claims \subseteq everUsers \X BOOLEAN
      BY <1>1 DEF TypeOK
    <3>5. claims' = claims \cup {<<u, FALSE>>}
      BY <1>1
    <3> QED BY ONLY <3>2, <3>3, <3>4, <3>5, Zenon
  <2>3. registered' \in [Keys -> SUBSET Accounts] /\ users' \subseteq everUsers'
        /\ everUsers' \subseteq Accounts
    BY <1>1 DEF TypeOK
  <2> QED BY <1>1, <2>1, <2>2, <2>3 DEF TypeOK
<1>8. ASSUME NEW k \in Keys PROVE KeyInv(k)'
  <2>1. KeyInv(k)
    BY DEF Inv
  <2>2. CASE k # key
    <3>1. invites'[k] = invites[k] /\ registered'[k] = registered[k]
      BY <1>1, <2>2 DEF TypeOK
    <3> QED BY <1>1, <2>1, <3>1 DEF KeyInv, Counted, Exists
  <2>3. CASE k = key
    <3>1. registered'[k] \subseteq everUsers' /\ uncounted'[k] \subseteq everUsers'
      BY <1>1, <2>1, <2>3 DEF TypeOK, KeyInv
    <3>2. CASE ~ Exists(key)
      <4>1. ~ InvitationRequired /\ ~ Exists(key)'
        BY <1>1, <3>2 DEF Register, MayRegister, ValidateInvite, Exists
      <4> QED BY <2>3, <3>1, <4>1 DEF KeyInv
    <3>3. CASE Exists(key)
      <4>1. invites'[key] = Consumed(invites[key])
        BY <1>1, <3>3 DEF TypeOK
      <4>2. invites[key] \in Invites
        BY <1>1, <3>3 DEF TypeOK, Exists
      <4>3. invites[key].uses \in Nat /\ invites[key].max \in Limits
        BY <1>4, <4>2 DEF Invites
      <4>4. invites[key].max # Unlimited => invites[key].max \in Nat
        BY <4>3, AccountsAssumption
      <4>5. InvitationRequired /\ invites[key].max # Unlimited
               => invites[key].uses < invites[key].max
        BY <4>3, <4>4 DEF Register, MayRegister, ValidateInvite, IsUsedUp
      <4>6. /\ invites'[key].uses = invites[key].uses + 1
            /\ invites'[key].max = invites[key].max
        BY <1>6, <3>3, <4>1
      <4>7. Cardinality(Counted(key)') = Cardinality(Counted(key)) + 1
        BY <1>4, <1>5
      <4>8. /\ key \in everKeys' /\ invites[key].uses <= Cardinality(Counted(key))
            /\ InvitationRequired => invites[key].uses = Cardinality(Counted(key))
        BY <1>1, <1>2, <3>3 DEF KeyInv
      <4>9. KeyInv(key)'
        BY <1>4, <2>3, <3>1, <4>3, <4>4, <4>5, <4>6, <4>7, <4>8 DEF KeyInv, Exists
      <4> QED BY <2>3, <4>9
    <3> QED BY <3>2, <3>3
  <2> QED BY <2>2, <2>3
<1> QED BY <1>7, <1>8 DEF Inv

LEMMA StepInv == Inv /\ [Next]_vars => Inv'
<1> SUFFICES ASSUME Inv, [Next]_vars PROVE Inv'
  OBVIOUS
<1> QED BY ClaimSteps, RowSteps, GenerateStep, CrashStep, RegisterStep, Zenon DEF Next

LEMMA Invariance == Spec => []Inv
<1> QED BY InitInv, StepInv, PTL DEF Spec

-----------------------------------------------------------------------------
\* Every row keeps its type, with the accounts that are gone apart from those
\* that are there (schema.sql:1-28).
THEOREM TypeCorrect == Spec => []TypeOK
<1>1. Inv => TypeOK
  BY DEF Inv
<1> QED BY <1>1, Invariance, PTL

\* A key registers no more accounts than its limit, whatever the number of
\* accounts, keys and crashes (inviteService.js:18-36, user.js:146-165).
THEOREM LimitIsKept == Spec => []LimitKept
<1>1. Inv => LimitKept
  BY DEF Inv, KeyInv, Counted, LimitKept
<1> QED BY <1>1, Invariance, PTL

\* Every invite belongs to an account that still exists (schema.sql:17,
\* user.js:188-204, 252-266).
THEOREM CreatorExists == Spec => []InviteHasCreator
<1>1. Init => InviteHasCreator
  BY DEF Init, InviteHasCreator, Exists
<1>2. Inv /\ InviteHasCreator /\ [Next]_vars => InviteHasCreator'
  <2> SUFFICES ASSUME Inv, InviteHasCreator, [Next]_vars, NEW k \in Keys, Exists(k)'
               PROVE  invites'[k].by \in users'
    BY DEF InviteHasCreator
  <2> USE DEF Exists
  <2>1. TypeOK
    BY DEF Inv
  <2>2. ASSUME NEW key \in Keys, AgeInvite(key) PROVE invites'[k].by \in users'
    <3> DEFINE aged == [invites[key] EXCEPT
                          !.age = IF @ = "valid" THEN "expired" ELSE "old"]
    <3>1. invites' = [invites EXCEPT ![key] = aged] /\ users' = users
      BY <2>2 DEF AgeInvite
    <3>2. invites[key] \in Invites
      BY <2>1, <2>2 DEF TypeOK, AgeInvite
    <3>3. aged.by = invites[key].by
      BY <3>2 DEF Invites
    <3> HIDE DEF aged
    <3>4. invites[key] # NoInvite
      BY <2>2 DEF AgeInvite
    <3> QED BY <2>1, <3>1, <3>3, <3>4 DEF TypeOK, InviteHasCreator
  <2>3. ASSUME NEW u \in Accounts, NEW key \in Keys, Register(u, key)
        PROVE  invites'[k].by \in users'
    <3>1. users \subseteq users'
      BY <2>3 DEF Register, Stored
    <3>2. CASE invites' = invites
      BY <3>1, <3>2 DEF InviteHasCreator
    <3>3. CASE Exists(key) /\ invites' = [invites EXCEPT ![key] = Consumed(@)]
      <4>1. Consumed(invites[key]).by = invites[key].by
        <5>1. invites[key] \in Invites
          BY <2>1, <3>3 DEF TypeOK
        <5> QED BY <5>1 DEF Consumed, Invites
      <4> QED BY <2>1, <3>1, <3>3, <4>1 DEF TypeOK, InviteHasCreator
    <3> QED BY <2>3, <3>2, <3>3 DEF Register, ConsumeInvite
  <2>4. ASSUME NEW a \in Accounts, NEW key \in Keys, NEW max \in Limits,
               GenerateInvite(a, key, max)
        PROVE  invites'[k].by \in users'
    BY <2>1, <2>4 DEF TypeOK, GenerateInvite, InviteHasCreator
  <2>5. ASSUME NEW a \in Accounts, NEW key \in Keys, DeleteInvite(a, key)
        PROVE  invites'[k].by \in users'
    BY <2>1, <2>5 DEF TypeOK, DeleteInvite, InviteHasCreator
  <2>6. CASE PruneInvites
    BY <2>1, <2>6 DEF TypeOK, PruneInvites, InviteHasCreator
  <2>7. ASSUME NEW a \in Accounts, NEW u \in Accounts, DeleteUser(a, u)
        PROVE  invites'[k].by \in users'
    BY <2>1, <2>7 DEF TypeOK, DeleteUser, CascadedInvites, InviteHasCreator
  <2>8. CASE users \subseteq users' /\ invites' = invites
    BY <2>8 DEF InviteHasCreator
  <2>9. \/ users \subseteq users' /\ invites' = invites
        \/ PruneInvites
        \/ \E key \in Keys : \/ AgeInvite(key)
                             \/ \E u \in Accounts : Register(u, key)
                             \/ \E a \in Accounts : DeleteInvite(a, key)
                             \/ \E a \in Accounts, max \in Limits : GenerateInvite(a, key, max)
        \/ \E a, u \in Accounts : DeleteUser(a, u)
    BY DEF Next, vars, LogIn, ExpireClaim, RegisterCrash, CreateUser, ToggleAdmin, Stored
  <2> QED BY <2>2, <2>3, <2>4, <2>5, <2>6, <2>7, <2>8, <2>9
<1> QED BY <1>1, <1>2, Invariance, PTL DEF Spec

\* The stored `used` agrees with what registration computes
\* (inviteService.js:18-36).
THEOREM UsedIsAsShown == Spec => []UsedAsShown
<1>1. Init => UsedAsShown
  BY DEF Init, UsedAsShown, Exists
<1>2. Inv /\ UsedAsShown /\ [Next]_vars => UsedAsShown'
  <2> SUFFICES ASSUME Inv, UsedAsShown, [Next]_vars, NEW k \in Keys, Exists(k)'
               PROVE  invites'[k].used <=> IsUsedUp(invites'[k])
    BY DEF UsedAsShown
  <2>1. TypeOK
    BY DEF Inv
  <2>2. ASSUME Exists(k), invites'[k].used = invites[k].used,
               invites'[k].uses = invites[k].uses, invites'[k].max = invites[k].max
        PROVE  invites'[k].used <=> IsUsedUp(invites'[k])
    BY <2>2 DEF UsedAsShown, IsUsedUp
  <2>3. ASSUME NEW key \in Keys, AgeInvite(key)
        PROVE  invites'[k].used <=> IsUsedUp(invites'[k])
    <3> DEFINE aged == [invites[key] EXCEPT
                          !.age = IF @ = "valid" THEN "expired" ELSE "old"]
    <3>1. invites' = [invites EXCEPT ![key] = aged] /\ Exists(key)
      BY <2>3 DEF AgeInvite
    <3>2. invites[key] \in Invites
      BY <2>1, <3>1 DEF TypeOK, Exists
    <3>3. aged.used = invites[key].used /\ aged.uses = invites[key].uses
          /\ aged.max = invites[key].max
      BY <3>2 DEF Invites
    <3> HIDE DEF aged
    <3>4. Exists(k) /\ invites'[k].used = invites[k].used
          /\ invites'[k].uses = invites[k].uses /\ invites'[k].max = invites[k].max
      BY <2>1, <3>1, <3>3 DEF TypeOK, Exists
    <3> QED BY <2>2, <3>4
  <2>4. ASSUME NEW u \in Accounts, NEW key \in Keys, Register(u, key)
        PROVE  invites'[k].used <=> IsUsedUp(invites'[k])
    <3>1. CASE invites' = invites
      BY <2>2, <3>1 DEF Exists
    <3>2. CASE Exists(key) /\ invites' = [invites EXCEPT ![key] = Consumed(@)] /\ k # key
      <4>1. invites'[k] = invites[k] /\ Exists(k)
        BY <2>1, <3>2 DEF TypeOK, Exists
      <4> QED BY <2>2, <4>1
    <3>3. CASE Exists(key) /\ invites' = [invites EXCEPT ![key] = Consumed(@)] /\ k = key
      <4>1. invites[k] \in Invites /\ invites'[k] = Consumed(invites[k])
        BY <2>1, <3>3 DEF TypeOK, Exists
      <4>2. KeyInv(k) /\ u \notin everUsers
        BY <2>4 DEF Inv, Register, Stored
      <4>3. Counted(k) \in SUBSET Accounts /\ u \in Accounts \ Counted(k)
        BY <2>1, <4>2 DEF TypeOK, KeyInv, Counted
      <4>4. Cardinality(Counted(k)) \in Nat /\ Cardinality(Accounts) \in Nat
            /\ Cardinality(Counted(k)) + 1 <= Cardinality(Accounts)
        BY <4>3, CountedAccounts
      <4>5. invites[k].uses \in Nat /\ invites[k].max \in Limits
        BY <4>1, <4>4 DEF Invites
      <4>6. invites[k].uses + 1 <= Cardinality(Accounts)
        BY <3>3, <4>2, <4>4, <4>5 DEF KeyInv
      <4>7. /\ invites'[k].uses = invites[k].uses + 1
            /\ invites'[k].max = invites[k].max
            /\ invites'[k].used
                  = (invites[k].used \/ (invites[k].max # Unlimited
                                         /\ invites[k].uses + 1 >= invites[k].max))
        BY <4>1, <4>4, <4>6, ConsumedType
      <4>8. invites[k].max # Unlimited => invites[k].max \in Nat
        BY <4>5, AccountsAssumption
      <4>9. invites[k].used => invites[k].max # Unlimited /\ invites[k].uses >= invites[k].max
        BY <3>3 DEF UsedAsShown, IsUsedUp
      <4>10. IsUsedUp(invites'[k])
               <=> invites[k].max # Unlimited /\ invites[k].uses + 1 >= invites[k].max
        BY <4>7 DEF IsUsedUp
      <4>11. invites[k].used => invites[k].max # Unlimited
                                /\ invites[k].uses + 1 >= invites[k].max
        BY <4>5, <4>8, <4>9
      <4> QED BY <4>7, <4>10, <4>11, Zenon
    <3> QED BY <2>4, <3>1, <3>2, <3>3 DEF Register, ConsumeInvite
  <2>5. ASSUME NEW a \in Accounts, NEW key \in Keys, NEW max \in Limits,
               GenerateInvite(a, key, max)
        PROVE  invites'[k].used <=> IsUsedUp(invites'[k])
    <3>1. CASE k # key
      <4>1. invites'[k] = invites[k] /\ Exists(k)
        BY <2>1, <2>5, <3>1 DEF TypeOK, GenerateInvite, Exists
      <4> QED BY <2>2, <4>1
    <3>2. CASE k = key
      <4>1. invites'[k] = [by |-> a, max |-> max, uses |-> 0, used |-> FALSE, age |-> "valid"]
        BY <2>1, <2>5, <3>2 DEF TypeOK, GenerateInvite
      <4>2. max # Unlimited => max \in Nat \ {0}
        BY AccountsAssumption
      <4> QED BY <4>1, <4>2 DEF IsUsedUp
    <3> QED BY <3>1, <3>2
  <2>6. CASE \/ PruneInvites
             \/ \E a, u \in Accounts : DeleteUser(a, u)
             \/ \E a \in Accounts, key \in Keys : DeleteInvite(a, key)
    <3>1. Exists(k) /\ invites'[k] = invites[k]
      BY <2>1, <2>6 DEF TypeOK, PruneInvites, DeleteUser, CascadedInvites, DeleteInvite, Exists
    <3> QED BY <2>2, <3>1
  <2>7. CASE invites' = invites
    BY <2>2, <2>7 DEF Exists
  <2>8. \/ invites' = invites
        \/ PruneInvites
        \/ \E a, u \in Accounts : DeleteUser(a, u)
        \/ \E key \in Keys : \/ AgeInvite(key)
                             \/ \E u \in Accounts : Register(u, key)
                             \/ \E a \in Accounts : DeleteInvite(a, key)
                             \/ \E a \in Accounts, max \in Limits : GenerateInvite(a, key, max)
    BY DEF Next, vars, LogIn, ExpireClaim, RegisterCrash, CreateUser, ToggleAdmin
  <2> QED BY <2>3, <2>4, <2>5, <2>6, <2>7, <2>8
<1> QED BY <1>1, <1>2, Invariance, PTL DEF Spec

\* Only an access token older than its owner's loss of admin rights can leave
\* the server without an admin (user.js:259-261, 330-332, requireAdmin.js:4).
THEOREM LastAdminIsKept == Spec => LastAdminLostOnlyToStaleClaim
<1>1. TypeOK /\ [Next]_vars
        => [admins # {} /\ admins' = {} => \E a \in Accounts \ admins : ActsAsAdmin(a)]_vars
  <2> SUFFICES ASSUME TypeOK, Next, admins # {}, admins' = {}
               PROVE  \E a \in Accounts \ admins : ActsAsAdmin(a)
    BY Zenon
  <2>1. \E a, u \in Accounts :
           DeleteUser(a, u) \/ \E isAdmin \in BOOLEAN : ToggleAdmin(a, u, isAdmin)
    BY DEF Next, LogIn, ExpireClaim, AgeInvite, Register, RegisterCrash, DeleteInvite,
           GenerateInvite, PruneInvites, CreateUser, history
  <2>2. PICK a \in Accounts, u \in Accounts :
           ActsAsAdmin(a) /\ u # a /\ admins \subseteq {u}
    BY <2>1 DEF DeleteUser, ToggleAdmin
  <2> QED BY <2>2
<1> QED BY <1>1, TypeCorrect, PTL DEF Spec, LastAdminLostOnlyToStaleClaim
-----------------------------------------------------------------------------
(* The admin page.  What it does to accounts is the server's doing.  Its    *)
(* own promises need to know what an answer on its way may say, and of the *)
(* call that is to make each promise good: it is under way, or it was lost.*)

\* An answer suits its question, shows accounts that have existed, and carries
\* access tokens the server gave.
CallOK(q) ==
    /\ q.cookie \in claims \cup {NoClaim}
    /\ q.reply.is \in {"none", "refused", "ok", "rows", "claim"}
    /\ q.reply.is = "rows" => q.op.do = "load" /\ q.reply.rows \subseteq everUsers \X BOOLEAN
    /\ q.reply.is = "claim" => q.op.do = "login" /\ q.reply.claim \in claims
    /\ q.reply.is = "ok" => q.op.do \notin {"load", "login"}

Known ==
    /\ cookie \in claims \cup {NoClaim}
    /\ table.is = "rows" => table.rows \subseteq everUsers \X BOOLEAN
    /\ named # NoClaim => named[1] \in everUsers
    /\ \A c \in Calls : calls[c] # NoCall => CallOK(calls[c])

ClosedIsIdle ==
    screen = "closed" => (\A c \in Calls : calls[c] = NoCall) /\ unread = {} /\ ~ leaving

\* A call whose function is still to have the users read.
WillRead(q) ==
    q # NoCall /\ (\/ q.op.do = "load" /\ q.reply.is = "none"
                   \/ q.op \in Changes /\ q.reply.is = "ok")

WillBeRead == \A c \in unread : WillRead(calls[c])

\* Every toggle of the user still to be handled wants what was named last.
WantToggle(q, u) == q # NoCall /\ q.reply.is = "none" /\ q.op.do = "toggle" /\ q.op.user = u

NamedIsWanted ==
    named # NoClaim =>
        /\ \A c \in Calls : WantToggle(calls[c], named[1]) => calls[c].op.isAdmin = named[2]
        /\ \/ named[1] \notin users
           \/ \E c \in Calls : WantToggle(calls[c], named[1])
           \/ (named[1] \in admins) = named[2]

\* A logout sent with the token the browser still has, which the server knows.
WillLogOut(q) ==
    q # NoCall /\ q.op.do = "logout" /\ q.cookie = cookie /\ q.reply.is \in {"none", "ok"}

WillBeLoggedOut == leaving => cookie = NoClaim \/ \E c \in Calls : WillLogOut(calls[c])

Promises == WillBeRead /\ NamedIsWanted /\ WillBeLoggedOut

AdminInv == Inv /\ PageTypeOK /\ Known /\ ClosedIsIdle /\ Promises

-----------------------------------------------------------------------------
LEMMA AdminInitInv == PageInit => AdminInv
<1> SUFFICES ASSUME PageInit PROVE AdminInv
  OBVIOUS
<1>1. Inv
  BY InitInv DEF PageInit
<1>2. PageTypeOK
  BY DEF PageInit, PageTypeOK, Cookies
<1>3. Known /\ ClosedIsIdle
  BY DEF PageInit, Known, ClosedIsIdle
<1>4. Promises
  BY DEF PageInit, Promises, WillBeRead, NamedIsWanted, WillBeLoggedOut
<1> QED BY <1>1, <1>2, <1>3, <1>4 DEF AdminInv

\* What the route obeys is a step of the server's.
LEMMA ObeyIsAStep ==
    ASSUME NEW a \in Accounts, NEW op \in Changes, Obey(a, op)
    PROVE Next /\ claims' = claims
<1>1. op.do = "toggle" => op.user \in Accounts /\ op.isAdmin \in BOOLEAN
  BY DEF Changes
<1>2. op.do = "delete" => op.user \in Accounts
  BY DEF Changes
<1>3. CASE op.do = "toggle" /\ ToggleAdmin(a, op.user, op.isAdmin)
  BY <1>1, <1>3 DEF Next, ToggleAdmin
<1>4. CASE op.do = "delete" /\ DeleteUser(a, op.user)
  BY <1>2, <1>4 DEF Next, DeleteUser
<1>5. CASE op.do = "create" /\ \E u \in Accounts, isAdmin \in BOOLEAN : CreateUser(a, u, isAdmin)
  BY <1>5 DEF Next, CreateUser
<1> QED BY <1>3, <1>4, <1>5 DEF Obey

\* Whatever the page and the other admins do is a step of the server's or leaves
\* it alone, and forgets no access token.
LEMMA PageStepIsAStep ==
    ASSUME AdminInv, [PageNext]_pageVars
    PROVE [Next]_vars /\ claims \subseteq claims'
<1>1. ASSUME NEW c \in Calls, HandleChange(c)
      PROVE  Next /\ claims' = claims
  <2>1. calls[c].cookie \in claims /\ calls[c].op \in Changes /\ Obey(By(c), calls[c].op)
    BY <1>1 DEF HandleChange, IsAdmin, IsLoggedIn
  <2>2. By(c) \in Accounts
    BY <2>1 DEF AdminInv, Inv, TypeOK, By
  <2> QED BY <2>1, <2>2, ObeyIsAStep
<1>2. ASSUME NEW u \in Accounts, LogIn(u)
      PROVE  Next /\ claims \subseteq claims'
  BY <1>2 DEF Next, LogIn
<1>3. ASSUME NEW c \in Calls, HandleLogin(c)
      PROVE  [Next]_vars /\ claims \subseteq claims'
  <2>1. CASE UNCHANGED vars
    BY <2>1 DEF vars
  <2>2. CASE LogIn(calls[c].op.user)
    <3>1. calls[c].op.user \in Accounts
      BY <2>2 DEF AdminInv, Inv, TypeOK, LogIn
    <3> QED BY <1>2, <2>2, <3>1
  <2> QED BY <1>3, <2>1, <2>2 DEF HandleLogin
<1>4. CASE OthersLogIn
  <2>1. PICK u \in admins : LogIn(u)
    BY <1>4 DEF OthersLogIn
  <2>2. u \in Accounts
    BY DEF AdminInv, Inv, TypeOK
  <2> QED BY <1>2, <2>1, <2>2
<1>5. ASSUME NEW a \in Accounts, NEW op \in Changes, OthersChange(a, op)
      PROVE  Next /\ claims' = claims
  BY <1>5, ObeyIsAStep DEF OthersChange
<1>6. CASE UNCHANGED vars
  BY <1>6 DEF vars
<1>7. \/ UNCHANGED vars \/ OthersLogIn
      \/ \E c \in Calls : HandleChange(c) \/ HandleLogin(c)
      \/ \E a \in Accounts, op \in Changes : OthersChange(a, op)
  BY DEF PageNext, pageVars, HandleLoad, RefuseChange, HandleSession, OpenPage, CheckAnswered,
         LoginAnswered, InfoAnswered, ClickTab, ClickLogout, LogoutAnswered, LoadAnswered,
         ChangeAnswered, CallLost, DoLogin, ClickChange, ClosePage, CookieExpires
<1> QED BY <1>1, <1>3, <1>4, <1>5, <1>6, <1>7

\* Who has existed has existed.
LEMMA EverUsersGrow == [Next]_vars => everUsers \subseteq everUsers'
BY DEF Next, vars, LogIn, ExpireClaim, AgeInvite, Register, RegisterCrash, Stored, DeleteInvite,
       GenerateInvite, PruneInvites, DeleteUser, CreateUser, ToggleAdmin, history

-----------------------------------------------------------------------------
(* Calls.                                                                  *)

LEMMA OpsByName ==
    ASSUME NEW op \in Changes \cup {Load} \cup Sessions
    PROVE /\ op \in Changes <=> op.do \in {"toggle", "delete", "create"}
          /\ op = Load <=> op.do = "load"
          /\ op \in Sessions <=> op.do \in {"login", "check", "info", "logout"}
          /\ op.do = "toggle" => op.user \in Accounts /\ op.isAdmin \in BOOLEAN
          /\ op.do \in {"delete", "login"} => op.user \in Accounts
BY DEF Changes, Load, Sessions

\* A call as it is sent.
LEMMA NewCall ==
    ASSUME NEW op \in Changes \cup {Load} \cup Sessions, NEW token \in Cookies
    PROVE /\ Call(op, token) \in CallRecords /\ Call(op, token) # NoCall
          /\ Call(op, token).op = op /\ Call(op, token).cookie = token
          /\ Call(op, token).reply.is = "none"
<1>1. Call(op, token) \in CallRecords
  BY DEF Call, CallRecords, Replies
<1> QED BY <1>1, AdminPageAssumption DEF Call

\* A call with its answer.
LEMMA AnsweredCall ==
    ASSUME NEW q \in CallRecords, NEW reply \in Replies
    PROVE LET p == [q EXCEPT !.reply = reply] IN
          /\ p \in CallRecords /\ p # NoCall
          /\ p.op = q.op /\ p.cookie = q.cookie /\ p.reply = reply
<1> DEFINE p == [q EXCEPT !.reply = reply]
<1>1. p \in CallRecords /\ p.op = q.op /\ p.cookie = q.cookie /\ p.reply = reply
  BY DEF CallRecords
<1> QED BY <1>1, AdminPageAssumption

LEMMA CallsUnderWay ==
    ASSUME AdminInv, NEW c \in Calls, calls[c] # NoCall
    PROVE /\ calls[c] \in CallRecords /\ CallOK(calls[c]) /\ screen # "closed"
          /\ calls[c].op \in Changes \cup {Load} \cup Sessions
          /\ calls[c].cookie \in Cookies /\ calls[c].reply \in Replies
<1>1. calls[c] \in CallRecords
  BY DEF AdminInv, PageTypeOK
<1> QED BY <1>1 DEF AdminInv, Known, ClosedIsIdle, CallRecords

\* The replies that carry nothing.
LEMMA PlainReplies ==
    ASSUME NEW reply \in Replies
    PROVE /\ Ok \in Replies /\ Refused \in Replies /\ Ok.is = "ok" /\ Refused.is = "refused"
          /\ reply.is = "ok" <=> reply = Ok
          /\ reply.is = "refused" <=> reply = Refused
          /\ reply.is = "rows" => reply \in UserLists
          /\ reply.is = "claim" => reply.claim \in Accounts \X BOOLEAN
BY DEF Replies, Ok, Refused, UserLists

\* What a page that is open knows survives a step that changes one call.
LEMMA OneCall ==
    ASSUME AdminInv, NEW c \in Calls, NEW q \in CallRecords \cup {NoCall},
           calls' = [calls EXCEPT ![c] = q], q # NoCall => CallOK(q)',
           claims \subseteq claims', everUsers \subseteq everUsers',
           screen' \in {"blank", "login", "app"},
           cookie' = cookie \/ cookie' \in (claims' \cap Cookies) \cup {NoClaim},
           \/ table' = table
           \/ table' \in [is : {"loading", "failed"}]
           \/ table' \in UserLists /\ table'.rows \subseteq everUsers' \X BOOLEAN,
           \/ named' = named
           \/ named' \in (Accounts \X BOOLEAN) \cup {NoClaim}
              /\ (named' # NoClaim => named'[1] \in everUsers'),
           unread' \subseteq Calls, leaving' \in BOOLEAN
    PROVE PageTypeOK' /\ Known' /\ ClosedIsIdle'
<1>1. PageTypeOK'
  BY DEF AdminInv, PageTypeOK, Cookies, UserLists
<1>2. ASSUME NEW d \in Calls, calls'[d] # NoCall PROVE CallOK(calls[d])'
  BY <1>2 DEF AdminInv, PageTypeOK, Known, CallOK
<1>3. table'.is = "rows" => table'.rows \subseteq everUsers' \X BOOLEAN
  BY DEF AdminInv, Known, UserLists
<1>4. named' # NoClaim => named'[1] \in everUsers'
  BY DEF AdminInv, Known
<1>5. cookie' \in claims' \cup {NoClaim}
  BY DEF AdminInv, Known
<1>6. Known'
  BY <1>2, <1>3, <1>4, <1>5 DEF Known
<1> QED BY <1>1, <1>6 DEF ClosedIsIdle

-----------------------------------------------------------------------------
(* What keeps each promise when one call changes.                          *)

LEMMA StillRead ==
    ASSUME AdminInv, NEW c \in Calls, NEW q, calls' = [calls EXCEPT ![c] = q],
           unread' \subseteq unread \cup {c}, c \in unread' => WillRead(q)
    PROVE WillBeRead'
BY DEF AdminInv, PageTypeOK, Promises, WillBeRead, WillRead

LEMMA NothingUnread ==
    ASSUME AdminInv, NEW c, ~ WillRead(calls[c])
    PROVE c \notin unread
BY DEF AdminInv, Promises, WillBeRead

LEMMA StillNamed ==
    ASSUME AdminInv, NEW c \in Calls, NEW q, calls' = [calls EXCEPT ![c] = q],
           named' # NoClaim =>
              /\ named' = named
              /\ named[1] \in users' => named[1] \in users
                                        /\ (named[1] \in admins' <=> named[1] \in admins)
              /\ ~ WantToggle(calls[c], named[1]) /\ ~ WantToggle(q, named[1])
    PROVE NamedIsWanted'
BY DEF AdminInv, PageTypeOK, Promises, NamedIsWanted, WantToggle

LEMMA StillLoggedOut ==
    ASSUME AdminInv, NEW c \in Calls, NEW q, calls' = [calls EXCEPT ![c] = q],
           leaving' => \/ cookie' = NoClaim
                       \/ q # NoCall /\ WillLogOut(q)'
                       \/ leaving /\ cookie' = cookie /\ ~ WillLogOut(calls[c])
    PROVE WillBeLoggedOut'
BY DEF AdminInv, PageTypeOK, Promises, WillBeLoggedOut, WillLogOut

\* Together: a step that changes one call and leaves the accounts alone.
LEMMA QuietStep ==
    ASSUME AdminInv, NEW c \in Calls, NEW q \in CallRecords \cup {NoCall},
           calls' = [calls EXCEPT ![c] = q], q # NoCall => CallOK(q)',
           UNCHANGED vars, UNCHANGED named,
           ~ WantToggle(calls[c], named[1]), ~ WantToggle(q, named[1]),
           screen' \in {"blank", "login", "app"},
           cookie' = cookie \/ cookie' \in (claims \cap Cookies) \cup {NoClaim},
           \/ table' = table
           \/ table' \in [is : {"loading", "failed"}]
           \/ table' \in UserLists /\ table'.rows \subseteq everUsers \X BOOLEAN,
           leaving' \in BOOLEAN,
           unread' \subseteq unread \cup {c}, c \in unread' => WillRead(q),
           leaving' => \/ cookie' = NoClaim
                       \/ q # NoCall /\ WillLogOut(q)'
                       \/ leaving /\ cookie' = cookie /\ ~ WillLogOut(calls[c])
    PROVE AdminInv'
<1>1. UNCHANGED <<users, admins, claims, everUsers>>
  BY DEF vars
<1>2. Inv'
  BY StepInv DEF AdminInv
<1>3. PageTypeOK' /\ Known' /\ ClosedIsIdle'
  <2>1. unread' \subseteq Calls
    BY DEF AdminInv, PageTypeOK
  <2> QED BY <1>1, <2>1, OneCall
<1>4. WillBeRead'
  BY StillRead
<1>5. NamedIsWanted'
  BY <1>1, StillNamed
<1>6. WillBeLoggedOut'
  BY StillLoggedOut
<1> QED BY <1>2, <1>3, <1>4, <1>5, <1>6 DEF AdminInv, Promises

-----------------------------------------------------------------------------
(* The server's steps for this page.                                       *)

LEMMA HandleLoadStep ==
    ASSUME AdminInv, NEW c \in Calls, HandleLoad(c)
    PROVE AdminInv'
<1>0. PICK reply : reply = IF IsAdmin(c) THEN Listing ELSE Refused
  OBVIOUS
<1>. PICK q : q = [calls[c] EXCEPT !.reply = reply]
  OBVIOUS
<1>1. /\ calls[c] \in CallRecords /\ CallOK(calls[c]) /\ screen # "closed"
      /\ calls[c].op.do = "load" /\ calls[c].reply.is = "none"
  BY CallsUnderWay DEF HandleLoad, Waits, Load
<1>2. /\ reply \in Replies /\ reply.is \in {"rows", "refused"}
      /\ reply.is = "rows" => reply.rows \subseteq everUsers \X BOOLEAN
  <2>1. ASSUME NEW u \in users
        PROVE  Claim(u) \in everUsers \X BOOLEAN /\ Claim(u) \in Accounts \X BOOLEAN
    <3>1. u \in everUsers /\ u \in Accounts /\ (u \in admins) \in BOOLEAN
      BY DEF AdminInv, Inv, TypeOK
    <3> QED BY <3>1 DEF Claim
  <2>2. Listing \in UserLists /\ Listing.is = "rows" /\ Listing.rows \subseteq everUsers \X BOOLEAN
    BY <2>1 DEF Listing, UserLists
  <2>3. Refused \in Replies /\ Refused.is = "refused"
    BY DEF Replies, Refused
  <2> QED BY <1>0, <2>2, <2>3 DEF Replies
<1>3. /\ calls' = [calls EXCEPT ![c] = q] /\ unread' \subseteq unread \ {c}
      /\ UNCHANGED <<vars, screen, cookie, table, named, leaving>>
  BY <1>0 DEF HandleLoad, Replied
<1>4. q \in CallRecords /\ q.op = calls[c].op /\ q.cookie = calls[c].cookie /\ q.reply = reply
  BY <1>1, <1>2, AnsweredCall
<1>5. UNCHANGED <<claims, everUsers>>
  BY <1>3 DEF vars
<1>6. CallOK(q)'
  BY <1>1, <1>2, <1>4, <1>5 DEF CallOK
<1>7. /\ ~ WantToggle(calls[c], named[1]) /\ ~ WantToggle(q, named[1])
      /\ ~ WillLogOut(calls[c]) /\ screen \in {"blank", "login", "app"} /\ leaving \in BOOLEAN
  BY <1>1, <1>4 DEF WantToggle, WillLogOut, AdminInv, PageTypeOK
<1> QED BY <1>3, <1>4, <1>6, <1>7, QuietStep

LEMMA HandleSessionStep ==
    ASSUME AdminInv, NEW c \in Calls, HandleSession(c)
    PROVE AdminInv'
<1>0. PICK reply : reply = IF IsLoggedIn(c) /\ (calls[c].op.do = "info" => By(c) \in admins)
                           THEN Ok ELSE Refused
  OBVIOUS
<1>. PICK q : q = [calls[c] EXCEPT !.reply = reply]
  OBVIOUS
<1>1. /\ calls[c] \in CallRecords /\ CallOK(calls[c]) /\ screen # "closed"
      /\ calls[c].op.do \in {"check", "info", "logout"} /\ calls[c].reply.is = "none"
  BY CallsUnderWay DEF HandleSession, Waits
<1>2. /\ reply \in Replies /\ reply.is \in {"ok", "refused"}
      /\ IsLoggedIn(c) /\ calls[c].op.do = "logout" => reply.is = "ok"
  BY <1>0 DEF Replies, Ok, Refused
<1>3. /\ calls' = [calls EXCEPT ![c] = q]
      /\ UNCHANGED <<vars, screen, cookie, table, named, unread, leaving>>
  BY <1>0 DEF HandleSession, Replied
<1>4. /\ q \in CallRecords /\ q # NoCall
      /\ q.op = calls[c].op /\ q.cookie = calls[c].cookie /\ q.reply = reply
  BY <1>1, <1>2, AnsweredCall
<1>5. UNCHANGED <<claims, everUsers>>
  BY <1>3 DEF vars
<1>6. CallOK(q)'
  BY <1>1, <1>2, <1>4, <1>5 DEF CallOK
<1>7. /\ ~ WantToggle(calls[c], named[1]) /\ ~ WantToggle(q, named[1]) /\ ~ WillRead(calls[c])
      /\ screen \in {"blank", "login", "app"} /\ leaving \in BOOLEAN /\ unread \subseteq Calls
  BY <1>1, <1>4, OpsByName, CallsUnderWay DEF WantToggle, WillRead, AdminInv, PageTypeOK
<1>8. WillLogOut(calls[c]) => cookie = NoClaim \/ WillLogOut(q)'
  \* The server knows the token it gave, so that it answers ok.
  <2>1. WillLogOut(calls[c]) /\ cookie # NoClaim => IsLoggedIn(c)
    BY DEF AdminInv, Known, WillLogOut, IsLoggedIn
  <2> QED BY <1>2, <1>3, <1>4, <2>1 DEF WillLogOut
<1>9. leaving => cookie = NoClaim \/ WillLogOut(q)' \/ ~ WillLogOut(calls[c])
  BY <1>8
<1>10. c \notin unread
  BY <1>7, NothingUnread
<1> QED BY <1>3, <1>4, <1>6, <1>7, <1>9, <1>10, QuietStep

\* A login is a token the server gives for this browser to keep.
LEMMA HandleLoginStep ==
    ASSUME AdminInv, NEW c \in Calls, HandleLogin(c), Inv', claims \subseteq claims',
           everUsers \subseteq everUsers'
    PROVE AdminInv'
<1>1. /\ calls[c] \in CallRecords /\ CallOK(calls[c]) /\ screen # "closed"
      /\ calls[c].op.do = "login" /\ calls[c].reply.is = "none"
  BY CallsUnderWay DEF HandleLogin, Waits
<1>2. /\ UNCHANGED <<users, admins, screen, cookie, table, named, unread, leaving>>
      /\ \E reply \in Replies :
            /\ Replied(c, reply) /\ reply.is \in {"refused", "claim"}
            /\ reply.is = "claim" => reply.claim \in claims'
  <2>1. CASE LogIn(calls[c].op.user)
             /\ Replied(c, [is |-> "claim", claim |-> Claim(calls[c].op.user)])
    <3> DEFINE token == Claim(calls[c].op.user)
    <3>1. token \in claims' /\ UNCHANGED <<users, admins>>
      BY <2>1 DEF LogIn
    <3>2. token \in Accounts \X BOOLEAN
      BY <3>1 DEF Inv, TypeOK
    <3> HIDE DEF token
    <3>3. [is |-> "claim", claim |-> token] \in Replies
      BY <3>2 DEF Replies
    <3> QED BY <2>1, <3>1, <3>3 DEF HandleLogin, token
  <2>2. CASE Replied(c, Refused) /\ UNCHANGED vars
    <3>1. Refused \in Replies /\ Refused.is = "refused"
      BY DEF Replies, Refused
    <3> QED BY <2>2, <3>1 DEF HandleLogin, vars
  <2> QED BY <2>1, <2>2 DEF HandleLogin
<1>3. PICK reply \in Replies :
            /\ Replied(c, reply) /\ reply.is \in {"refused", "claim"}
            /\ reply.is = "claim" => reply.claim \in claims'
  BY <1>2
<1>. PICK q : q = [calls[c] EXCEPT !.reply = reply]
  OBVIOUS
<1>4. calls' = [calls EXCEPT ![c] = q]
  BY <1>3 DEF Replied
<1>5. q \in CallRecords /\ q.op = calls[c].op /\ q.cookie = calls[c].cookie /\ q.reply = reply
  BY <1>1, AnsweredCall
<1>6. CallOK(q)'
  BY <1>1, <1>3, <1>5 DEF CallOK
<1>7. /\ ~ WantToggle(calls[c], named[1]) /\ ~ WantToggle(q, named[1])
      /\ ~ WillRead(calls[c]) /\ ~ WillLogOut(calls[c])
      /\ screen \in {"blank", "login", "app"} /\ leaving \in BOOLEAN /\ unread \subseteq Calls
  BY <1>1, <1>5, OpsByName, CallsUnderWay DEF WantToggle, WillRead, WillLogOut, AdminInv, PageTypeOK
<1>8. PageTypeOK' /\ Known' /\ ClosedIsIdle'
  BY <1>2, <1>4, <1>5, <1>6, <1>7, OneCall
<1>9. WillBeRead' /\ NamedIsWanted' /\ WillBeLoggedOut'
  BY <1>2, <1>4, <1>7, NothingUnread, StillRead, StillNamed, StillLoggedOut
<1> QED BY <1>8, <1>9 DEF AdminInv, Promises

\* A change the server made.  A user that was named is what was named after a
\* toggle of its own, and is left alone by every other change of this page.
LEMMA HandleChangeStep ==
    ASSUME AdminInv, NEW c \in Calls, HandleChange(c), Inv', claims \subseteq claims',
           everUsers \subseteq everUsers'
    PROVE AdminInv'
<1>. PICK q : q = [calls[c] EXCEPT !.reply = Ok]
  OBVIOUS
<1>. PICK op : op = calls[c].op
  OBVIOUS
<1>1. /\ calls[c] \in CallRecords /\ CallOK(calls[c]) /\ screen # "closed" /\ op \in Changes
      /\ calls[c].reply.is = "none" /\ Obey(By(c), op)
  BY CallsUnderWay DEF HandleChange, Waits
<1>2. op.do \in {"toggle", "delete", "create"} /\ Ok \in Replies /\ Ok.is = "ok"
  BY <1>1, OpsByName DEF Replies, Ok
<1>3. /\ calls' = [calls EXCEPT ![c] = q] /\ UNCHANGED <<screen, cookie, table, named, leaving>>
      /\ unread' = unread \cup {c}
  BY DEF HandleChange, Replied
<1>4. q \in CallRecords /\ q # NoCall /\ q.op = op /\ q.cookie = calls[c].cookie /\ q.reply = Ok
  BY <1>1, <1>2, AnsweredCall
<1>5. CallOK(q)'
  BY <1>1, <1>2, <1>4 DEF CallOK
<1>6. /\ WillRead(q) /\ ~ WillLogOut(calls[c])
      /\ screen \in {"blank", "login", "app"} /\ leaving \in BOOLEAN /\ unread' \subseteq Calls
  BY <1>1, <1>2, <1>3, <1>4, CallsUnderWay DEF WillRead, WillLogOut, AdminInv, PageTypeOK
<1>7. PageTypeOK' /\ Known' /\ ClosedIsIdle'
  BY <1>3, <1>4, <1>5, <1>6, OneCall
<1>8. WillBeRead' /\ WillBeLoggedOut'
  BY <1>3, <1>6, StillRead, StillLoggedOut
<1>9. NamedIsWanted'
  <2> SUFFICES ASSUME named # NoClaim PROVE NamedIsWanted'
    BY <1>3 DEF NamedIsWanted
  <2>. PICK u : u = named[1]
    OBVIOUS
  <2>1. u \in everUsers /\ named \in Accounts \X BOOLEAN
    BY DEF AdminInv, Known, PageTypeOK
  <2>2. ~ WantToggle(q, u)
    BY <1>2, <1>4 DEF WantToggle
  <2>3. CASE ~ WantToggle(calls[c], u)
    <3>1. op.do = "toggle" => op.user # u
      BY <1>1, <2>3, CallsUnderWay, AdminPageAssumption DEF WantToggle
    <3>2. u \in users' => u \in users /\ (u \in admins' <=> u \in admins)
      BY <1>1, <2>1, <3>1 DEF Obey, ToggleAdmin, DeleteUser, CreateUser, Stored
    <3> QED BY <1>3, <2>2, <2>3, <3>2, StillNamed
  <2>4. CASE WantToggle(calls[c], u)
    <3>1. op.do = "toggle" /\ op.user = u /\ op.isAdmin = named[2]
      BY <2>4 DEF AdminInv, Promises, NamedIsWanted, WantToggle
    <3>2. ToggleAdmin(By(c), u, named[2])
      BY <1>1, <3>1 DEF Obey
    <3>3. (u \in admins') = named[2]
      BY <2>1, <3>2 DEF ToggleAdmin
    <3>4. \A d \in Calls : WantToggle(calls'[d], u) => WantToggle(calls[d], u) /\ calls'[d] = calls[d]
      BY <1>3, <2>2 DEF AdminInv, PageTypeOK
    <3>5. \A d \in Calls : WantToggle(calls'[d], u) => calls'[d].op.isAdmin = named[2]
      BY <3>4 DEF AdminInv, Promises, NamedIsWanted
    <3> QED BY <1>3, <3>3, <3>5 DEF NamedIsWanted, WantToggle
  <2> QED BY <2>3, <2>4
<1> QED BY <1>7, <1>8, <1>9 DEF AdminInv, Promises

\* Whom a refused toggle was about, the page is no longer held to.
LEMMA RefuseChangeStep ==
    ASSUME AdminInv, NEW c \in Calls, RefuseChange(c)
    PROVE AdminInv'
<1>. PICK q : q = [calls[c] EXCEPT !.reply = Refused]
  OBVIOUS
<1>. PICK op : op = calls[c].op
  OBVIOUS
<1>1. /\ calls[c] \in CallRecords /\ CallOK(calls[c]) /\ screen # "closed" /\ op \in Changes
      /\ calls[c].reply.is = "none"
  BY CallsUnderWay DEF RefuseChange, Waits
<1>2. op.do \in {"toggle", "delete", "create"} /\ Refused \in Replies /\ Refused.is = "refused"
  BY <1>1, OpsByName DEF Replies, Refused
<1>3. /\ calls' = [calls EXCEPT ![c] = q] /\ UNCHANGED <<vars, screen, cookie, table, unread, leaving>>
      /\ named' = IF op.do = "toggle" THEN Forgotten(op.user) ELSE named
  BY DEF RefuseChange, Replied
<1>4. /\ q \in CallRecords /\ q # NoCall
      /\ q.op = op /\ q.cookie = calls[c].cookie /\ q.reply = Refused
  BY <1>1, <1>2, AnsweredCall
<1>5. UNCHANGED <<users, admins, claims, everUsers>>
  BY <1>3 DEF vars
<1>6. CallOK(q)'
  BY <1>1, <1>2, <1>4, <1>5 DEF CallOK
<1>7. /\ ~ WillRead(calls[c]) /\ ~ WillLogOut(calls[c])
      /\ screen \in {"blank", "login", "app"} /\ leaving \in BOOLEAN /\ unread \subseteq Calls
  BY <1>1, <1>2, <1>4, CallsUnderWay DEF WillRead, WillLogOut, AdminInv, PageTypeOK
<1>8. named' = named \/ named' = NoClaim
  BY <1>3 DEF Forgotten
<1>9. PageTypeOK' /\ Known' /\ ClosedIsIdle'
  BY <1>3, <1>4, <1>5, <1>6, <1>7, <1>8, OneCall
<1>10. WillBeRead' /\ WillBeLoggedOut'
  BY <1>3, <1>7, NothingUnread, StillRead, StillLoggedOut
<1>11. named' # NoClaim => named' = named /\ ~ WantToggle(calls[c], named[1])
  BY <1>3 DEF Forgotten, Names, WantToggle
<1>12. ~ WantToggle(q, named[1])
  BY <1>2, <1>4 DEF WantToggle
<1>13. NamedIsWanted'
  BY <1>3, <1>5, <1>11, <1>12, StillNamed
<1>14. Inv'
  BY <1>3, StepInv DEF AdminInv
<1> QED BY <1>9, <1>10, <1>13, <1>14 DEF AdminInv, Promises

-----------------------------------------------------------------------------
(* The page's own steps.                                                   *)

\* What an answered call has still to bring about.
LEMMA AnsweredIsDone ==
    ASSUME AdminInv, NEW c \in Calls, NEW do, IsAnswered(c, do)
    PROVE /\ calls[c] \in CallRecords /\ CallOK(calls[c]) /\ calls[c].op.do = do
          /\ calls[c].op \in Changes \cup {Load} \cup Sessions /\ calls[c].reply \in Replies
          /\ calls[c].reply.is # "none"
          /\ screen \in {"blank", "login", "app"} /\ leaving \in BOOLEAN /\ unread \subseteq Calls
          /\ cookie \in Cookies /\ cookie \in claims \cup {NoClaim}
          /\ ~ WantToggle(calls[c], named[1])
          /\ WillRead(calls[c]) => do \in {"toggle", "delete", "create"} /\ calls[c].reply = Ok
          /\ WillLogOut(calls[c]) => do = "logout" /\ calls[c].reply = Ok
BY CallsUnderWay, OpsByName, PlainReplies
   DEF IsAnswered, WantToggle, WillRead, WillLogOut, AdminInv, PageTypeOK, Known

\* A session's call, or a load, as it is sent.
LEMMA NewSession ==
    ASSUME AdminInv, NEW op \in {Load} \cup Sessions, NEW token \in Cookies,
           token \in claims \cup {NoClaim}, UNCHANGED vars, NEW u
    PROVE /\ Call(op, token) \in CallRecords /\ Call(op, token) # NoCall
          /\ CallOK(Call(op, token))' /\ ~ WantToggle(Call(op, token), u)
          /\ op.do = "load" => WillRead(Call(op, token))
          /\ op.do = "logout" /\ token = cookie' => WillLogOut(Call(op, token))'
<1>. PICK q : q = Call(op, token)
  OBVIOUS
<1>1. /\ q \in CallRecords /\ q # NoCall /\ q.op = op /\ q.cookie = token /\ q.reply.is = "none"
      /\ claims' = claims
  BY NewCall DEF vars
<1>2. CallOK(q)'
  BY <1>1 DEF CallOK
<1>3. /\ ~ WantToggle(q, u)
      /\ op.do = "load" => WillRead(q)
      /\ op.do = "logout" /\ token = cookie' => WillLogOut(q)'
  BY <1>1, OpsByName DEF WantToggle, WillRead, WillLogOut
<1> QED BY <1>1, <1>2, <1>3

\* The answer of a call is taken, and nothing more is sent.
LEMMA CallEnds ==
    ASSUME AdminInv, NEW c \in Calls, NEW do, IsAnswered(c, do),
           calls' = [calls EXCEPT ![c] = NoCall], UNCHANGED vars, UNCHANGED named,
           unread' = unread, leaving' = leaving,
           screen' \in {screen, "login"}, cookie' \in {cookie, NoClaim},
           \/ table' = table
           \/ table' = [is |-> "failed"]
           \/ table' \in UserLists /\ table'.rows \subseteq everUsers \X BOOLEAN,
           do \in {"toggle", "delete", "create"} => calls[c].reply # Ok,
           do = "logout" /\ calls[c].reply = Ok => cookie' = NoClaim
    PROVE AdminInv'
<1>1. /\ ~ WantToggle(calls[c], named[1]) /\ ~ WillRead(calls[c])
      /\ WillLogOut(calls[c]) => cookie' = NoClaim
      /\ screen \in {"blank", "login", "app"} /\ leaving \in BOOLEAN /\ unread \subseteq Calls
  BY AnsweredIsDone
<1>. PICK q : q = NoCall
  OBVIOUS
<1>2. ~ WantToggle(q, named[1]) /\ ~ WillLogOut(q)
  BY DEF WantToggle, WillLogOut
<1>3. /\ screen' \in {"blank", "login", "app"} /\ leaving' \in BOOLEAN
      /\ q \in CallRecords \cup {NoCall} /\ calls' = [calls EXCEPT ![c] = q]
      /\ unread' \subseteq unread \cup {c} /\ c \notin unread'
      /\ cookie' = cookie \/ cookie' \in (claims \cap Cookies) \cup {NoClaim}
      /\ leaving' => \/ cookie' = NoClaim
                     \/ q # NoCall /\ WillLogOut(q)'
                     \/ leaving /\ cookie' = cookie /\ ~ WillLogOut(calls[c])
  BY <1>1, NothingUnread
<1>4. \/ table' = table
      \/ table' \in [is : {"loading", "failed"}]
      \/ table' \in UserLists /\ table'.rows \subseteq everUsers \X BOOLEAN
  OBVIOUS
<1> QED BY <1>1, <1>2, <1>3, <1>4, QuietStep

\* Its function goes on with a session's call, or with a load.
LEMMA CallGoesOn ==
    ASSUME AdminInv, NEW c \in Calls, NEW do, IsAnswered(c, do), NEW op \in {Load} \cup Sessions,
           calls' = [calls EXCEPT ![c] = Call(op, cookie')], UNCHANGED vars, UNCHANGED named,
           unread' = unread, screen' \in {screen, "app"},
           cookie' = cookie \/ cookie' \in claims \cap Cookies,
           table' = table \/ table' = [is |-> "loading"],
           do \in {"toggle", "delete", "create"} => op = Load,
           \/ leaving' = FALSE
           \/ leaving' = leaving /\ do # "logout" /\ cookie' = cookie
           \/ leaving' = TRUE /\ op.do = "logout"
    PROVE AdminInv'
<1>1. /\ ~ WantToggle(calls[c], named[1])
      /\ WillRead(calls[c]) => do \in {"toggle", "delete", "create"}
      /\ WillLogOut(calls[c]) => do = "logout"
      /\ screen \in {"blank", "login", "app"} /\ leaving \in BOOLEAN /\ unread \subseteq Calls
      /\ cookie' \in Cookies /\ cookie' \in claims \cup {NoClaim}
  BY AnsweredIsDone
<1>. PICK token : token = cookie'
  OBVIOUS
<1>. PICK q : q = Call(op, token)
  OBVIOUS
<1>2. /\ q \in CallRecords /\ q # NoCall /\ CallOK(q)' /\ ~ WantToggle(q, named[1])
      /\ op.do = "load" => WillRead(q)
      /\ op.do = "logout" => WillLogOut(q)'
  BY <1>1, NewSession
<1>3. op = Load => op.do = "load"
  BY DEF Load
<1>4. calls' = [calls EXCEPT ![c] = q]
  BY Zenon
<1>5. /\ screen' \in {"blank", "login", "app"} /\ leaving' \in BOOLEAN
      /\ cookie' = cookie \/ cookie' \in (claims \cap Cookies) \cup {NoClaim}
  BY <1>1
<1>6. unread' \subseteq unread \cup {c} /\ (c \in unread' => WillRead(q))
  BY <1>1, <1>2, <1>3, NothingUnread
<1>7. leaving' => \/ WillLogOut(q)'
                  \/ leaving /\ cookie' = cookie /\ ~ WillLogOut(calls[c])
  BY <1>1, <1>2
<1>8. table' = table \/ table' \in [is : {"loading", "failed"}]
  OBVIOUS
<1> QED BY <1>1, <1>2, <1>4, <1>5, <1>6, <1>7, <1>8, QuietStep

LEMMA CheckAnsweredStep ==
    ASSUME AdminInv, NEW c \in Calls, CheckAnswered(c)
    PROVE AdminInv'
<1> DEFINE op == [do |-> "info", after |-> "check"]
<1>1. IsAnswered(c, "check") /\ UNCHANGED <<vars, cookie, table, named, unread, leaving>>
  BY DEF CheckAnswered
<1>2. CASE calls[c].reply = Ok
  <2>1. calls' = [calls EXCEPT ![c] = Call(op, cookie')] /\ screen' = screen
    BY <1>2 DEF CheckAnswered, GoesOn
  <2>2. op \in {Load} \cup Sessions /\ ("check" \in {"toggle", "delete", "create"} => op = Load)
    BY DEF Sessions
  <2> HIDE DEF op
  <2>3. leaving' = leaving /\ "check" # "logout" /\ cookie' = cookie
    BY <1>1
  <2> QED BY <1>1, <2>1, <2>2, <2>3, CallGoesOn
<1>3. CASE calls[c].reply # Ok
  <2>1. calls' = [calls EXCEPT ![c] = NoCall] /\ screen' = "login"
    BY <1>3 DEF CheckAnswered, Ends
  <2> QED BY <1>1, <2>1, CallEnds
<1> QED BY <1>2, <1>3

\* A token comes with a login and takes the place of the one there was.
LEMMA LoginAnsweredStep ==
    ASSUME AdminInv, NEW c \in Calls, LoginAnswered(c)
    PROVE AdminInv'
<1> DEFINE op == [do |-> "info", after |-> "login"]
<1>1. IsAnswered(c, "login") /\ UNCHANGED <<vars, screen, table, named, unread>>
  BY DEF LoginAnswered
<1>2. CASE calls[c].reply = Refused
  <2>1. calls' = [calls EXCEPT ![c] = NoCall] /\ UNCHANGED <<cookie, leaving>>
    BY <1>2 DEF LoginAnswered, Ends
  <2> QED BY <1>1, <2>1, CallEnds
<1>3. CASE calls[c].reply # Refused
  <2>1. calls[c].reply.is = "claim"
    BY <1>1, <1>3, AnsweredIsDone, PlainReplies DEF CallOK
  <2>2. calls[c].reply.claim \in claims /\ calls[c].reply.claim \in Cookies
    BY <1>1, <2>1, AnsweredIsDone, PlainReplies DEF CallOK, Cookies
  <2>3. /\ cookie' = calls[c].reply.claim /\ leaving' = FALSE
        /\ calls' = [calls EXCEPT ![c] = Call(op, cookie')]
    BY <1>3 DEF LoginAnswered, GoesOn
  <2>4. op \in {Load} \cup Sessions /\ ("login" \in {"toggle", "delete", "create"} => op = Load)
    BY DEF Sessions
  <2> HIDE DEF op
  <2>5. cookie' \in claims \cap Cookies /\ leaving' = FALSE
    BY <2>2, <2>3
  <2> QED BY <1>1, <2>3, <2>4, <2>5, CallGoesOn
<1> QED BY <1>2, <1>3

\* A user that is no admin is denied: the logout that is sent for it takes the
\* token the browser has.
LEMMA InfoAnsweredStep ==
    ASSUME AdminInv, NEW c \in Calls, InfoAnswered(c)
    PROVE AdminInv'
<1> DEFINE op == [do |-> "logout", after |-> "denial"]
<1>1. IsAnswered(c, "info") /\ UNCHANGED <<vars, cookie, named, unread>>
  BY DEF InfoAnswered
<1>2. CASE calls[c].reply = Ok
  <2>1. /\ calls' = [calls EXCEPT ![c] = Call(Load, cookie')] /\ screen' = "app"
        /\ leaving' = leaving /\ table' = [is |-> "loading"]
    BY <1>2 DEF InfoAnswered, GoesOnLoading, GoesOn
  <2>2. leaving' = leaving /\ "info" # "logout" /\ cookie' = cookie
    BY <1>1, <2>1
  <2> QED BY <1>1, <2>1, <2>2, CallGoesOn
<1>3. CASE calls[c].reply # Ok /\ calls[c].op.after = "check"
  <2>1. calls' = [calls EXCEPT ![c] = NoCall] /\ screen' = "login" /\ UNCHANGED <<leaving, table>>
    BY <1>3 DEF InfoAnswered, Ends
  <2> QED BY <1>1, <2>1, CallEnds
<1>4. CASE calls[c].reply # Ok /\ calls[c].op.after # "check"
  <2>1. /\ calls' = [calls EXCEPT ![c] = Call(op, cookie')] /\ leaving' = TRUE
        /\ UNCHANGED <<screen, table>>
    BY <1>4 DEF InfoAnswered, Deny, GoesOn
  <2>2. /\ op \in {Load} \cup Sessions /\ op.do = "logout"
        /\ "info" \in {"toggle", "delete", "create"} => op = Load
    BY DEF Sessions
  <2> HIDE DEF op
  <2>3. leaving' = TRUE /\ op.do = "logout"
    BY <2>1, <2>2
  <2> QED BY <1>1, <2>1, <2>2, <2>3, CallGoesOn
<1> QED BY <1>2, <1>3, <1>4

LEMMA LogoutAnsweredStep ==
    ASSUME AdminInv, NEW c \in Calls, LogoutAnswered(c)
    PROVE AdminInv'
<1>1. /\ IsAnswered(c, "logout") /\ calls' = [calls EXCEPT ![c] = NoCall]
      /\ UNCHANGED <<vars, table, named, unread, leaving>>
      /\ cookie' = IF calls[c].reply = Ok THEN NoClaim ELSE cookie
      /\ screen' \in {screen, "login"}
  BY DEF LogoutAnswered, Ends
<1> QED BY <1>1, CallEnds

LEMMA LoadAnsweredStep ==
    ASSUME AdminInv, NEW c \in Calls, LoadAnswered(c)
    PROVE AdminInv'
<1>1. /\ IsAnswered(c, "load") /\ calls' = [calls EXCEPT ![c] = NoCall]
      /\ UNCHANGED <<vars, screen, cookie, named, unread, leaving>>
      /\ table' = IF calls[c].reply = Refused THEN [is |-> "failed"] ELSE calls[c].reply
  BY DEF LoadAnswered, Ends
<1>2. calls[c].reply = Refused \/ calls[c].reply.is = "rows"
  BY <1>1, AnsweredIsDone, PlainReplies DEF CallOK
<1>3. \/ table' = [is |-> "failed"]
      \/ table' \in UserLists /\ table'.rows \subseteq everUsers \X BOOLEAN
  BY <1>1, <1>2, AnsweredIsDone, PlainReplies DEF CallOK
<1> QED BY <1>1, <1>3, CallEnds

\* A change that was made goes on with a load.
LEMMA ChangeAnsweredStep ==
    ASSUME AdminInv, NEW c \in Calls, ChangeAnswered(c)
    PROVE AdminInv'
<1>1. PICK do \in {"toggle", "delete", "create"} : IsAnswered(c, do)
  BY DEF ChangeAnswered
<1>2. UNCHANGED <<vars, screen, cookie, named, unread, leaving>>
  BY DEF ChangeAnswered
<1>3. CASE calls[c].reply = Ok
  <2>1. calls' = [calls EXCEPT ![c] = Call(Load, cookie')] /\ table' = [is |-> "loading"]
    BY <1>3 DEF ChangeAnswered, Reload, GoesOnLoading, GoesOn
  <2> QED BY <1>1, <1>2, <2>1, CallGoesOn
<1>4. CASE calls[c].reply # Ok
  <2>1. calls' = [calls EXCEPT ![c] = NoCall] /\ table' = table
    BY <1>4 DEF ChangeAnswered, Ends
  <2> QED BY <1>1, <1>2, <1>4, <2>1, CallEnds
<1> QED BY <1>3, <1>4

\* A click, or Return, sends a session's call or a load.
LEMMA CallSent ==
    ASSUME AdminInv, NEW c \in Calls, NEW op \in {Load} \cup Sessions, Sends(c, op),
           UNCHANGED vars, UNCHANGED named, cookie' = cookie, unread' = unread,
           screen # "closed", screen' = screen,
           table' = table \/ table' = [is |-> "loading"],
           leaving' = leaving \/ (leaving' = TRUE /\ op.do = "logout")
    PROVE AdminInv'
<1>. PICK token : token = cookie
  OBVIOUS
<1>. PICK q : q = Call(op, token)
  OBVIOUS
<1>1. /\ token \in Cookies /\ token \in claims \cup {NoClaim}
      /\ screen \in {"blank", "login", "app"} /\ leaving \in BOOLEAN /\ unread \subseteq Calls
  BY DEF AdminInv, PageTypeOK, Known
<1>2. calls[c] = NoCall /\ calls' = [calls EXCEPT ![c] = q]
  BY DEF Sends
<1>3. ~ WantToggle(calls[c], named[1]) /\ ~ WillRead(calls[c]) /\ ~ WillLogOut(calls[c])
  BY <1>2 DEF WantToggle, WillRead, WillLogOut
<1>4. /\ q \in CallRecords /\ q # NoCall /\ CallOK(q)' /\ ~ WantToggle(q, named[1])
      /\ op.do = "logout" => WillLogOut(q)'
  BY <1>1, NewSession
<1>5. screen' \in {"blank", "login", "app"} /\ leaving' \in BOOLEAN
  BY <1>1
<1>6. /\ unread' \subseteq unread \cup {c} /\ c \notin unread'
      /\ leaving' => \/ cookie' = NoClaim
                     \/ q # NoCall /\ WillLogOut(q)'
                     \/ leaving /\ cookie' = cookie /\ ~ WillLogOut(calls[c])
  BY <1>3, <1>4, NothingUnread
<1>7. table' = table \/ table' \in [is : {"loading", "failed"}]
  OBVIOUS
<1> QED BY <1>2, <1>3, <1>4, <1>5, <1>6, <1>7, QuietStep

LEMMA ClickStep ==
    ASSUME AdminInv, NEW c \in Calls,
           ClickTab(c) \/ ClickLogout(c) \/ \E u \in Visitors : DoLogin(c, u)
    PROVE AdminInv'
<1>1. CASE ClickTab(c)
  <2>1. /\ Sends(c, Load) /\ screen = "app" /\ table' = [is |-> "loading"]
        /\ UNCHANGED <<vars, screen, cookie, named, unread, leaving>>
    BY <1>1 DEF ClickTab
  <2> QED BY <2>1, CallSent
<1>2. CASE ClickLogout(c)
  <2> DEFINE op == [do |-> "logout", after |-> "button"]
  <2>1. /\ Sends(c, op) /\ screen = "app" /\ leaving' = TRUE
        /\ UNCHANGED <<vars, screen, cookie, table, named, unread>>
    BY <1>2 DEF ClickLogout
  <2>2. op \in {Load} \cup Sessions /\ op.do = "logout"
    BY DEF Sessions
  <2> HIDE DEF op
  <2> QED BY <2>1, <2>2, CallSent
<1>3. ASSUME NEW u \in Visitors, DoLogin(c, u) PROVE AdminInv'
  <2> DEFINE op == [do |-> "login", user |-> u]
  <2>1. /\ Sends(c, op) /\ screen = "login"
        /\ UNCHANGED <<vars, screen, cookie, table, named, unread, leaving>>
    BY <1>3 DEF DoLogin
  <2>2. op \in {Load} \cup Sessions
    BY AdminPageAssumption DEF Sessions
  <2> HIDE DEF op
  <2> QED BY <2>1, <2>2, CallSent
<1> QED BY <1>1, <1>2, <1>3

\* The page finds the browser with a token of the server's, or with none.
LEMMA OpenPageStep ==
    ASSUME AdminInv, NEW c \in Calls, OpenPage(c)
    PROVE AdminInv'
<1> DEFINE op == [do |-> "check"]
<1>. PICK token : token = cookie'
  OBVIOUS
<1>. PICK q : q = Call(op, token)
  OBVIOUS
<1>1. /\ calls[c] = NoCall /\ unread = {} /\ ~ leaving /\ screen' = "blank"
      /\ UNCHANGED <<vars, table, named, unread, leaving>>
  BY DEF OpenPage, AdminInv, ClosedIsIdle
<1>2. token \in Cookies /\ token \in claims \cup {NoClaim}
  BY DEF OpenPage, AdminInv, Inv, TypeOK, Cookies
<1>3. calls' = [calls EXCEPT ![c] = q] /\ op \in Sessions
  BY DEF OpenPage, GoesOn, Sessions
<1> HIDE DEF op
<1>4. q \in CallRecords /\ q # NoCall /\ CallOK(q)' /\ ~ WantToggle(q, named[1])
  BY <1>1, <1>2, <1>3, NewSession
<1>5. ~ WantToggle(calls[c], named[1])
  BY <1>1 DEF WantToggle
<1>6. unread' = {} /\ ~ leaving' /\ leaving' \in BOOLEAN
  BY <1>1 DEF AdminInv, PageTypeOK
<1>7. cookie' \in (claims \cap Cookies) \cup {NoClaim}
  BY <1>2
<1> QED BY <1>1, <1>3, <1>4, <1>5, <1>6, <1>7, QuietStep

\* Of clicks that want different things nothing is named; otherwise all that wait
\* want what the last one said.
LEMMA ClickChangeStep ==
    ASSUME AdminInv, NEW c \in Calls, NEW op \in Changes, ClickChange(c, op)
    PROVE AdminInv'
<1>. PICK token : token = cookie
  OBVIOUS
<1>. PICK q : q = Call(op, token)
  OBVIOUS
<1>1. /\ calls[c] = NoCall /\ calls' = [calls EXCEPT ![c] = q] /\ screen = "app" /\ Offered(op)
      /\ UNCHANGED <<vars, screen, cookie, table, unread, leaving>>
      /\ named' = IF op.do # "toggle" THEN named
                  ELSE IF Undecided(op) THEN NoClaim ELSE <<op.user, op.isAdmin>>
  BY DEF ClickChange, Sends
<1>2. /\ q \in CallRecords /\ q # NoCall /\ q.op = op /\ q.cookie = token /\ q.reply.is = "none"
      /\ token \in claims \cup {NoClaim} /\ leaving \in BOOLEAN /\ unread \subseteq Calls
  BY NewCall DEF AdminInv, PageTypeOK, Known
<1>3. UNCHANGED <<users, admins, claims, everUsers>>
  BY <1>1 DEF vars
<1>4. CallOK(q)'
  BY <1>2, <1>3 DEF CallOK
<1>5. ~ WillRead(calls[c]) /\ ~ WillLogOut(calls[c])
  BY <1>1 DEF WillRead, WillLogOut
<1>6. op.do = "toggle" =>
         op.user \in everUsers /\ op.user \in Accounts /\ op.isAdmin \in BOOLEAN
  <2>1. op.do = "toggle" => <<op.user, ~ op.isAdmin>> \in table.rows /\ table.is = "rows"
    BY <1>1 DEF Offered
  <2> QED BY <2>1, OpsByName DEF AdminInv, Known
<1>7. \/ named' = named
      \/ /\ named' \in (Accounts \X BOOLEAN) \cup {NoClaim}
         /\ named' # NoClaim => named'[1] \in everUsers'
  BY <1>1, <1>3, <1>6
<1>8. PageTypeOK' /\ Known' /\ ClosedIsIdle'
  BY <1>1, <1>2, <1>3, <1>4, <1>7, OneCall
<1>9. WillBeRead' /\ WillBeLoggedOut'
  BY <1>1, <1>5, NothingUnread, StillRead, StillLoggedOut
<1>10. NamedIsWanted'
  <2>1. CASE op.do # "toggle"
    <3>1. named' = named /\ ~ WantToggle(calls[c], named[1]) /\ ~ WantToggle(q, named[1])
      BY <1>1, <1>2, <2>1 DEF WantToggle
    <3> QED BY <1>1, <1>3, <3>1, StillNamed
  <2>2. CASE op.do = "toggle" /\ Undecided(op)
    BY <1>1, <2>2 DEF NamedIsWanted
  <2>3. CASE op.do = "toggle" /\ ~ Undecided(op)
    <3>1. named' = <<op.user, op.isAdmin>> /\ named'[1] = op.user /\ named'[2] = op.isAdmin
      BY <1>1, <2>3
    <3>2. calls' \in [Calls -> CallRecords \cup {NoCall}] /\ calls'[c] = q
      BY <1>1, <1>2 DEF AdminInv, PageTypeOK
    <3>3. WantToggle(q, op.user)
      BY <1>2, <2>3 DEF WantToggle
    <3>4. ASSUME NEW d \in Calls, WantToggle(calls'[d], op.user)
          PROVE  calls'[d].op.isAdmin = op.isAdmin
      <4>1. CASE d = c
        BY <1>2, <3>2, <4>1
      <4>2. CASE d # c
        <5>1. calls'[d] = calls[d]
          BY <1>1, <4>2 DEF AdminInv, PageTypeOK
        <5> QED BY <2>3, <3>4, <5>1 DEF Undecided, WantToggle, Waits, Toggles
      <4> QED BY <4>1, <4>2
    <3> QED BY <3>1, <3>2, <3>3, <3>4 DEF NamedIsWanted, WantToggle
  <2> QED BY <2>1, <2>2, <2>3
<1>11. Inv'
  BY <1>1, StepInv DEF AdminInv
<1> QED BY <1>8, <1>9, <1>10, <1>11 DEF AdminInv, Promises

\* With a lost call goes what it was to bring about.
LEMMA CallLostStep ==
    ASSUME AdminInv, NEW c \in Calls, CallLost(c)
    PROVE AdminInv'
<1>. PICK q : q = NoCall
  OBVIOUS
<1>. PICK op : op = calls[c].op
  OBVIOUS
<1>1. /\ calls' = [calls EXCEPT ![c] = q] /\ UNCHANGED <<vars, screen, cookie, table>>
      /\ unread' = unread \ {c}
      /\ named' = (IF op.do = "toggle" THEN Forgotten(op.user) ELSE named)
      /\ leaving' = (leaving /\ op.do # "logout")
  BY DEF CallLost, Ends
<1>2. /\ calls[c] \in CallRecords /\ screen # "closed" /\ op \in Changes \cup {Load} \cup Sessions
  BY CallsUnderWay DEF CallLost
<1>3. /\ screen \in {"blank", "login", "app"} /\ leaving' \in BOOLEAN /\ unread' \subseteq Calls
  BY <1>1, <1>2 DEF AdminInv, PageTypeOK
<1>4. UNCHANGED <<users, admins, claims, everUsers>>
  BY <1>1 DEF vars
<1>5. named' = named \/ named' = NoClaim
  BY <1>1 DEF Forgotten
<1>6. PageTypeOK' /\ Known' /\ ClosedIsIdle'
  BY <1>1, <1>3, <1>4, <1>5, OneCall
<1>7. WillLogOut(calls[c]) => op.do = "logout"
  BY DEF WillLogOut
<1>8. WillBeRead' /\ WillBeLoggedOut'
  BY <1>1, <1>7, StillRead, StillLoggedOut
<1>9. /\ named' # NoClaim => named' = named /\ ~ WantToggle(calls[c], named[1])
      /\ ~ WantToggle(q, named[1])
  BY <1>1 DEF Forgotten, Names, WantToggle
<1>10. NamedIsWanted'
  BY <1>1, <1>4, <1>9, StillNamed
<1>11. Inv'
  BY <1>1, StepInv DEF AdminInv
<1> QED BY <1>6, <1>8, <1>10, <1>11 DEF AdminInv, Promises

LEMMA ClosePageStep ==
    ASSUME AdminInv, ClosePage
    PROVE AdminInv'
<1>1. /\ screen' = "closed" /\ calls' = [c \in Calls |-> NoCall] /\ table' = [is |-> "empty"]
      /\ named' = NoClaim /\ unread' = {} /\ leaving' = FALSE /\ UNCHANGED <<vars, cookie>>
  BY DEF ClosePage
<1>2. UNCHANGED <<claims, everUsers>> /\ Inv'
  BY <1>1, StepInv DEF vars, AdminInv
<1>3. PageTypeOK'
  BY <1>1 DEF AdminInv, PageTypeOK
<1>4. Known' /\ ClosedIsIdle'
  BY <1>1, <1>2 DEF AdminInv, Known, ClosedIsIdle
<1>5. Promises'
  BY <1>1 DEF Promises, WillBeRead, NamedIsWanted, WillBeLoggedOut
<1> QED BY <1>2, <1>3, <1>4, <1>5 DEF AdminInv

\* The calls under way lose their tokens, and change in nothing else.
LEMMA CookieExpiresStep ==
    ASSUME AdminInv, CookieExpires
    PROVE AdminInv'
<1>1. /\ cookie' = NoClaim /\ UNCHANGED <<vars, screen, table, named, unread, leaving>>
      /\ calls' = [c \in Calls |-> IF calls[c] = NoCall THEN NoCall
                                   ELSE [calls[c] EXCEPT !.cookie = NoClaim]]
  BY DEF CookieExpires
<1>2. UNCHANGED <<users, admins, claims, everUsers>> /\ Inv'
  BY <1>1, StepInv DEF vars, AdminInv
<1>3. ASSUME NEW c \in Calls
      PROVE  /\ calls[c] = NoCall => calls'[c] = NoCall
             /\ calls[c] # NoCall =>
                  /\ calls'[c] \in CallRecords /\ calls'[c] # NoCall
                  /\ calls'[c].op = calls[c].op /\ calls'[c].reply = calls[c].reply
                  /\ calls'[c].cookie = NoClaim
  <2>1. CASE calls[c] = NoCall
    BY <1>1, <2>1
  <2>2. CASE calls[c] # NoCall
    <3>1. calls[c] \in CallRecords /\ calls'[c] = [calls[c] EXCEPT !.cookie = NoClaim]
      BY <1>1, <2>2, CallsUnderWay
    <3>2. /\ calls'[c] \in CallRecords /\ calls'[c].cookie = NoClaim
          /\ calls'[c].op = calls[c].op /\ calls'[c].reply = calls[c].reply
      BY <3>1 DEF CallRecords, Cookies
    <3> QED BY <2>2, <3>2, AdminPageAssumption
  <2> QED BY <2>1, <2>2
<1>4. PageTypeOK'
  <2>1. calls' \in [Calls -> CallRecords \cup {NoCall}]
    BY <1>1, <1>3
  <2> QED BY <1>1, <2>1 DEF AdminInv, PageTypeOK, Cookies
<1>5. \A c \in Calls : calls'[c] # NoCall => CallOK(calls[c])'
  BY <1>2, <1>3, CallsUnderWay DEF CallOK
<1>6. Known' /\ ClosedIsIdle'
  BY <1>1, <1>2, <1>3, <1>5 DEF AdminInv, Known, ClosedIsIdle
<1>7. \A c \in Calls : /\ WillRead(calls'[c]) <=> WillRead(calls[c])
                       /\ \A u : WantToggle(calls'[c], u) <=> WantToggle(calls[c], u)
  BY <1>3 DEF WillRead, WantToggle
<1>8. NamedIsWanted'
  <2> SUFFICES ASSUME named # NoClaim PROVE NamedIsWanted'
    BY <1>1 DEF NamedIsWanted
  <2>1. /\ \A c \in Calls : WantToggle(calls[c], named[1]) => calls[c].op.isAdmin = named[2]
        /\ \/ named[1] \notin users
           \/ \E c \in Calls : WantToggle(calls[c], named[1])
           \/ (named[1] \in admins) = named[2]
    BY DEF AdminInv, Promises, NamedIsWanted
  <2>2. \A c \in Calls : WantToggle(calls[c], named[1]) => calls'[c].op = calls[c].op
    BY <1>3 DEF WantToggle
  <2>3. \A c \in Calls : WantToggle(calls'[c], named[1]) => calls'[c].op.isAdmin = named[2]
    BY <1>7, <2>1, <2>2
  <2>4. \/ named[1] \notin users
        \/ \E c \in Calls : WantToggle(calls'[c], named[1])
        \/ (named[1] \in admins) = named[2]
    BY <1>7, <2>1
  <2> QED BY <1>1, <1>2, <2>3, <2>4 DEF NamedIsWanted, WantToggle
<1>9. WillBeRead' /\ WillBeLoggedOut'
  BY <1>1, <1>7 DEF AdminInv, PageTypeOK, Promises, WillBeRead, WillBeLoggedOut, WillRead
<1> QED BY <1>2, <1>4, <1>6, <1>8, <1>9 DEF AdminInv, Promises

\* What others do: the page's calls and what it shows stay, and so do its
\* promises about users that keep their rights.
LEMMA OthersStep ==
    ASSUME AdminInv, Inv', claims \subseteq claims', everUsers \subseteq everUsers',
           UNCHANGED <<screen, cookie, calls, table, unread, leaving>>,
           named' = named \/ named' = NoClaim,
           named' # NoClaim => (named[1] \in users' =>
                                    /\ named[1] \in users
                                    /\ named[1] \in admins' <=> named[1] \in admins)
    PROVE AdminInv'
<1>1. PageTypeOK'
  BY DEF AdminInv, PageTypeOK
<1>2. \A c \in Calls : calls[c] # NoCall => CallOK(calls[c])'
  BY DEF AdminInv, Known, CallOK
<1>3. Known' /\ ClosedIsIdle'
  BY <1>2 DEF AdminInv, Known, ClosedIsIdle
<1>4. WillBeRead' /\ WillBeLoggedOut'
  BY DEF AdminInv, Promises, WillBeRead, WillBeLoggedOut, WillRead, WillLogOut
<1>5. NamedIsWanted'
  BY DEF AdminInv, Promises, NamedIsWanted, WantToggle
<1> QED BY <1>1, <1>3, <1>4, <1>5 DEF AdminInv, Promises

LEMMA OthersLogInStep ==
    ASSUME AdminInv, OthersLogIn, Inv', claims \subseteq claims', everUsers \subseteq everUsers'
    PROVE AdminInv'
<1>1. UNCHANGED adminVars /\ UNCHANGED <<users, admins>>
  BY DEF OthersLogIn, LogIn
<1> QED BY <1>1, OthersStep DEF adminVars

\* Whom another admin changes, the page is no longer held to; a new account is
\* nobody the page has named.
LEMMA OthersChangeStep ==
    ASSUME AdminInv, NEW a \in Accounts, NEW op \in Changes, OthersChange(a, op),
           Inv', claims \subseteq claims', everUsers \subseteq everUsers'
    PROVE AdminInv'
<1>1. /\ UNCHANGED <<screen, cookie, calls, table, unread, leaving>> /\ Obey(a, op)
      /\ named' = IF op.do \in {"toggle", "delete"} THEN Forgotten(op.user) ELSE named
  BY DEF OthersChange
<1>2. named' = named \/ named' = NoClaim
  BY <1>1 DEF Forgotten
<1>3. ASSUME named' # NoClaim, named[1] \in users'
      PROVE  named[1] \in users /\ (named[1] \in admins' <=> named[1] \in admins)
  <2>1. named = named' /\ named[1] \in everUsers
    BY <1>2, <1>3 DEF AdminInv, Known
  <2>2. op.do \in {"toggle", "delete"} => op.user # named[1]
    BY <1>1, <1>3, <2>1 DEF Forgotten, Names
  <2> QED BY <1>1, <1>3, <2>1, <2>2 DEF Obey, ToggleAdmin, DeleteUser, CreateUser, Stored
<1> QED BY <1>1, <1>2, <1>3, OthersStep

LEMMA AdminNextInv == AdminInv /\ [PageNext]_pageVars => AdminInv'
<1> SUFFICES ASSUME AdminInv, [PageNext]_pageVars PROVE AdminInv'
  OBVIOUS
<1>1. Inv' /\ claims \subseteq claims' /\ everUsers \subseteq everUsers'
  BY PageStepIsAStep, EverUsersGrow, StepInv DEF AdminInv
<1>2. ASSUME NEW c \in Calls,
             \/ HandleLoad(c) \/ HandleChange(c) \/ RefuseChange(c)
             \/ HandleLogin(c) \/ HandleSession(c)
      PROVE  AdminInv'
  BY <1>1, <1>2, HandleLoadStep, HandleChangeStep, RefuseChangeStep, HandleLoginStep,
     HandleSessionStep
<1>3. ASSUME NEW c \in Calls,
             \/ CheckAnswered(c) \/ LoginAnswered(c) \/ InfoAnswered(c) \/ LogoutAnswered(c)
             \/ LoadAnswered(c) \/ ChangeAnswered(c) \/ CallLost(c)
      PROVE  AdminInv'
  BY <1>3, CheckAnsweredStep, LoginAnsweredStep, InfoAnsweredStep, LogoutAnsweredStep,
     LoadAnsweredStep, ChangeAnsweredStep, CallLostStep
<1>4. ASSUME NEW c \in Calls,
             \/ OpenPage(c) \/ ClickTab(c) \/ ClickLogout(c)
             \/ \E u \in Visitors : DoLogin(c, u)
             \/ \E op \in Changes : ClickChange(c, op)
      PROVE  AdminInv'
  BY <1>4, OpenPageStep, ClickStep, ClickChangeStep
<1>5. CASE ClosePage \/ CookieExpires \/ OthersLogIn
  BY <1>1, <1>5, ClosePageStep, CookieExpiresStep, OthersLogInStep
<1>6. ASSUME NEW a \in Accounts, NEW op \in Changes, OthersChange(a, op)
      PROVE  AdminInv'
  BY <1>1, <1>6, OthersChangeStep
<1>7. CASE UNCHANGED pageVars
  BY <1>1, <1>7, OthersStep DEF pageVars, adminVars, vars
<1> QED BY <1>2, <1>3, <1>4, <1>5, <1>6, <1>7, Zenon DEF PageNext

LEMMA AdminInvariance == PageSpec => []AdminInv
<1> QED BY AdminInitInv, AdminNextInv, PTL DEF PageSpec

-----------------------------------------------------------------------------
\* Whatever the admin page and the other admins do, in whatever order calls are
\* answered or lost, the server goes through a behaviour of Accounts
\* (admin.js:65-236, user.js:165-339).
THEOREM PageImplementsAccounts == PageSpec => Spec
<1>1. PageInit => Init
  BY DEF PageInit
<1>2. AdminInv /\ [PageNext]_pageVars => [Next]_vars
  BY PageStepIsAStep
<1> QED BY <1>1, <1>2, AdminInvariance, PTL DEF PageSpec, Spec

\* Limits are kept, invites have creators, and the last admin is lost to a stale
\* token only, under the admin page too (inviteService.js:18-36, schema.sql:17,
\* user.js:259-261, 330-332).
THEOREM PageKeepsAccounts ==
    PageSpec => [](LimitKept /\ InviteHasCreator /\ UsedAsShown) /\ LastAdminLostOnlyToStaleClaim
<1> QED BY PageImplementsAccounts, LimitIsKept, CreatorExists, UsedIsAsShown, LastAdminIsKept, PTL

\* What the page keeps between awaits stays of its type (admin.js:3-16, 65-103).
THEOREM AdminPageTypeCorrect == PageSpec => []PageTypeOK
<1>1. AdminInv => PageTypeOK
  BY DEF AdminInv
<1> QED BY <1>1, AdminInvariance, PTL

\* Every change made from the page has had a listing taken after it or is still to
\* be read by its own function, unless its own connection failed or its own reload
\* was refused (admin.js:123-130, 195-208, 212-236).
THEOREM OwnChangesAreRead == PageSpec => []OwnChangesRead
<1>1. AdminInv => OwnChangesRead
  <2> SUFFICES ASSUME AdminInv, NEW c \in unread PROVE StillToRead(c)
    BY DEF OwnChangesRead
  <2>1. c \in Calls /\ WillRead(calls[c])
    BY DEF AdminInv, PageTypeOK, Promises, WillBeRead
  <2>2. /\ calls[c] # NoCall /\ calls[c].reply \in Replies
        /\ calls[c].op \in Changes \cup {Load} \cup Sessions
    BY <2>1, CallsUnderWay DEF WillRead
  <2> QED BY <2>1, <2>2, OpsByName, PlainReplies DEF WillRead, StillToRead, Waits
<1> QED BY <1>1, AdminInvariance, PTL

\* A toggle makes of its user what its button said, however old the row and
\* however often it was clicked (admin.js:154-157, 171-173, 195-200,
\* user.js:321-339).
THEOREM ButtonsDoAsTheySay == PageSpec => []TogglesAsNamed
<1>1. AdminInv => TogglesAsNamed
  <2> SUFFICES ASSUME AdminInv, NEW u \in users, Names(u), ~ Toggling(u)
               PROVE  named = Claim(u)
    BY DEF TogglesAsNamed
  <2>1. named # NoClaim /\ named[1] = u /\ named \in Accounts \X BOOLEAN
    BY DEF Names, AdminInv, PageTypeOK
  <2>2. ~ \E c \in Calls : WantToggle(calls[c], u)
    BY DEF Toggling, Waits, Toggles, WantToggle
  <2>3. (u \in admins) = named[2]
    BY <2>1, <2>2 DEF AdminInv, Promises, NamedIsWanted
  <2>4. named = <<u, named[2]>>
    BY <2>1
  <2> QED BY <2>3, <2>4, Zenon DEF Claim
<1> QED BY <1>1, AdminInvariance, PTL

\* A page that shows its login again after a logout has a browser that is logged
\* out, whatever logins and denials overlapped (admin.js:65-103, user.js:105-111).
THEOREM LogoutsHold == PageSpec => []LoggedOutForGood
<1>1. AdminInv => LoggedOutForGood
  BY DEF AdminInv, Promises, WillBeLoggedOut, WillLogOut, LoggedOutForGood
<1> QED BY <1>1, AdminInvariance, PTL
=============================================================================
