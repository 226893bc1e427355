------------------------------ MODULE Accounts ------------------------------
(***************************************************************************)
(* Accounts, invites and who may administer them.                          *)
(*                                                                         *)
(*   services/inviteService.js   generate, validate, consume, delete       *)
(*   routes/user.js              register, createuser, deleteuser, ...     *)
(*   middleware/requireAdmin.js  the access token's isAdmin, not the row's *)
(*   services/cleanupService.js  pruneInvites                              *)
(*                                                                         *)
(* A handler is one step.  register stores the account and counts the      *)
(* invite's use in two commits, so a crash between them is one more step.  *)
(* An account here is a row's random id; that a user name is taken, like   *)
(* every other refusal, changes nothing and is left out.                   *)
(***************************************************************************)
EXTENDS Naturals, FiniteSets

CONSTANTS Accounts,            \* ids of users, each used once
          Root,                \* the seeded admin
          Keys,                \* invite keys, each used once
          Limits,              \* values of max_uses given out
          Unlimited,           \* max_uses NULL
          InvitationRequired,  \* NO_INVITATION is not 'true'
          NoInvite

Ages == {"valid", "expired", "old"}
Invites == [by : Accounts, max : Limits, uses : 0 .. Cardinality(Accounts),
            used : BOOLEAN, age : Ages]

ASSUME AccountsAssumption ==
    /\ IsFiniteSet(Accounts)
    /\ Root \in Accounts
    /\ Limits \subseteq (Nat \ {0}) \cup {Unlimited}
    /\ Unlimited \notin Nat
    /\ InvitationRequired \in BOOLEAN
    /\ NoInvite \notin Invites

VARIABLES
    users,        \* rows of users
    admins,       \* those whose is_admin is set
    claims,       \* unexpired access tokens: whose, and their isAdmin
    invites,      \* rows of invites
    everUsers,    \* history: ids given to an account, gone or not
    everKeys,     \* history: keys generated
    registered,   \* history: accounts registered with a key
    uncounted     \* history: those a crash kept from being counted

vars == <<users, admins, claims, invites, everUsers, everKeys, registered, uncounted>>

TypeOK ==
    /\ users \subseteq everUsers /\ everUsers \subseteq Accounts
    /\ admins \subseteq users
    /\ claims \subseteq everUsers \X BOOLEAN
    /\ invites \in [Keys -> Invites \cup {NoInvite}]
    /\ everKeys \subseteq Keys
    /\ registered \in [Keys -> SUBSET Accounts]
    /\ uncounted \in [Keys -> SUBSET Accounts]

Init ==
    /\ users = {Root}
    /\ admins = {Root}
    /\ claims = {}
    /\ invites = [k \in Keys |-> NoInvite]
    /\ everUsers = {Root}
    /\ everKeys = {}
    /\ registered = [k \in Keys |-> {}]
    /\ uncounted = [k \in Keys |-> {}]

history == <<everUsers, everKeys, registered, uncounted>>

-----------------------------------------------------------------------------
\* auth and requireAdmin: what the access token says, for as long as it lives.
ActsAsAdmin(a) == <<a, TRUE>> \in claims

Claim(u) == <<u, u \in admins>>

\* login, or a refresh.
LogIn(u) ==
    /\ u \in users
    /\ claims' = claims \cup {Claim(u)}
    /\ UNCHANGED <<users, admins, invites, history>>

ExpireClaim(claim) ==
    /\ claim \in claims
    /\ claims' = claims \ {claim}
    /\ UNCHANGED <<users, admins, invites, history>>

-----------------------------------------------------------------------------
(* Invites.                                                                *)

Exists(key) == invites[key] # NoInvite

\* mutant: the last use is not the last.
IsUsedUpLate(invite) == invite.max # Unlimited /\ invite.uses > invite.max

IsUsedUp(invite) == invite.max # Unlimited /\ invite.uses >= invite.max

ValidateInvite(key) ==
    Exists(key) /\ ~ IsUsedUp(invites[key]) /\ invites[key].age = "valid"

\* created_by refers to users: a deleted admin's token makes no invite.
GenerateInvite(a, key, max) ==
    /\ ActsAsAdmin(a)
    /\ a \in users
    /\ key \notin everKeys
    /\ invites' = [invites EXCEPT ![key] =
                      [by |-> a, max |-> max, uses |-> 0, used |-> FALSE, age |-> "valid"]]
    /\ everKeys' = everKeys \cup {key}
    /\ UNCHANGED <<users, admins, claims, everUsers, registered, uncounted>>

\* mutant: the old count is compared.
ConsumedLate(invite) ==
    [invite EXCEPT !.uses = @ + 1,
                   !.used = @ \/ (invite.max # Unlimited /\ invite.uses >= invite.max)]

Consumed(invite) ==
    [invite EXCEPT !.uses = @ + 1,
                   !.used = @ \/ (invite.max # Unlimited /\ invite.uses + 1 >= invite.max)]

\* The UPDATE finds the key's row or changes nothing.
ConsumeInvite(key) ==
    invites' = IF Exists(key) THEN [invites EXCEPT ![key] = Consumed(@)] ELSE invites

DeleteInvite(a, key) ==
    /\ ActsAsAdmin(a)
    /\ Exists(key)
    /\ invites' = [invites EXCEPT ![key] = NoInvite]
    /\ UNCHANGED <<users, admins, claims, history>>

\* Its hours pass, then the 30 days it stays listed.
AgeInvite(key) ==
    /\ Exists(key)
    /\ invites[key].age # "old"
    /\ invites' = [invites EXCEPT ![key].age = IF @ = "valid" THEN "expired" ELSE "old"]
    /\ UNCHANGED <<users, admins, claims, history>>

PruneInvites ==
    /\ invites' = [k \in Keys |->
                     IF Exists(k) /\ invites[k].age = "old" THEN NoInvite ELSE invites[k]]
    /\ UNCHANGED <<users, admins, claims, history>>

-----------------------------------------------------------------------------
(* Accounts.                                                               *)

Stored(u) ==
    /\ u \notin everUsers
    /\ users' = users \cup {u}
    /\ everUsers' = everUsers \cup {u}

MayRegister(key) == InvitationRequired => ValidateInvite(key)

Register(u, key) ==
    /\ MayRegister(key)
    /\ Stored(u)
    /\ ConsumeInvite(key)
    /\ claims' = claims \cup {<<u, FALSE>>}
    /\ registered' = [registered EXCEPT ![key] = @ \cup {u}]
    /\ UNCHANGED <<admins, everKeys, uncounted>>

\* The process ends after the account is stored: the key's use is not counted,
\* and trying again finds the user name taken.
RegisterCrash(u, key) ==
    /\ MayRegister(key)
    /\ Stored(u)
    /\ registered' = [registered EXCEPT ![key] = @ \cup {u}]
    /\ uncounted' = [uncounted EXCEPT ![key] = @ \cup {u}]
    /\ UNCHANGED <<admins, claims, invites, everKeys>>

CreateUser(a, u, isAdmin) ==
    /\ ActsAsAdmin(a)
    /\ Stored(u)
    /\ admins' = IF isAdmin THEN admins \cup {u} ELSE admins
    /\ UNCHANGED <<claims, invites, everKeys, registered, uncounted>>

\* mutant: without ON DELETE CASCADE.
KeptInvites(u) == invites

\* created_by REFERENCES users(id) ON DELETE CASCADE
CascadedInvites(u) ==
    [k \in Keys |-> IF Exists(k) /\ invites[k].by = u THEN NoInvite ELSE invites[k]]

DeleteUser(a, u) ==
    /\ ActsAsAdmin(a)
    /\ u # a
    /\ u \in users
    /\ users' = users \ {u}
    /\ admins' = admins \ {u}
    /\ invites' = CascadedInvites(u)
    /\ UNCHANGED <<claims, history>>

\* mutant: an admin may change its own status.
ToggleAdminSelf(a, u, isAdmin) ==
    /\ ActsAsAdmin(a)
    /\ u \in users
    /\ admins' = IF isAdmin THEN admins \cup {u} ELSE admins \ {u}
    /\ UNCHANGED <<users, claims, invites, history>>

ToggleAdmin(a, u, isAdmin) ==
    /\ ActsAsAdmin(a)
    /\ u # a
    /\ u \in users
    /\ admins' = IF isAdmin THEN admins \cup {u} ELSE admins \ {u}
    /\ UNCHANGED <<users, claims, invites, history>>

-----------------------------------------------------------------------------
Next ==
    \/ \E u \in Accounts : LogIn(u)
    \/ \E claim \in claims : ExpireClaim(claim)
    \/ \E key \in Keys :
          \/ AgeInvite(key)
          \/ \E u \in Accounts : Register(u, key) \/ RegisterCrash(u, key)
          \/ \E a \in Accounts : DeleteInvite(a, key)
          \/ \E a \in Accounts, max \in Limits : GenerateInvite(a, key, max)
    \/ PruneInvites
    \/ \E a, u \in Accounts :
          \/ DeleteUser(a, u)
          \/ \E isAdmin \in BOOLEAN : CreateUser(a, u, isAdmin) \/ ToggleAdmin(a, u, isAdmin)

Spec == Init /\ [][Next]_vars

-----------------------------------------------------------------------------
(* Properties.                                                             *)

\* A key registers no more accounts than its limit, apart from those whose
\* registration a crash stopped before the use was counted; deleted accounts do
\* not give their use back (inviteService.js:18-36, user.js:146-165).
LimitKept ==
    InvitationRequired =>
        \A key \in Keys :
            Exists(key) /\ invites[key].max # Unlimited
                => Cardinality(registered[key] \ uncounted[key]) <= invites[key].max

\* The `used` an admin is shown agrees with what registration checks, though one
\* is stored and the other computed, also after uses that were not counted
\* (inviteService.js:18-36).
UsedAsShown ==
    \A key \in Keys : Exists(key) => (invites[key].used <=> IsUsedUp(invites[key]))

\* Every invite belongs to an account that still exists, also when a deleted
\* admin's access token is still good (schema.sql:17, user.js:188-204, 252-266).
InviteHasCreator == \A key \in Keys : Exists(key) => invites[key].by \in users

\* The last admin is never lost to an admin, only to an access token that still
\* says admin of an account that is not one any more (user.js:259-261, 330-332,
\* requireAdmin.js:4).
LastAdminLostOnlyToStaleClaim ==
    [][admins # {} /\ admins' = {} => \E a \in Accounts \ admins : ActsAsAdmin(a)]_vars
=============================================================================
