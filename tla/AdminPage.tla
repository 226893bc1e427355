------------------------------ MODULE AdminPage ------------------------------
(***************************************************************************)
(* The admin page in one browser (static/client-admin/admin.js) over       *)
(* Accounts, which other admins change meanwhile.                          *)
(*                                                                         *)
(* Every button awaits a call and goes on when it is answered; nothing     *)
(* keeps the user from starting another meanwhile.  A call carries the     *)
(* cookie of the moment it is sent, the server handles it in one step, and *)
(* calls may overtake one another.  One whose connection fails is not      *)
(* caught: its function ends there.                                        *)
(*                                                                         *)
(* The list of users fits on one page here.  The invites' tab, which works *)
(* like the users', and the form that resets a password, which changes     *)
(* nothing the page shows, are left out; so is that a button is disabled   *)
(* for good when its call fails.  Registrations change the list as other   *)
(* admins' new accounts do.                                                *)
(***************************************************************************)
EXTENDS Accounts

CONSTANTS Visitors,            \* who logs in at this browser
          Calls,               \* bound: calls under way
          NoCall, NoClaim

VARIABLES
    screen,    \* "closed", "blank" until init() knows, "login", or "app"
    cookie,    \* the browser's access token
    calls,     \* calls sent and not yet answered
    table,     \* what users-tbody shows
    named,     \* history: what the last toggle clicked was to make of its user
    unread,    \* history: calls whose change no listing of the users came after
    leaving    \* history: the cookie was to go, and no login came since

adminVars == <<screen, cookie, calls, table, named, unread, leaving>>
pageVars == <<vars, adminVars>>

Cookies == (Accounts \X BOOLEAN) \cup {NoClaim}
UserLists == [is : {"rows"}, rows : SUBSET (Accounts \X BOOLEAN)]

Changes == [do : {"toggle"}, user : Accounts, isAdmin : BOOLEAN]
           \cup [do : {"delete"}, user : Accounts]
           \cup [do : {"create"}]
Load == [do |-> "load"]
Sessions == [do : {"login"}, user : Accounts]
            \cup [do : {"check"}]
            \cup [do : {"info"}, after : {"check", "login"}]
            \cup [do : {"logout"}, after : {"button", "denial"}]

Replies == [is : {"none", "ok", "refused"}]
           \cup [is : {"claim"}, claim : Accounts \X BOOLEAN]
           \cup UserLists
CallRecords == [op : Changes \cup {Load} \cup Sessions, cookie : Cookies, reply : Replies]

ASSUME AdminPageAssumption ==
    /\ Visitors \subseteq Accounts
    /\ NoClaim \notin Accounts \X BOOLEAN
    /\ NoCall \notin CallRecords

PageTypeOK ==
    /\ screen \in {"closed", "blank", "login", "app"}
    /\ cookie \in Cookies
    /\ calls \in [Calls -> CallRecords \cup {NoCall}]
    /\ table \in [is : {"empty", "loading", "failed"}] \cup UserLists
    /\ named \in (Accounts \X BOOLEAN) \cup {NoClaim}
    /\ unread \subseteq Calls
    /\ leaving \in BOOLEAN

-----------------------------------------------------------------------------
Ok == [is |-> "ok"]
Refused == [is |-> "refused"]

Call(op, token) == [op |-> op, cookie |-> token, reply |-> [is |-> "none"]]

\* api(): the call takes a slot.
Sends(c, op) ==
    /\ calls[c] = NoCall
    /\ calls' = [calls EXCEPT ![c] = Call(op, cookie)]

\* The answer to c has been awaited and what follows it sends the next call.
GoesOn(c, op) == calls' = [calls EXCEPT ![c] = Call(op, cookie')]
GoesOnLoading(c) == GoesOn(c, Load) /\ table' = [is |-> "loading"]
Ends(c) == calls' = [calls EXCEPT ![c] = NoCall]

IsAnswered(c, do) ==
    calls[c] # NoCall /\ calls[c].op.do = do /\ calls[c].reply.is # "none"

PageInit ==
    /\ Init
    /\ screen = "closed"
    /\ cookie = NoClaim
    /\ calls = [c \in Calls |-> NoCall]
    /\ table = [is |-> "empty"]
    /\ named = NoClaim
    /\ unread = {}
    /\ leaving = FALSE

-----------------------------------------------------------------------------
(* The server's part.                                                      *)

Waits(c) == calls[c] # NoCall /\ calls[c].reply.is = "none"
Replied(c, reply) == calls' = [calls EXCEPT ![c].reply = reply]

\* auth, then requireAdmin.
IsLoggedIn(c) == calls[c].cookie \in claims
IsAdmin(c) == IsLoggedIn(c) /\ calls[c].cookie[2]
By(c) == calls[c].cookie[1]

\* History: named is about u; nobody holds the page to it any more.
Names(u) == named # NoClaim /\ named[1] = u
Forgotten(u) == IF Names(u) THEN NoClaim ELSE named

Listing == [is |-> "rows", rows |-> {Claim(u) : u \in users}]

\* A listing has all changes in it; with a refusal the change before it is given up.
HandleLoad(c) ==
    /\ Waits(c)
    /\ calls[c].op = Load
    /\ Replied(c, IF IsAdmin(c) THEN Listing ELSE Refused)
    /\ unread' = IF IsAdmin(c) THEN {} ELSE unread \ {c}
    /\ UNCHANGED <<vars, screen, cookie, table, named, leaving>>

\* mutant: toggling is the server's business.
ObeyFlipping(a, op) ==
    \/ op.do = "toggle" /\ ToggleAdmin(a, op.user, op.user \notin admins)
    \/ op.do = "delete" /\ DeleteUser(a, op.user)
    \/ op.do = "create" /\ \E u \in Accounts, isAdmin \in BOOLEAN : CreateUser(a, u, isAdmin)

\* What the route does for account a.
Obey(a, op) ==
    \/ op.do = "toggle" /\ ToggleAdmin(a, op.user, op.isAdmin)
    \/ op.do = "delete" /\ DeleteUser(a, op.user)
    \/ op.do = "create" /\ \E u \in Accounts, isAdmin \in BOOLEAN : CreateUser(a, u, isAdmin)

\* The user is gone or the caller itself; the new user's name is taken.
Objects(a, op) == op.do # "create" => op.user = a \/ op.user \notin users

HandleChange(c) ==
    /\ Waits(c)
    /\ calls[c].op \in Changes
    /\ IsAdmin(c)
    /\ Obey(By(c), calls[c].op)
    /\ Replied(c, Ok)
    /\ unread' = unread \cup {c}
    /\ UNCHANGED <<screen, cookie, table, named, leaving>>

RefuseChange(c) ==
    /\ Waits(c)
    /\ calls[c].op \in Changes
    /\ IsAdmin(c) => Objects(By(c), calls[c].op)
    /\ Replied(c, Refused)
    /\ named' = IF calls[c].op.do = "toggle"
                THEN Forgotten(calls[c].op.user) ELSE named
    /\ UNCHANGED <<vars, screen, cookie, table, unread, leaving>>

\* The password may be wrong.
HandleLogin(c) ==
    /\ Waits(c)
    /\ calls[c].op.do = "login"
    /\ \/ LogIn(calls[c].op.user) /\ Replied(c, [is |-> "claim", claim |-> Claim(calls[c].op.user)])
       \/ Replied(c, Refused) /\ UNCHANGED vars
    /\ UNCHANGED <<screen, cookie, table, named, unread, leaving>>

\* userinfo tells what the row says, not the token.
HandleSession(c) ==
    /\ Waits(c)
    /\ calls[c].op.do \in {"check", "info", "logout"}
    /\ Replied(c, IF IsLoggedIn(c) /\ (calls[c].op.do = "info" => By(c) \in admins)
                  THEN Ok ELSE Refused)
    /\ UNCHANGED <<vars, screen, cookie, table, named, unread, leaving>>

Toggles(c, u) == calls[c].op.do = "toggle" /\ calls[c].op.user = u
Toggling(u) == \E c \in Calls : Waits(c) /\ Toggles(c, u)

-----------------------------------------------------------------------------
(* The page's part.                                                        *)

\* init(), in a browser that may be logged in.
OpenPage(c) ==
    /\ screen = "closed"
    /\ screen' = "blank"
    /\ cookie' \in {claim \in claims : claim[1] \in Visitors} \cup {NoClaim}
    /\ GoesOn(c, [do |-> "check"])
    /\ UNCHANGED <<vars, table, named, unread, leaving>>

ClosePage ==
    /\ screen # "closed"
    /\ screen' = "closed"
    /\ calls' = [c \in Calls |-> NoCall]
    /\ table' = [is |-> "empty"]
    /\ named' = NoClaim
    /\ unread' = {}
    /\ leaving' = FALSE
    /\ UNCHANGED <<vars, cookie>>

CheckAnswered(c) ==
    /\ IsAnswered(c, "check")
    /\ UNCHANGED cookie
    /\ IF calls[c].reply = Ok
       THEN GoesOn(c, [do |-> "info", after |-> "check"]) /\ UNCHANGED screen
       ELSE Ends(c) /\ screen' = "login"
    /\ UNCHANGED <<vars, table, named, unread, leaving>>

\* Return in the password field does it too while the button is disabled.
DoLogin(c, u) ==
    /\ screen = "login"
    /\ Sends(c, [do |-> "login", user |-> u])
    /\ UNCHANGED <<vars, screen, cookie, table, named, unread, leaving>>

LoginAnswered(c) ==
    /\ IsAnswered(c, "login")
    /\ IF calls[c].reply = Refused
       THEN Ends(c) /\ UNCHANGED <<cookie, leaving>>
       ELSE /\ cookie' = calls[c].reply.claim
            /\ GoesOn(c, [do |-> "info", after |-> "login"])
            /\ leaving' = FALSE
    /\ UNCHANGED <<vars, screen, table, named, unread>>

\* mutant: a user that is no admin is only told so.
DenyAndStay(c) == Ends(c) /\ leaving' = TRUE

\* A user that is no admin is logged out again.
Deny(c) == GoesOn(c, [do |-> "logout", after |-> "denial"]) /\ leaving' = TRUE

InfoAnswered(c) ==
    /\ IsAnswered(c, "info")
    /\ UNCHANGED cookie
    /\ IF calls[c].reply = Ok
       THEN /\ screen' = "app"
            /\ GoesOnLoading(c)
            /\ UNCHANGED leaving
       ELSE /\ UNCHANGED table
            /\ IF calls[c].op.after = "check"
               THEN Ends(c) /\ screen' = "login" /\ UNCHANGED leaving
               ELSE Deny(c) /\ UNCHANGED screen
    /\ UNCHANGED <<vars, named, unread>>

ClickLogout(c) ==
    /\ screen = "app"
    /\ Sends(c, [do |-> "logout", after |-> "button"])
    /\ leaving' = TRUE
    /\ UNCHANGED <<vars, screen, cookie, table, named, unread>>

\* The answer takes the cookie along, unless the server knew none.
LogoutAnswered(c) ==
    /\ IsAnswered(c, "logout")
    /\ Ends(c)
    /\ cookie' = IF calls[c].reply = Ok THEN NoClaim ELSE cookie
    /\ screen' = IF calls[c].op.after = "button" THEN "login" ELSE screen
    /\ UNCHANGED <<vars, table, named, unread, leaving>>

ClickTab(c) ==
    /\ screen = "app"
    /\ Sends(c, Load)
    /\ table' = [is |-> "loading"]
    /\ UNCHANGED <<vars, screen, cookie, named, unread, leaving>>

\* mutant: res.ok is not looked at.
LoadShownUnchecked(c) ==
    /\ IsAnswered(c, "load")
    /\ Ends(c)
    /\ table' = calls[c].reply
    /\ UNCHANGED <<vars, screen, cookie, named, unread, leaving>>

\* An older load that is answered last stays.
LoadAnswered(c) ==
    /\ IsAnswered(c, "load")
    /\ Ends(c)
    /\ table' = IF calls[c].reply = Refused THEN [is |-> "failed"] ELSE calls[c].reply
    /\ UNCHANGED <<vars, screen, cookie, named, unread, leaving>>

\* A row's buttons say what they would do to the row as it is shown.
Offered(op) ==
    CASE op.do = "toggle" ->
            table.is = "rows" /\ <<op.user, ~ op.isAdmin>> \in table.rows
      [] op.do = "delete" ->
            table.is = "rows" /\ \E isAdmin \in BOOLEAN : <<op.user, isAdmin>> \in table.rows
      [] op.do = "create" -> \A c \in Calls : calls[c] # NoCall => calls[c].op.do # "create"

\* Of two clicks that want different things, either may be handled last.
Undecided(op) ==
    \E c \in Calls : Waits(c) /\ Toggles(c, op.user) /\ calls[c].op.isAdmin # op.isAdmin

ClickChange(c, op) ==
    /\ screen = "app"
    /\ Offered(op)
    /\ Sends(c, op)
    /\ named' = IF op.do # "toggle" THEN named
                ELSE IF Undecided(op) THEN NoClaim ELSE <<op.user, op.isAdmin>>
    /\ UNCHANGED <<vars, screen, cookie, table, unread, leaving>>

\* mutant: a load under way will do.
ReloadUnlessLoading(c) ==
    IF table.is = "loading" THEN Ends(c) /\ UNCHANGED table ELSE GoesOnLoading(c)

Reload(c) == GoesOnLoading(c)

ChangeAnswered(c) ==
    /\ \E do \in {"toggle", "delete", "create"} : IsAnswered(c, do)
    /\ UNCHANGED cookie
    /\ IF calls[c].reply = Ok THEN Reload(c) ELSE Ends(c) /\ UNCHANGED table
    /\ UNCHANGED <<vars, screen, named, unread, leaving>>

\* The connection fails, before or after the server handled the call: what the
\* page would have done next it does not.
CallLost(c) ==
    /\ calls[c] # NoCall
    /\ Ends(c)
    /\ unread' = unread \ {c}
    /\ LET op == calls[c].op IN
       /\ named' = IF op.do = "toggle" THEN Forgotten(op.user) ELSE named
       /\ leaving' = (leaving /\ op.do # "logout")
    /\ UNCHANGED <<vars, screen, cookie, table>>

-----------------------------------------------------------------------------
(* Others.                                                                 *)

\* A token and its cookie live for the same 15 minutes; claims keeps it, for
\* another browser may have one that says the same.
CookieExpires ==
    /\ cookie # NoClaim
    /\ cookie' = NoClaim
    /\ calls' = [c \in Calls |-> IF calls[c] = NoCall THEN NoCall
                                ELSE [calls[c] EXCEPT !.cookie = NoClaim]]
    /\ UNCHANGED <<vars, screen, table, named, unread, leaving>>

\* Only admins change what this page shows.
OthersLogIn ==
    /\ \E u \in admins : LogIn(u)
    /\ UNCHANGED adminVars

\* An admin in another browser.
OthersChange(a, op) ==
    /\ Obey(a, op)
    /\ named' = IF op.do \in {"toggle", "delete"}
                THEN Forgotten(op.user) ELSE named
    /\ UNCHANGED <<screen, cookie, calls, table, unread, leaving>>

PageNext ==
    \/ \E c \in Calls :
          \/ HandleLoad(c) \/ HandleChange(c) \/ RefuseChange(c)
          \/ HandleLogin(c) \/ HandleSession(c)
          \/ OpenPage(c) \/ CheckAnswered(c) \/ LoginAnswered(c) \/ InfoAnswered(c)
          \/ ClickTab(c) \/ ClickLogout(c) \/ LogoutAnswered(c) \/ LoadAnswered(c)
          \/ ChangeAnswered(c) \/ CallLost(c)
          \/ \E u \in Visitors : DoLogin(c, u)
          \/ \E op \in Changes : ClickChange(c, op)
    \/ ClosePage \/ CookieExpires \/ OthersLogIn
    \/ \E a \in Accounts, op \in Changes : OthersChange(a, op)

PageSpec == PageInit /\ [][PageNext]_pageVars

-----------------------------------------------------------------------------
(* Properties.                                                             *)

\* What its own function is still to read, the change being handled or its reload
\* being under way.
StillToRead(c) ==
    /\ calls[c] # NoCall
    /\ \/ calls[c].op \in Changes /\ calls[c].reply = Ok
       \/ calls[c].op = Load /\ Waits(c)

\* However calls overtake each other, every change made from this page has had a
\* listing of the users taken after it, or its own reload is still to come; two
\* things alone excuse it: its own connection failed, or its own reload was refused,
\* the cookie having expired or another having taken its place
\* (admin.js:123-130, 195-208, 212-236).
OwnChangesRead == \A c \in unread : StillToRead(c)

\* However old the row, and however often it is clicked, a button makes of a user
\* what it said it would, unless somebody else changed that user since
\* (admin.js:154-157, 171-173, 195-200, user.js:321-339).
TogglesAsNamed ==
    \A u \in users : Names(u) /\ ~ Toggling(u) => named = Claim(u)

\* Once the page shows its login again, after the logout button or to a user that
\* is no admin, the browser is logged out, also when logins overlapped
\* (admin.js:65-103, user.js:105-111).
LoggedOutForGood ==
    screen = "login" /\ leaving /\ (\A c \in Calls : calls[c] = NoCall) => cookie = NoClaim
=============================================================================
