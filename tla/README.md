# NordvikManager Central: a TLA+ model and its proofs

NordvikManager Central is the Node.js server that brings players and game
masters together: accounts and invites, the list of game sessions, and a
socket.io signaling server over which a player's client finds the backend of
its game master (GM) and sets up a WebRTC connection to it. Around that it
serves pages, an addon registry and the newest release's downloads.

This directory holds TLA+ modules for the parts of it that keep state, TLC
configurations that check them on small instances, and proofs, checked by
TLAPS, of what matters most for every instance. `src/...` paths below are
relative to the repository.

## 1. The system

Everything runs in one Node.js process on one event loop, over one SQLite file
(better-sqlite3, synchronous). A handler without `await` is therefore atomic
with respect to other handlers; what interleaves is

- the order of connections, messages, closes, timers and HTTP requests;
- handlers that await: pings of GM sockets, fetches from GitHub;
- process ends: memory is lost, every committed statement stays. A handler
  that makes two commits can be stopped between them;
- answers lost on the way to a client, and two tabs of one browser;
- in a page, answers to calls that went out in another order, and what the user
  clicks meanwhile.

| Component | Source | State | Operations | Meets |
|---|---|---|---|---|
| Signaling registry | `services/signalingService.js` | `peers`, `gmSockets`, `gmProtocols`, `gmPingStrikes`, `iceRateLimits` (memory) | addPeer, removePeer, evictPeer, registerGm, pingGmSocket, checkIceRateLimit | all of signaling, publicgames, cleanup |
| Authentication of sockets | `signaling/authenticate.js`, `signalingServer.js` | `socket.data.authFailures`, rooms | authenticate, connection, disconnect | registry, game sessions, tokens |
| Relay | `signaling/relay.js` | none of its own | offer, answer, ICE candidate, gm-alive | registry |
| Cleanup | `services/cleanupService.js` | hourly timer | prune tokens, invites, sessions; touch live sessions | registry, database |
| Game sessions | `services/gameSessionService.js`, `routes/gamelist.js` | `game_sessions`, `session_players`, join limiters | create, update, join, delete, listings, signalingticket | registry (who has a GM), tokens |
| Public list | `routes/gamelist.js` | what a visit has read and awaits | GET /publicgames | game sessions, pings of the registry |
| Logins and tokens | `services/authService.js`, `routes/user.js` | `refresh_tokens`, `users.ticket_generation`, cookies at the clients | login, refresh, logout, resetpassword, tickets | sockets' authentication |
| Accounts and invites | `services/inviteService.js`, `routes/user.js`, `middleware/requireAdmin.js` | `users`, `invites` | register, create, delete, toggle admin, invites | tokens (claims) |
| Releases | `routes/releases.js` | `cached`, `backoff` | GET /latest | GitHub |
| Addons | `routes/addons.js` | `registry`, `readmes` | GET registry, readme | GitHub |
| Addons page | `docs-site/src/pages/addons.js` | registry, readme, the address | open, navigate | addon routes |
| Admin page | `static/client-admin/admin.js` | screen, users shown, cookie | log in and out, list, create, delete, toggle | accounts, `middleware/auth.js`, `requireAdmin.js` |
| Protocol check, ICE servers, webrtc listing | `services/protocol.js`, `iceServers.js`, `routes/webrtc.js` | none | pure | |
| Schema, migration, seed | `db/` | the tables, `ON DELETE CASCADE` | run at start | |
| Start, configuration, headers, docs, other pages, deployment | `index.js`, `config/`, `routes/docs.js`, `static/`, `docs-site/`, `coturn/` | none | wiring and static content | |

What is hard about each, and what makes it correct:

- **Signaling.** The maps are keyed differently (sockets, sessions) and cleared
  at different places; a GM backend reconnects before its old socket is found
  dead; a player asks for a GM just before it arrives or leaves; timers outlive
  sockets. Correct: the GM entry of a session is its registered GM's open
  socket; the session limit holds; nobody waits for the wrong GM without being
  told; a GM is evicted for what it did, not for what another did; a silent GM
  does lose the session.
- **Cleanup.** Correct: it deletes games nobody runs, never one whose GM is
  connected, and never a token rotation would accept.
- **Tokens.** Correct: a refresh token works once, a login has at most one good
  token, logout and password reset end all there is, a refresh never leaves the
  browser with the used token.
- **Accounts.** Correct: a key registers no more accounts than it may, an
  invite belongs to an account, an admin remains. The access token's `isAdmin`
  may be 15 minutes old.
- **Relay.** A player keeps sending to the GM id it was told of. Correct: nothing
  reaches a player but from that GM; an offer is dropped only if the player knows
  to look again; the limit on candidates holds and shuts nobody out for long.
- **Game sessions.** Access tokens outlive accounts; tries to join are counted
  before their outcome is known and taken back after the response is handed over.
  Correct: the rows refer to what exists; a password stays; failed tries, and
  joins still under way, are all that shuts a user or an address out, and soon
  enough.
- **Releases.** Correct: GitHub is not asked again at once, nor before the time
  it asked for; what is served as fresh is.
- **Public list.** A visit reads the games, waits for all of their GMs, then
  answers with what it read. Correct: a game it lists is one whose GM answered,
  and the slowest or deadest GM does not keep it from being answered.
- **Addons.** Every request that finds a copy stale fetches; fetches fail, time
  out, and arrive in another order. Correct: what is served is recent, a readme
  is of the url it is served for, and a failing GitHub does not take the last
  registry away.
- **Pages.** Answers arrive after the user went elsewhere, calls overtake each
  other, cookies run out. Correct: what is shown belongs to what is open; a page
  reads its own changes; a button does what it says; logged out is logged out.

`PROJECT.json` lists the hazards with the line where each bites.

## 2. The modules

| Module | What it models |
|---|---|
| `Signaling` | registry, authentication, disconnect, GM pings, restarts, the cleanup of sessions, and what every socket was told |
| `GmDirectory` | abstract: what signaling promises about who is a session's GM and who knows it |
| `SignalingProofs` | theorems about `Signaling`: registry, limits, evictions, what sockets are told, and that it implements `GmDirectory` |
| `GmDirectoryProofs` | theorems about `GmDirectory` |
| `PublicGames` | visits to the public list, their pings and their answers: extends `Signaling` |
| `Relay` | offers, answers and ICE candidates between registered sockets, and the counters of candidates: extends `Signaling` |
| `ServerProofs` | theorems about `Relay` and `PublicGames`, resting on those about `Signaling` |
| `GameSessions` | games, members, passwords, deletions, and the two limiters of join |
| `GameSessionsProofs` | theorems about `GameSessions` |
| `Releases` | release cache, backoff and concurrent fetches |
| `ReleasesProofs` | theorems about `Releases` |
| `Tokens` | logins, refresh tokens in cookies and at clients, GM tickets, logout, reset, pruning |
| `TokensProofs` | theorems about `Tokens` |
| `Accounts` | accounts, admins and their claims, invites, registration |
| `AdminPage` | the admin page in one browser, with the access token's checks at the server: extends `Accounts` |
| `AccountsProofs` | theorems about `Accounts` and `AdminPage` |
| `Addons` | the server's copies of the addon registry and the readmes |
| `AddonsPage` | one visitor's addons page over that server: extends `Addons` |
| `AddonsProofs` | theorems about `Addons` and `AddonsPage` |
| `MCSignaling`, `MCPublicGames`, `MCRelay`, `MCGameSessions`, `MCTokens`, `MCAccounts`, `MCAdminPage`, `MCAddonsPage` | model values, symmetry sets and constant functions for TLC |

Operators marked "mutant" are wrong variants of the operator that follows them,
used by no specification: with the variant in its place a named property fails,
which shows the property depends on that piece of the code.

### Signaling

Variables and code: `peers`, `gmSockets`, `gmProtocols`, `gmPingStrikes` are the
maps of signalingService.js; `conn`, `authFailures` and `rooms` are a socket's
own; `pings` counts `ping-gm` messages whose acknowledgement or timeout is still
to come, by the session and socket captured in the closure (lines 167-205);
`games`, `members`, `fresh` are the database, with `fresh` standing for
`last_gm_seen_at` within the expiry days. `roster`, `knownGm`, `notified` are
what the server has sent a socket: PEER_JOINED and PEER_LEFT, the `gmPeerId` of
its last SESSION_INFO, and whether news of a GM followed it. `misses` is a
history variable no action reads.

`authenticate` has one action per way it can end: `AuthInvalidPayload`,
`AuthBadToken` (socket kept), `AuthBadTokenDrop`, `AuthRefused`, `AuthFull`,
`JoinPlayer`, `JoinGm`, `ReauthPlayer`, `ReauthGm`. Every close goes through
`CloseSockets(gone)`: PEER_LEFT to the rooms, the peer and its GM entry
forgotten, the socket closed (evictPeer and the disconnect handler do the same,
one after the other, and the second finds nothing to do). A ping's end is
`PingAck`, `PingStrike` or `PingEvict`. `PingGmSocket` starts one (`PingStart`) or
cleans up an entry whose socket is gone (`PingGone`), which only sockets that
change their session or role leave behind: `public_games` reaches it.

The constant `Rebinds` says whether clients may authenticate a registered
socket for another session or in another role. The repository's clients do not;
the server does not prevent it. Properties that need the assumption are checked
and proved with `Rebinds = FALSE`, the others are proved for both values;
`public_games` runs with `Rebinds = TRUE`. What such a client can leave behind is
a GM entry that names a socket that is no GM, or is closed: `StaleEntryDropped`
is that the next ping of the session drops it.

Not in the model: user names, trace ids and logging; which token authenticated
a socket (`Tokens`); ICE counters and relays (`Relay`); that a game is private (a
private game is never pinged: a game here is a public one).

`Directory` in `Signaling` is the refinement mapping: a session's holder is its
GM entry, a connection waits for the session it plays in, believes what
SESSION_INFO said, and is notified as above.

### PublicGames

A step is one of `Signaling` or leaves it alone. A visit's turn of the event
loop reads the listed games (`Visit`) and pings each (`VisitPings`; `VisitDrops`
for an entry whose socket is gone). The turn takes one step per game, and
`NobodysTurn` keeps everything else out until it ends. Then the visit awaits
its pings: `GmAnswers`, `GmSlow`, which are the ends of a ping in `Signaling`.
The cleanup is left out here: a game it deletes is to a visit as one its owner
deletes. `asked` and `heard` are history: the entries the visit read, and who has
answered any ping since it came.

### Relay

A step of `Relay` is a step of `Signaling` (`ServerStep`), which also takes the
counters of the sockets it removes as removePeer does, or one of the relays,
which leave the registry alone: `RelayOffer`, `RelayAnswer`,
`RelayIceCandidate`, `RefuseIceCandidate` (counted, not passed on). Messages the
relay drops without counting them change nothing and are left out, as is
gm-alive, which only reads `IsSessionGm`. `iceRateLimits` is the map of
signalingService.js, with the age of a window for its start; `Tick` makes
everything older. `passed` (what was passed on, by age) and `message` (what this
step passed on) are history.

### GameSessions

`games` and `players` are the tables; `users` are the rows they refer to, by
cascade. A request to join passes both limiters and the handler in one turn of
the event loop: `RefuseAddress`, `RefuseUser`, `JoinFails` and `Join` are its
ends. `hits` are the limiters' counters. express-rate-limit takes a successful
request back when the response's `finish` event comes (`Finish`), by then perhaps
in another window (`WindowEnds`) or never (`ServerRestart`). That part of the
library is external code, modelled from the options gamelist.js gives it.
`failed`, `wrong`, `returned`, `everGames` are history. `Admins` are the users
whose access token says admin; how that goes out of date is in `Accounts`.
Here games are created, unlike in `Signaling`, which has them from the start
and looks at their members and their age only.

### Releases

One action per outcome of `loadReleases` before its fetch (`ServeFresh`,
`ServeInBackoff`, `Ask`), one for GitHub (`Answer`), one per way the fetch can
settle (`SettleList`, `SettleFailed`, `SettleRefused`), and the clock. A
release list is its date. `refusal` and `settled` are history.

### Tokens

`rows` are the refresh tokens' rows, `generation` is `ticket_generation`;
`cookie`, `held`, `access` are what a client holds; `asking` are refreshes
under way with the token the client had when it sent them. A handler's answer
arrives or is lost. `RefreshCrash` and `ResetPasswordCrash` are the process
ending between two commits. `origin` (the login a token descends from, and how
many logouts and resets its user had then), `logouts`, `passwords` and `halted`
are history.

### Accounts

`claims` are the unexpired access tokens with their `isAdmin`: `requireAdmin`
reads them and not the row. `RegisterCrash` is registration stopped between its
two commits. `registered`, `uncounted`, `everUsers`, `everKeys` are history.
Refusals that change nothing are left out. A crash of registration leaves an
account whose use of its key was not counted, so `LimitKept` counts out such
accounts.

### AdminPage

`calls` are the calls of admin.js's `api()` that are under way: each carries the
cookie of the moment it was sent, the server handles it in one step
(`HandleLoad`, `HandleChange`, `RefuseChange`, `HandleLogin`, `HandleSession`,
which call the actions of `Accounts`), and another step is what the page does
with the answer (`CheckAnswered`, `LoginAnswered`, `InfoAnswered`,
`LogoutAnswered`, `LoadAnswered`, `ChangeAnswered`). `CallLost` is a connection
that fails before or after the call was handled. `OthersChange` is an admin in
another browser. `named`, `unread`, `leaving` are history: `unread` has
the calls whose change no listing came after. A listing empties it; a load that
is refused reads nothing and gives up its own change only, and so does a call
that is lost: these two are what `OwnChangesRead` excuses. Left out: the invites' tab, the form that resets a password, paging, and that a button stays
disabled when its call fails.

### Addons and AddonsPage

`registry` and `readmes` are the two caches of routes/addons.js. A request goes
through `loadRegistry` and `loadReadme`; where they await, GitHub reads the file
in one step (`GitHubServes`), and the answer arrives in another or the fetch
fails. GitHub's registry changes in between (`Publish`), and a restart loses the
copies. Ages stand for times; an `answer` that is `stale` is older than a
cache time and a fetch, which is history.

In `AddonsPage`, `page` and `readme` are the states of the hooks `useRegistry`
and `useReadme`, `key` is `?addon` of the address, and `listens` is which
request's answer an effect still takes: its cleanup sets `live = false`. A
render and the effects it causes are one step. The browser's own cache of the
answers is left out.

## 3. What TLC checks

| Run | Question and properties | Instance |
|---|---|---|
| `signaling_safety` | registry, limit, rosters, players' knowledge, cleanup, evictions: `RegistryExact`, `SessionCapacity`, `RosterExact`, `PlayersInformed`, `CleanupSparesLiveGame`, `EvictionNeedsMisses` | 4 sockets, 1 session, 2 users, limit 3, 2 failures, 1 ping in flight |
| `signaling_live` | `PlayersFindGm`, `SilentGmEvicted`, `DeadGamesExpire`, and the refinement `ImplementsDirectory` | 3 sockets, limit 2 |
| `public_games` | `ListedGamesAnswered`, `VisitsAnswered`, `StaleEntryDropped`, with sockets that change session and role | 2 sockets, 2 sessions, limit 1, 2 strikes, 1 visit |
| `slow_answer` (fails) | `SingleSlowAnswerForgiven` | 2 pings in flight |
| `relay` | `CandidatesLimited`, `CountersOfPeers`, `PlayersHearTheirGm`, `RefusalsDeserved` | 3 sockets, 1 session, limit 2; 2 candidates a window of 2 ticks |
| `game_sessions` | `RowsConsistent`, `GuessesLimited`, `RefusalsEarned`, `PasswordsKept` | 2 users of whom one is an admin, 1 address, 1 game, 2 passwords, 2 responses waiting |
| `releases_many` | `AsksSpaced`, `ServedFresh` | 2 requests, 9 ticks |
| `releases_early` (fails) | `NotAskedEarly`, two requests | 14 ticks |
| `tokens` | `OneLivePerLogin`, `LogoutEndsLogins`, `ResetEndsOldLogins`, `CookieStaysLive` | 3 tokens, 1 client, 2 refreshes under way |
| `accounts` | `LimitKept`, `InviteHasCreator`, `UsedAsShown`, `LastAdminLostOnlyToStaleClaim` | 4 accounts, a key for 2 |
| `admin_page` | `PageTypeOK`, `OwnChangesRead`, `TogglesAsNamed`, `LoggedOutForGood` | 2 accounts of which one logs in here, 2 calls under way |
| `addons` | `PageTypeOK`, `ServedRecent`, `ReadmeOfItsUrl`, `ReadmeOfTheAddon`, `LoadingAwaitsAnAnswer` | 2 requests, 2 keys, 2 urls of which one may be read, 2 registries, copies kept for 2 ticks, fetches for 1 |

No run repeats what is proved and follows at once from what one checks: the type
invariants with a proof, `ReplacementNotRefused` and `OffersReachTheGm` are
theorems only.

Bounds and why they are enough. Four sockets are an old GM, its replacement and
two players, with the limit reached at three: every pairing of the handlers
that touch two sockets occurs. Socket ids, token ids and accounts are used
once, as random ids are, so a run ends after a few reconnections; what happens
then depends on who is connected, not on how often it happened.
`MaxAuthFailures` is 2 or 1 and `MaxStrikes` keeps the code's 3: the strikes'
sum is what the properties are about. `MaxPings` bounds the pings in flight
of a session. Times in `Releases` are small numbers with a refusal shorter and
one longer than the retry time. `MaxLogouts` bounds a user's logouts and
resets, `MaxAsking` the refreshes under way: two is what two tabs need.
In `game_sessions` a user may fail once and an address twice, so either limiter
refuses first; two waiting responses are needed for one of an earlier window to
meet one of this window; `MaxHits` is one more than the larger limit. In `relay`
a window is two ticks and its limit two: with both ends of a window and a refusal
in it; pings are off (`MaxPings` 0), evictions come from replacements.
In `public_games` two sockets and two sessions are enough for a GM to be bound
to the other session, or replaced there, while its ping is awaited; one visit
has one ping in flight per entry, and a second visit pings the same entries
again when the first is answered. In `addons` two requests are the page's
and another visitor's, or two of the page's: fetches of one file arrive in
either order, and the second registry moves a readme to another key and leaves
its own key without an addon; with one url to be read, that a readme was read from
its own url is left to the theorem (two are out of reach of the run). In `admin_page` two calls overtake each other in
every pairing; with no keys the invites stay out of it, and the second account is
made, deleted and toggled by the page and by others.
`Releases` stops at `MaxTime`, so its runs do not check for deadlock; all
others do. The symmetry sets permute sockets, tokens, accounts other than the
seeded one, keys, requests and calls, in runs without liveness properties only.

Fairness (`LiveSpec` of `Signaling`). A waiting player's client authenticates
again when it is told of its GM (authenticate.js:136-139 relies on it); a public
page is asked for again and again, and pings every listed GM (gamelist.js:61-75);
a ping's acknowledgement or its timeout comes (the timer is the server's own);
the cleanup runs hourly (cleanupService.js:66-78) and days pass. Nothing is
assumed of a GM: it need not connect or answer. `PublicLiveSpec` of
`PublicGames`: visits keep coming, a turn runs to its end (nothing else runs
meanwhile), and each visit's pings are answered or time out. The last is strong
fairness, for the turns of other visits only hold an answer or a timer up and
do not remove it.

### The two runs that fail

- `slow_answer`: the comment of signalingService.js:10-11 promises that one slow
  answer does not break a session. Strikes are the session's: pings sent to a
  replaced GM time out later and count against the new one, whose first slow
  answer may then evict it. `EvictionNeedsMisses` is what does hold: the GM
  missed all strikes but those its predecessor's pings in flight left.
- `releases_early`: releases.js:78-79 says GitHub is not asked before the time
  after a refusal. A request that fails after another's refusal replaces the
  time by a minute; one that succeeds removes it.
### Remarks

Behaviours met while modelling that no document or test of the repository speaks
against:

- A GM socket that authenticates again as a player, or for another session, leaves
  its GM entry until the next ping (`StaleEntryDropped`); until then the session
  counts as one with a GM.
- On the admin page the last answer stays, also when it is an older load's: a
  change the page has read may be shown undone until the next load
  (`OwnChangesRead` is about what is read, not about which answer stays). A change
  whose reload is refused, the cookie having run out meanwhile, is not read
  again: the table says "Failed to load.". Two
  logins that overlap may log each other out. A call whose connection
  fails leaves "Loading..." where its list was to be, and its button disabled.
- `/userinfo` returns no id, so the admin page never recognises one's own row;
  the server refuses to delete or toggle it (`Objects`).
- A password reset's answer closes whichever reset form is open by then.

## 4. What is proved

For every value of the constants that satisfies the modules' named assumptions.

| Theorem | Says | Argument |
|---|---|---|
| `SignalingProofs!TypeCorrect` | `Spec => []TypeOK` | inductive; `CloseType` for everything that closes sockets |
| `RegistryIsExact` | `[]RegistryExact`, with `Rebinds = FALSE` | inductive with `TypeOK`: without rebinding the GM a new one replaces is a registered GM, so its entry is dropped with it |
| `SessionNeverOverfull` | `[]SessionCapacity`, whatever clients do | `CapacityInv`: peers of a session only grow by a join that counted them after the eviction; cardinality facts from FiniteSetTheorems |
| `ReplacementIsNotRefused` | `ReplacementNotRefused`, with `Rebinds = FALSE` | from `RegistryExact` and `SessionCapacity`: the evicted GM was one of the counted peers |
| `PlayersAreInformed` | `[]PlayersInformed`, with `Rebinds = FALSE` | not inductive alone: news only reaches rooms, so `InformedInv` adds that every peer is in its session's room |
| `CleanupSparesLiveGames` | `CleanupSparesLiveGame`, with `Rebinds = FALSE` | from `RegistryExact`: the cleanup asks for GM entries, and a connected GM has one |
| `EvictionsNeedMisses` | `EvictionNeedsMisses`, with `Rebinds = FALSE`, any number of strikes and pings in flight | `StrikesInv`: a session's strikes and the pings in flight to others than its GM are at most `MaxPings` and what its GM missed; a ping to an open socket is to its session's GM |
| `SilentGmsAreCounted` | whoever missed pings in a row is the GM of a session with a strike for each, fewer than `MaxStrikes`; with `Rebinds = FALSE` | inductive with `StrikesInv`: an open socket's ping is to its session's GM, so what clears or carries the strikes clears or carries what was missed |
| `RostersAreExact` | `[]RosterExact`, with `Rebinds = FALSE` | `RoomsInv`: a socket is in the room of its session and in no other, so who hears of a join or a leave is who shares the session |
| `ServerIsADirectory` | `ImplementsDirectory`, with `Rebinds = FALSE` | the refinement, step by step under `TypeOK`, `RegistryExact`, `InformedInv` and `RoomsInv`: joins, replacements, closings and restarts map to the directory's, the rest to stutters |
| `GmDirectoryProofs!HoldersAreCurrent` | `[]HolderCurrent` of the abstract directory: what `ImplementsDirectory` buys | inductive with its types |
| `WaitersAreInformed` | `[]WaitersInformed` of the abstract directory | inductive with its types |
| `ServerProofs!RelayingKeepsTheRegistry` | `RelaySpec => Spec` | relays leave `vars` alone: every theorem about `Signaling` holds of `Relay` |
| `CountersAreOfPeers` | `[]CountersOfPeers` | a counter is made between peers and goes with either; a socket both removed and registered in one step (a stale GM replacing itself) loses its counters |
| `OffersDoReachTheGm` | `[]OffersReachTheGm`, with `Rebinds = FALSE` | from `PlayersInformed` and `RegistryExact` |
| `PlayersDoHearTheirGm` | `[]PlayersHearTheirGm`, with `Rebinds = FALSE` | the same, at the step that passes the message on |
| `RelayTypeCorrect` | `[]RelayTypeOK` | inductive with `IceInv` |
| `CandidatesAreLimited` | `[]CandidatesLimited`, whatever clients do | `IceInv`: a pair's counter is what was passed on since its window began, up to the limit, and no more than the limit was passed on in the length of a window before it |
| `RefusalsAreDeserved` | `RefusalsDeserved`, whatever clients do | from `IceInv` |
| `VisitsOnlyPing` | `PublicSpec => Spec` | a visit's steps are pings of `Signaling` or leave `vars` alone |
| `ListedGamesDidAnswer` | `[]ListedGamesAnswered`, whatever clients do | `PublicInv`: what a visit awaits is among the entries it read, and so is, with one that was heard, each game it counts as alive; during its turn nothing else runs, so the entries still to be pinged are those it read |
| `AwaitedPingsAreInFlight` | every ping a visit awaits is in flight, and there are no more than visits | `PingsCounted`: the pings in flight to a socket for a session are exactly the visits that await one; no eviction or close takes one away, for the timer is not the socket's |
| `TurnsGoOn` | a game a visit has left to ping is still listed, and the pings of a session in flight are fewer than `MaxPings` | `TurnInv`: nothing else runs during a turn, and a visit awaits one ping of a session at most, so the others' are fewer than the visits |
| `GameSessionsProofs!TypeCorrect` | `Spec => []TypeOK` | inductive |
| `RowsAreConsistent` | `[]RowsConsistent` | inductive with its types; `UpdatedFits` for updategame |
| `PasswordsAreKept` | `PasswordsKept` | ids are used once (`IdsUsed`), so a game is not replaced by another under its id |
| `GuessesAreLimited` | `[]GuessesLimited` | `CountInv`: a counter is what failed and is under way, but for what earlier windows took back |
| `RefusalsAreEarned` | `RefusalsEarned` | from `CountInv` |
| `ReleasesProofs!TypeCorrect` | `Spec => []TypeOK` | inductive |
| `FetchesAreSpaced` | `AsksSpaced` | `SpacedInv`: whoever settled last left a copy dated then or a backoff counted from then |
| `ServedListsAreFresh` | `ServedFresh` | `DatedInv`: a fetch under way is at most its timeout old, so is a list when it is cached |
| `TokensProofs!TypeCorrect` | `Spec => []TypeOK` | inductive |
| `OneIsGood` | `[]OneLivePerLogin` | inductive with `NamesMade`: whatever names a token names one that was made, so a new token is new to all and takes the place of the one its refresh used up |
| `LogoutsEndLogins`, `ResetsEndOldLogins` | `[]LogoutEndsLogins`, `[]ResetEndsOldLogins` | each inductive with `GenerationsCount`: a user's generation is the number of its logouts and resets, and a ticket carries the one it was issued in |
| `CookiesStayLive` | `CookieStaysLive` | from `KeptApart`: the token a refresh uses up is either the cookie's or nobody's cookie |
| `AccountsProofs!TypeCorrect` | `Spec => []TypeOK` | inductive |
| `LimitIsKept` | `[]LimitKept` | `KeyInv`: the stored count is the number of accounts registered and counted, and nobody registered with a key before it was made |
| `CreatorExists`, `UsedIsAsShown` | `[]InviteHasCreator`, `[]UsedAsShown` | inductive with the types |
| `LastAdminIsKept` | `LastAdminLostOnlyToStaleClaim` | an admin can neither delete nor demote itself, so another is left |
| `PageImplementsAccounts` | `PageSpec => Spec` | the refinement, step by step under `Known`: the cookie and every cookie a call carries is a claim the server gave, so what the server lets the call do is an action of `Accounts` |
| `PageKeepsAccounts` | the four properties of `Accounts`, under `PageSpec` | from the refinement |
| `AdminPageTypeCorrect` | `PageSpec => []PageTypeOK` | inductive with `Known` |
| `OwnChangesAreRead` | `[]OwnChangesRead` | `WillBeRead`: the call of a change that no listing came after has an answer its function reloads on, or is that reload and not handled yet; a listing leaves no such call |
| `ButtonsDoAsTheySay` | `[]TogglesAsNamed` | `NamedIsWanted`: all toggles of a user still to be handled ask for what the last button said, and its row does once none is left |
| `LogoutsHold` | `[]LoggedOutForGood` | `WillBeLoggedOut`: while the cookie is still there, a logout is under way that carries it |
| `AddonsProofs!AddonsTypeCorrect` | `Spec => []AddonsTypeOK` | from the invariant below |
| `AnswersAreRecent` | `[]ServedRecent` | a copy younger than the cache time was read at most a fetch before it came, and so was the reply of a fetch under way |
| `ReadmesAreOfTheirUrls` | `[]ReadmeOfItsUrl` | the same invariant: a reply on its way is of the url it asked for, and that url was allowed when it was asked for |
| `PageTypeCorrect` | `PageSpec => []PageTypeOK` | inductive with `Shown` and `Listened` |
| `PageShowsItsReadme` | `[]ReadmeOfTheAddon` | `Listened`: a request the page listens to for its readme asked for the addon the page is at, and there is one at most |
| `LoadingIsAnswered` | `[]LoadingAwaitsAnAnswer` | `Listened`: the page says "loading" exactly while it listens to a request that is under way |
| `PageAnswersAreRecent` | `[](ServedRecent /\ ReadmeOfItsUrl)`, under `PageSpec` | inductive again: a step of the page may be two of the server's |

Every invariant and every action property that a run checks, and both
refinements (`ImplementsDirectory`, and the admin page over `Accounts`), are
proved. Only model-checked are the liveness properties `PlayersFindGm`,
`SilentGmEvicted`, `DeadGamesExpire`, `VisitsAnswered` and `StaleEntryDropped`: the
prover has no support for fairness and ENABLED. Two of them have their safety half
proved: of `VisitsAnswered`, that whatever a visit has left to do, or waits for,
can happen (`TurnsGoOn`, `AwaitedPingsAreInFlight`); of `SilentGmEvicted`, that
every ping missed in a row brings the eviction closer (`SilentGmsAreCounted`). No
module uses RECURSIVE, and no proof needs induction over data: the functions of
the model are defined on finite sets at once.

## 5. What is not modelled

- The admin page's invites' tab and paging, the form that resets a password, and
  the landing page's: the same calls as the users' tab, over operations
  `Accounts` and `Tokens` have.
- The rate limiters of login and registration: a library's counters, with
  no interplay of their own (those of join take back what succeeded, and are in
  `GameSessions`).
- The migration of databases made before the current schema, which runs once,
  before anything listens.
- TURN credentials, the picking of a release, the formats of releases and addons,
  paging, the webrtc listing: pure functions of their input.
- Headers, configuration, wiring, the docs site and its other pages, the API
  description, coturn's configuration, logging: no state after start, or pure
  I/O.

What would come next: what the registry still promises when clients change their
session or role (`Rebinds = TRUE`), where entries may be stale: what a stale entry
can name, and who a stale entry can keep from being informed.
