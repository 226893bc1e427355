------------------------------ MODULE Releases ------------------------------
(***************************************************************************)
(* GET /api/releases/latest (routes/releases.js): GitHub's release list,   *)
(* fetched by the server, cached, and left alone after GitHub refused.     *)
(*                                                                         *)
(* Requests run on one event loop, but a fetch is awaited: whatever other  *)
(* requests do to `cached` and `backoff` in the meantime is seen when it   *)
(* settles.  A list is modelled by the time GitHub answered it (`asof`);   *)
(* both channels pick from the same list, so the channel is left out.      *)
(***************************************************************************)
EXTENDS Naturals

CONSTANTS Requests,      \* requests that may be under way together
          CacheTime,     \* CACHE_MS
          RetryTime,     \* RETRY_MS
          FetchTimeout,  \* FETCH_TIMEOUT_MS
          Waits,         \* how long a refusal may ask to be left alone
          MaxTime,       \* bound: the clock stops here
          None, Error

Copies == [at : Nat, asof : Nat]

ASSUME TimesAssumption ==
    /\ CacheTime \in Nat \ {0} /\ RetryTime \in Nat \ {0}
    /\ FetchTimeout \in Nat /\ MaxTime \in Nat
    /\ Waits \subseteq Nat \ {0}
    /\ None \notin Nat \cup Copies /\ Error \notin Nat

VARIABLES now,        \* the clock
          cached,     \* [at, asof]: when it was cached, when GitHub gave it
          backoff,    \* backoff.until
          req,        \* what each request waits for
          reply,      \* what it was answered last: a list, or an error
          refusal,    \* history: until when GitHub said to be left alone
          settled     \* history: when a fetch last settled

vars == <<now, cached, backoff, req, reply, refusal, settled>>

Idle == [st |-> "idle"]
Asking == [st : {"asking"}, at : Nat]
Answered == [st : {"answered"}, at : Nat, asof : Nat]
Refused == [st : {"refused"}, at : Nat, wait : Waits \cup {RetryTime}]
Failed == [st : {"failed"}, at : Nat]

TypeOK ==
    /\ now \in Nat
    /\ cached \in Copies \cup {None}
    /\ backoff \in Nat \cup {None}
    /\ req \in [Requests -> {Idle} \cup Asking \cup Answered \cup Refused \cup Failed]
    /\ reply \in [Requests -> Nat \cup {None, Error}]
    /\ refusal \in Nat
    /\ settled \in Nat \cup {None}

Init ==
    /\ now = 0
    /\ cached = None
    /\ backoff = None
    /\ req = [r \in Requests |-> Idle]
    /\ reply = [r \in Requests |-> None]
    /\ refusal = 0
    /\ settled = None

-----------------------------------------------------------------------------
Max2(a, b) == IF a >= b THEN a ELSE b

Fresh == cached # None /\ now < cached.at + CacheTime
LeftAlone == backoff # None /\ now < backoff

\* The copy there is, else the error.
LastGoodCopy(copy) == IF copy # None THEN copy.asof ELSE Error

\* loadReleases up to the fetch: answered from the cache, or from what there
\* is while GitHub is left alone, or GitHub is asked.
ServeFresh(r) ==
    /\ req[r] = Idle
    /\ Fresh
    /\ reply' = [reply EXCEPT ![r] = cached.asof]
    /\ UNCHANGED <<now, cached, backoff, req, refusal, settled>>

ServeInBackoff(r) ==
    /\ req[r] = Idle
    /\ ~ Fresh
    /\ LeftAlone
    /\ reply' = [reply EXCEPT ![r] = LastGoodCopy(cached)]
    /\ UNCHANGED <<now, cached, backoff, req, refusal, settled>>

Ask(r) ==
    /\ req[r] = Idle
    /\ ~ Fresh
    /\ ~ LeftAlone
    /\ req' = [req EXCEPT ![r] = [st |-> "asking", at |-> now]]
    /\ UNCHANGED <<now, cached, backoff, reply, refusal, settled>>

\* GitHub gives its list, or refuses (for `w`, or for a minute when it does not
\* say); or nothing usable comes: no answer in time, no releases.
Answer(r) ==
    /\ req[r].st = "asking"
    /\ \/ req' = [req EXCEPT ![r] = [st |-> "answered", at |-> @.at, asof |-> now]]
       \/ req' = [req EXCEPT ![r] = [st |-> "failed", at |-> @.at]]
       \/ \E w \in Waits \cup {RetryTime} :
             req' = [req EXCEPT ![r] = [st |-> "refused", at |-> @.at, wait |-> w]]
    /\ UNCHANGED <<now, cached, backoff, reply, refusal, settled>>

CacheList(r, at) ==
    /\ req[r].st = "answered"
    /\ cached' = [at |-> at, asof |-> req[r].asof]
    /\ backoff' = None
    /\ req' = [req EXCEPT ![r] = Idle]
    /\ reply' = [reply EXCEPT ![r] = req[r].asof]
    /\ settled' = now
    /\ UNCHANGED <<now, refusal>>

\* mutant: the copy carries the time it expires, as backoff does.
SettleListExpiry(r) == CacheList(r, now + CacheTime)

\* The fetch resolves with a list.
SettleList(r) == CacheList(r, now)

\* The fetch rejects, GitHub refuses, or what it gives is of no use: GitHub is
\* left alone until `until` and the request gets the last good copy or the error.
SettleWithout(r, until) ==
    /\ backoff' = until
    /\ req' = [req EXCEPT ![r] = Idle]
    /\ reply' = [reply EXCEPT ![r] = LastGoodCopy(cached)]
    /\ settled' = now
    /\ UNCHANGED <<now, cached>>

\* mutant: only a refusal starts the backoff, a failure does not.
SettleFailedRetried(r) ==
    req[r].st = "failed" /\ SettleWithout(r, backoff) /\ UNCHANGED refusal

SettleFailed(r) ==
    req[r].st = "failed" /\ SettleWithout(r, now + RetryTime) /\ UNCHANGED refusal

SettleRefused(r) ==
    /\ req[r].st = "refused"
    /\ SettleWithout(r, now + req[r].wait)
    /\ refusal' = Max2(refusal, now + req[r].wait)

\* A fetch is aborted at its timeout, so none is under way past it.
Tick ==
    /\ now < MaxTime
    /\ \A r \in Requests : req[r] # Idle => now < req[r].at + FetchTimeout
    /\ now' = now + 1
    /\ UNCHANGED <<cached, backoff, req, reply, refusal, settled>>

Next ==
    \/ \E r \in Requests :
          \/ ServeFresh(r) \/ ServeInBackoff(r) \/ Ask(r)
          \/ Answer(r)
          \/ SettleList(r) \/ SettleFailed(r) \/ SettleRefused(r)
    \/ Tick

Spec == Init /\ [][Next]_vars

-----------------------------------------------------------------------------
(* Properties.                                                             *)

\* How long a settled fetch keeps GitHub from being asked: one of these.
Gaps == Waits \cup {CacheTime, RetryTime}

\* However many requests are under way together, no settled fetch is followed
\* by another one at once: each leaves a fresh copy or a backoff that no other
\* request's result takes away altogether (releases.js:82-110).
AsksSpaced ==
    [][\A r \in Requests :
          Ask(r) /\ settled # None => \E gap \in Gaps : now >= settled + gap]_vars

\* A list served as fresh is one GitHub gave at most the cache's and a fetch's
\* time ago, though the cache is dated by the end of the fetch
\* (releases.js:83, 91-102).
ServedFresh ==
    [][\A r \in Requests : ServeFresh(r) => now < reply'[r] + CacheTime + FetchTimeout]_vars

\* "After GitHub refused or failed: not asked again before this time"
\* (releases.js:78-80), and before the time it asked for itself (62-65).
NotAskedEarly == [][\A r \in Requests : Ask(r) => now >= refusal]_vars
=============================================================================
