--------------------------- MODULE ReleasesProofs ---------------------------
(***************************************************************************)
(* Proofs about Releases, for any number of requests under way and any     *)
(* times: its types, the spacing of the fetches and the age of what is     *)
(* served.                                                                 *)
(***************************************************************************)
EXTENDS Releases, TLAPS

USE TimesAssumption DEF Copies

LEMMA InitType == Init => TypeOK
  BY DEF Init, TypeOK, Idle

LEMMA CopyType ==
  ASSUME TypeOK PROVE LastGoodCopy(cached) \in Nat \cup {None, Error}
  BY DEF TypeOK, LastGoodCopy

LEMMA WithoutType ==
  ASSUME TypeOK, NEW r \in Requests, NEW until \in Nat \cup {None},
         SettleWithout(r, until), refusal' \in Nat
  PROVE  TypeOK'
  BY CopyType DEF TypeOK, SettleWithout, Idle, Asking, Answered, Refused, Failed

LEMMA NextType ==
  ASSUME TypeOK, [Next]_vars PROVE TypeOK'
<1> USE DEF TypeOK
<1>1. ASSUME NEW r \in Requests, ServeFresh(r) PROVE TypeOK'
  BY <1>1 DEF ServeFresh, Fresh
<1>2. ASSUME NEW r \in Requests, ServeInBackoff(r) PROVE TypeOK'
  BY <1>2, CopyType DEF ServeInBackoff
<1>3. ASSUME NEW r \in Requests, Ask(r) PROVE TypeOK'
  BY <1>3 DEF Ask, Asking
<1>4. ASSUME NEW r \in Requests, Answer(r) PROVE TypeOK'
  <2>1. req[r] \in Asking
    BY <1>4 DEF Answer, Idle, Asking, Answered, Refused, Failed
  <2>2. req'[r] \in Answered \cup Failed \cup Refused
    BY <1>4, <2>1 DEF Answer, Asking, Answered, Refused, Failed
  <2> QED BY <1>4, <2>2 DEF Answer
<1>5. ASSUME NEW r \in Requests, SettleList(r) PROVE TypeOK'
  <2>1. req[r] \in Answered
    BY <1>5 DEF SettleList, CacheList, Idle, Asking, Answered, Refused, Failed
  <2> QED BY <1>5, <2>1 DEF SettleList, CacheList, Answered
<1>6. ASSUME NEW r \in Requests, SettleFailed(r) PROVE TypeOK'
  BY <1>6, WithoutType DEF SettleFailed
<1>7. ASSUME NEW r \in Requests, SettleRefused(r) PROVE TypeOK'
  <2>1. req[r] \in Refused
    BY <1>7 DEF SettleRefused, Idle, Asking, Answered, Refused, Failed
  <2>2. req[r].wait \in Nat
    BY <2>1 DEF Refused
  <2>3. now + req[r].wait \in Nat /\ refusal' \in Nat
    BY <1>7, <2>2 DEF SettleRefused, Max2
  <2> QED BY <1>7, <2>3, WithoutType DEF SettleRefused
<1>8. ASSUME Tick PROVE TypeOK'
  BY <1>8 DEF Tick
<1>9. ASSUME UNCHANGED vars PROVE TypeOK'
  BY <1>9 DEF vars
<1> QED BY <1>1, <1>2, <1>3, <1>4, <1>5, <1>6, <1>7, <1>8, <1>9 DEF Next

\* The variables of the release route keep their types in every behaviour: the
\* cached copy always has its date, a backoff is a time (releases.js:77-110).
THEOREM TypeCorrect == Spec => []TypeOK
  BY InitType, NextType, PTL DEF Spec

-----------------------------------------------------------------------------
(* The spacing of the fetches.                                             *)

\* Whoever settled last left a copy dated then, or a backoff counted from then;
\* results that settled before it cannot take either away.
SpacedInv ==
    settled # None =>
        \/ cached # None /\ cached.at = settled
        \/ backoff # None /\ \E gap \in Waits \cup {RetryTime} : backoff = settled + gap

LEMMA InitSpaced == Init => SpacedInv
  BY DEF Init, SpacedInv

LEMMA NextSpaced ==
  ASSUME TypeOK, SpacedInv, [Next]_vars PROVE SpacedInv'
<1> USE DEF SpacedInv
<1>1. ASSUME UNCHANGED <<settled, cached, backoff>> PROVE SpacedInv'
  BY <1>1
<1>2. ASSUME NEW r \in Requests, SettleList(r) PROVE SpacedInv'
  <2>1. cached'.at = now /\ settled' = now
    BY <1>2 DEF SettleList, CacheList
  <2>2. req[r] \in Answered
    BY <1>2 DEF SettleList, CacheList, TypeOK, Idle, Asking, Answered, Refused, Failed
  <2>3. cached' \in Copies
    BY <1>2, <2>2 DEF SettleList, CacheList, Answered, TypeOK, Copies
  <2>4. cached' # None
    BY <2>3
  <2> QED BY <2>1, <2>4
<1>3. ASSUME NEW r \in Requests, SettleFailed(r) PROVE SpacedInv'
  BY <1>3 DEF SettleFailed, SettleWithout, TypeOK
<1>4. ASSUME NEW r \in Requests, SettleRefused(r) PROVE SpacedInv'
  <2>1. req[r].wait \in Waits \cup {RetryTime}
    BY <1>4 DEF SettleRefused, TypeOK, Idle, Asking, Answered, Refused, Failed
  <2>2. backoff' = now + req[r].wait /\ settled' = now
    BY <1>4 DEF SettleRefused, SettleWithout
  <2>3. req[r].wait \in Nat /\ now \in Nat
    BY <2>1 DEF TypeOK
  <2>4. now + req[r].wait \in Nat
    BY <2>3
  <2> QED BY <2>1, <2>2, <2>4
<1> QED
  BY <1>1, <1>2, <1>3, <1>4
     DEF Next, vars, ServeFresh, ServeInBackoff, Ask, Answer, Tick

\* However many requests are under way together, GitHub is not asked again
\* before one of the waits has passed since a fetch last settled
\* (releases.js:82-110).
THEOREM FetchesAreSpaced == Spec => AsksSpaced
<1>1. ASSUME TypeOK, SpacedInv, NEW r \in Requests, Ask(r), settled # None
      PROVE  \E gap \in Gaps : now >= settled + gap
  BY <1>1 DEF TypeOK, SpacedInv, Ask, Fresh, LeftAlone, Gaps
<1>2. TypeOK /\ SpacedInv /\ [Next]_vars
        => [\A r \in Requests :
              Ask(r) /\ settled # None => \E gap \in Gaps : now >= settled + gap]_vars
  BY <1>1
<1>3. TypeOK /\ SpacedInv /\ [Next]_vars => TypeOK' /\ SpacedInv'
  BY NextType, NextSpaced
<1> QED BY <1>2, <1>3, InitType, InitSpaced, PTL DEF Spec, AsksSpaced

-----------------------------------------------------------------------------
(* The age of what is served.                                              *)

\* A fetch is at most FetchTimeout old while it is under way, and so is a list
\* when it is cached.
DatedInv ==
    /\ \A r \in Requests :
          /\ req[r] # Idle => req[r].at <= now /\ now <= req[r].at + FetchTimeout
          /\ req[r].st = "answered" => req[r].at <= req[r].asof
    /\ cached # None => cached.at <= cached.asof + FetchTimeout

LEMMA InitDated == Init => DatedInv
  BY DEF Init, DatedInv, Idle

LEMMA NextDated ==
  ASSUME TypeOK, DatedInv, [Next]_vars PROVE DatedInv'
<1> USE DEF TypeOK, DatedInv
<1>1. ASSUME UNCHANGED <<now, req, cached>> PROVE DatedInv'
  BY <1>1
<1>2. ASSUME NEW r \in Requests, Ask(r) PROVE DatedInv'
  <2>1. req'[r] = [st |-> "asking", at |-> now]
    BY <1>2 DEF Ask
  <2>2. \A q \in Requests \ {r} : req'[q] = req[q]
    BY <1>2 DEF Ask
  <2> QED BY <1>2, <2>1, <2>2 DEF Ask
<1>3. ASSUME NEW r \in Requests, Answer(r) PROVE DatedInv'
  <2>1. req[r] \in Asking
    BY <1>3 DEF Answer, Idle, Asking, Answered, Refused, Failed
  <2>2. /\ req'[r].at = req[r].at
        /\ req'[r].st = "answered" => req'[r].asof = now
    BY <1>3, <2>1 DEF Answer, Asking
  <2>3. \A q \in Requests \ {r} : req'[q] = req[q]
    BY <1>3 DEF Answer
  <2>4. req[r].at <= now /\ now <= req[r].at + FetchTimeout
    BY <2>1 DEF Asking, Idle
  <2> QED BY <1>3, <2>2, <2>3, <2>4 DEF Answer
<1>4. ASSUME NEW r \in Requests, SettleList(r) PROVE DatedInv'
  <2>1. req[r] \in Answered
    BY <1>4 DEF SettleList, CacheList, Idle, Asking, Answered, Refused, Failed
  <2>2. now <= req[r].asof + FetchTimeout
    BY <2>1 DEF Answered, Idle
  <2>3. cached'.at = now /\ cached'.asof = req[r].asof
    BY <1>4 DEF SettleList, CacheList
  <2>4. req'[r] = Idle /\ \A q \in Requests \ {r} : req'[q] = req[q]
    BY <1>4 DEF SettleList, CacheList
  <2> QED BY <1>4, <2>2, <2>3, <2>4 DEF SettleList, CacheList, Idle
<1>5. ASSUME NEW r \in Requests, SettleFailed(r) \/ SettleRefused(r) PROVE DatedInv'
  <2>1. req'[r] = Idle /\ \A q \in Requests \ {r} : req'[q] = req[q]
    BY <1>5 DEF SettleFailed, SettleRefused, SettleWithout
  <2> QED BY <1>5, <2>1 DEF SettleFailed, SettleRefused, SettleWithout, Idle
<1>6. ASSUME Tick PROVE DatedInv'
  <2>1. ASSUME NEW r \in Requests, req[r] # Idle PROVE req[r].at \in Nat
    BY <2>1 DEF Asking, Answered, Refused, Failed
  <2> QED BY <1>6, <2>1 DEF Tick
<1> QED
  BY <1>1, <1>2, <1>3, <1>4, <1>5, <1>6 DEF Next, vars, ServeFresh, ServeInBackoff

\* A list served from the cache is one GitHub gave less than the cache's and a
\* fetch's time ago, though the cache counts from the end of the fetch
\* (releases.js:83, 91-102).
THEOREM ServedListsAreFresh == Spec => ServedFresh
<1>1. ASSUME TypeOK, DatedInv, NEW r \in Requests, ServeFresh(r)
      PROVE  now < reply'[r] + CacheTime + FetchTimeout
  <2>1. reply'[r] = cached.asof /\ Fresh
    BY <1>1 DEF ServeFresh, TypeOK
  <2> QED BY <1>1, <2>1 DEF Fresh, TypeOK, DatedInv
<1>2. TypeOK /\ DatedInv /\ [Next]_vars
        => [\A r \in Requests :
              ServeFresh(r) => now < reply'[r] + CacheTime + FetchTimeout]_vars
  BY <1>1
<1>3. TypeOK /\ DatedInv /\ [Next]_vars => TypeOK' /\ DatedInv'
  BY NextType, NextDated
<1> QED BY <1>2, <1>3, InitType, InitDated, PTL DEF Spec, ServedFresh
=============================================================================
