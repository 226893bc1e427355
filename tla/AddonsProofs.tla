---------------------------- MODULE AddonsProofs ----------------------------
(***************************************************************************)
(* Proofs about the server's copies of the registry and the readmes, and   *)
(* about the page that shows them, for any requests, keys, urls, registry  *)
(* contents and times.                                                     *)
(*                                                                         *)
(* That an answer is recent is not inductive by itself: it needs how old a *)
(* copy's contents may be by the age of the copy, and a reply's by the age *)
(* of its fetch.  That a readme is of its url needs it of replies still on *)
(* their way.                                                              *)
(***************************************************************************)
EXTENDS AddonsPage, TLAPS

\* A copy that is still fresh was at GitHub at most one fetch before it came.
IsRecent(copy) == copy.at < CacheAge => copy.read <= copy.at + FetchAge

SoundRegistryCopies == {copy \in RegistryCopies : IsRecent(copy)}
SoundReadmeCopies(u) == {copy \in ReadmeCopies : copy.of = u /\ IsRecent(copy)}

\* A reply left GitHub after its fetch was sent, and is of the url it asked for.
SoundRegistryFetches ==
    {q \in RegistryFetches : q.reply # NoCopy => q.reply.read <= q.age}
SoundReadmeFetches ==
    {q \in ReadmeFetches :
        /\ q.url \in ReadmeUrls
        /\ q.reply # NoCopy => q.reply.of = q.url /\ q.reply.read <= q.age}

SoundAnswers ==
    {answer \in Answers :
        /\ answer.kind \in {"registry", "readme"} => ~ answer.stale
        /\ answer.kind = "readme" => answer.url \in ReadmeUrls /\ answer.of = answer.url}
SoundDone == [stage : {"done"}, want : Wants, answer : SoundAnswers]

UnderWay == SoundRegistryFetches \cup SoundReadmeFetches \cup SoundDone

Inv ==
    /\ published \in Registries
    /\ registry \in SoundRegistryCopies \cup {NoCopy}
    /\ readmes \in [Urls -> ReadmeCopies \cup {NoCopy}]
    /\ \A u \in Urls : readmes[u] \in SoundReadmeCopies(u) \cup {NoCopy}
    /\ requests \in [Requests -> UnderWay \cup {NoRequest}]

-----------------------------------------------------------------------------
(* What a request becomes.                                                 *)

\* NoRequest is no request.
LEMMA NotNoRequest == NoRequest \notin UnderWay
<1>1. SoundAnswers \subseteq Answers
  BY DEF SoundAnswers
<1>2. UnderWay \subseteq RegistryFetches \cup ReadmeFetches \cup Done
  BY <1>1 DEF UnderWay, SoundRegistryFetches, SoundReadmeFetches, SoundDone, Done
<1> QED BY <1>2, AddonsAssumption

\* A request's stage says which of the three it is.
LEMMA Stages ==
    ASSUME Inv, NEW r \in Requests
    PROVE /\ requests[r] = NoRequest <=> requests[r] \notin UnderWay
          /\ InStage(r, "registry") <=> requests[r] \in SoundRegistryFetches
          /\ InStage(r, "readme") <=> requests[r] \in SoundReadmeFetches
          /\ InStage(r, "done") <=> requests[r] \in SoundDone
<1>1. NoRequest \notin UnderWay
  BY NotNoRequest
<1>2. /\ \A q \in SoundRegistryFetches : q.stage = "registry"
      /\ \A q \in SoundReadmeFetches : q.stage = "readme"
      /\ \A q \in SoundDone : q.stage = "done"
  BY DEF SoundRegistryFetches, SoundReadmeFetches, SoundDone, RegistryFetches, ReadmeFetches
<1>3. requests[r] \in UnderWay \cup {NoRequest}
  BY DEF Inv
<1> QED BY <1>1, <1>2, <1>3 DEF UnderWay, InStage

\* An answer that is no markdown and no registry is sound whatever happened.
LEMMA PlainAnswer ==
    ASSUME NEW want \in Wants, NEW kind \in {"none", "error", "lost"}
    PROVE /\ Answer(want, [kind |-> kind]) \in UnderWay
          /\ Answer(want, [kind |-> kind]).want = want
BY DEF Answer, UnderWay, SoundDone, SoundAnswers, Answers

\* A readme is asked for, or answered from a copy that is fresh and of its url.
LEMMA AskedReadme ==
    ASSUME Inv, NEW k \in Keys, NEW u \in ReadmeUrls
    PROVE AskReadme(k, u) \in UnderWay /\ AskReadme(k, u).want = k
<1>1. u \in Urls /\ k \in Wants /\ CacheAge \in Nat /\ FetchAge \in Nat /\ CacheAge > 0
  BY AddonsAssumption DEF Wants
<1>2. CASE IsFresh(readmes[u])
  <2> DEFINE copy == readmes[u]
  <2>1. copy \in SoundReadmeCopies(u) /\ copy.at < CacheAge
    BY <1>1, <1>2 DEF Inv, IsFresh
  <2>2. copy.of = u /\ copy.read \in Nat /\ copy.at \in Nat /\ copy.read <= copy.at + FetchAge
    BY <2>1 DEF SoundReadmeCopies, ReadmeCopies, IsRecent, Oldest
  <2>3. (copy.read >= Oldest) = FALSE
    BY <1>1, <2>1, <2>2 DEF Oldest
  <2>4. ReadmeAnswer(copy, u) = [kind |-> "readme", url |-> u, of |-> u, stale |-> FALSE]
    BY <2>2, <2>3, Zenon DEF ReadmeAnswer
  <2>5. ReadmeAnswer(copy, u) \in SoundAnswers
    BY <1>1, <2>4 DEF SoundAnswers, Answers
  <2>6. AskReadme(k, u) = Answer(k, ReadmeAnswer(copy, u))
    BY <1>2 DEF AskReadme
  <2> QED BY <1>1, <2>5, <2>6 DEF Answer, SoundDone, UnderWay
<1>3. CASE ~ IsFresh(readmes[u])
  <2>1. AskReadme(k, u) = [stage |-> "readme", want |-> k, url |-> u, age |-> 0, reply |-> NoCopy]
    BY <1>3 DEF AskReadme
  <2> QED BY <1>1, <2>1 DEF UnderWay, SoundReadmeFetches, ReadmeFetches
<1> QED BY <1>2, <1>3

\* Whatever the registry has for what was wanted, the request goes on sound.
LEMMA AnsweredFromRegistry ==
    ASSUME Inv, NEW want \in Wants, NEW known, NEW failed \in BOOLEAN,
           known.data \in Registries, known.read \in Nat,
           failed \/ known.read < Oldest
    PROVE /\ WithRegistry(want, known, failed) \in UnderWay
          /\ WithRegistry(want, known, failed).want = want
<1>1. CASE want = List
  <2>1. known.read >= Oldest /\ ~ failed <=> FALSE
    BY AddonsAssumption DEF Oldest
  <2>2. RegistryAnswer(known, failed)
           = [kind |-> "registry", data |-> known.data, stale |-> FALSE]
    BY <2>1 DEF RegistryAnswer
  <2>3. RegistryAnswer(known, failed) \in SoundAnswers
    BY <2>2 DEF SoundAnswers, Answers
  <2>4. WithRegistry(want, known, failed) = Answer(List, RegistryAnswer(known, failed))
    BY <1>1 DEF WithRegistry
  <2> QED BY <1>1, <2>3, <2>4 DEF Answer, SoundDone, UnderWay, Wants
<1>2. CASE want # List
  <2>1. want \in Keys
    BY <1>2 DEF Wants
  <2>2. CASE known.data[want] \in {Absent, NoReadme}
    <3>1. WithRegistry(want, known, failed) = Answer(want, [kind |-> "none"])
      BY <1>2, <2>2 DEF WithRegistry
    <3> QED BY <3>1, PlainAnswer
  <2>3. CASE known.data[want] \notin {Absent, NoReadme} \cup ReadmeUrls
    <3>1. WithRegistry(want, known, failed) = Answer(want, [kind |-> "error"])
      BY <1>2, <2>3 DEF WithRegistry, ErrorAnswer
    <3> QED BY <3>1, PlainAnswer
  <2>4. CASE known.data[want] \notin {Absent, NoReadme} /\ known.data[want] \in ReadmeUrls
    <3>1. WithRegistry(want, known, failed) = AskReadme(want, known.data[want])
      BY <1>2, <2>4 DEF WithRegistry
    <3> QED BY <2>1, <2>4, <3>1, AskedReadme
  <2> QED BY <2>2, <2>3, <2>4
<1> QED BY <1>1, <1>2

LEMMA AskedSound ==
    ASSUME Inv, NEW want \in Wants
    PROVE Asked(want) \in UnderWay /\ Asked(want).want = want
<1>1. CASE IsFresh(registry)
  <2>1. registry \in SoundRegistryCopies /\ registry.at < CacheAge
    BY <1>1 DEF Inv, IsFresh
  <2>2. /\ registry.data \in Registries /\ registry.read \in Nat /\ registry.at \in Nat
        /\ registry.read <= registry.at + FetchAge
    BY <2>1 DEF SoundRegistryCopies, RegistryCopies, IsRecent
  <2>3. registry.read < Oldest
    BY <2>1, <2>2, AddonsAssumption DEF Oldest
  <2> QED BY <1>1, <2>2, <2>3, AnsweredFromRegistry DEF Asked
<1>2. CASE ~ IsFresh(registry)
  <2>1. Asked(want) = [stage |-> "registry", want |-> want, age |-> 0, reply |-> NoCopy]
    BY <1>2 DEF Asked
  <2> QED BY <2>1, AddonsAssumption DEF UnderWay, SoundRegistryFetches, RegistryFetches
<1> QED BY <1>1, <1>2

-----------------------------------------------------------------------------
(* The server's steps.  Each keeps the invariant, and none of its own       *)
(* takes a request away or changes what it wants.                          *)

Kept ==
    \A r \in Requests : requests[r] # NoRequest =>
        requests'[r] # NoRequest /\ requests'[r].want = requests[r].want

LEMMA InitInv == Init => Inv
BY DEF Init, Inv

\* A step that changes one request alone.
LEMMA OneRequest ==
    ASSUME Inv, NEW r \in Requests, NEW q \in UnderWay \cup {NoRequest},
           requests' = [requests EXCEPT ![r] = q],
           published' = published, registry' = registry, readmes' = readmes
    PROVE Inv'
<1>1. requests' \in [Requests -> UnderWay \cup {NoRequest}]
  BY DEF Inv
<1> QED BY <1>1 DEF Inv, UnderWay, SoundRegistryFetches, SoundReadmeFetches, SoundDone,
                    SoundAnswers, SoundRegistryCopies, SoundReadmeCopies, IsRecent

\* One that makes q of request r, which wants what r wanted, keeps the others.
LEMMA KeptByOne ==
    ASSUME Inv, NEW r \in Requests, NEW q \in UnderWay,
           requests' = [requests EXCEPT ![r] = q], q.want = requests[r].want
    PROVE Kept
BY NotNoRequest DEF Inv, Kept

LEMMA RequestStep ==
    ASSUME Inv, NEW r \in Requests, NEW want \in Wants, Request(r, want)
    PROVE Inv'
BY AskedSound, OneRequest DEF Request

LEMMA ReceiveStep ==
    ASSUME Inv, NEW r \in Requests, Receive(r)
    PROVE Inv'
BY OneRequest DEF Receive

\* What GitHub serves is as old as nothing, and from the url that was asked.
LEMMA GitHubServesStep ==
    ASSUME Inv, NEW r \in Requests, GitHubServes(r)
    PROVE Inv' /\ Kept
<1> DEFINE q == requests[r]
<1>1. UNCHANGED <<published, registry, readmes>>
  BY DEF GitHubServes
<1>2. Oldest \in Nat
  BY AddonsAssumption DEF Oldest
<1>3. CASE InStage(r, "registry")
  <2> DEFINE read == [data |-> published, read |-> 0]
             served == [q EXCEPT !.reply = read]
  <2>1. q \in SoundRegistryFetches /\ q.stage = "registry"
    BY <1>3, Stages DEF InStage
  <2>2. requests' = [requests EXCEPT ![r] = served]
    BY <2>1 DEF GitHubServes, InStage
  <2>3. read \in RegistryReads /\ read.read = 0
    BY <1>2 DEF Inv, RegistryReads
  <2>4. served \in UnderWay /\ served.want = q.want
    BY <2>1, <2>3 DEF UnderWay, SoundRegistryFetches, RegistryFetches
  <2> HIDE DEF served
  <2> QED BY <1>1, <2>2, <2>4, OneRequest, KeptByOne
<1>4. CASE InStage(r, "readme")
  <2> DEFINE read == [of |-> q.url, read |-> 0]
             served == [q EXCEPT !.reply = read]
  <2>1. q \in SoundReadmeFetches /\ q.stage = "readme"
    BY <1>4, Stages DEF InStage
  <2>2. requests' = [requests EXCEPT ![r] = served]
    BY <2>1 DEF GitHubServes, InStage
  <2>3. read \in ReadmeReads /\ read.read = 0 /\ read.of = q.url
    BY <1>2, <2>1 DEF ReadmeReads, SoundReadmeFetches, ReadmeFetches
  <2>4. served \in UnderWay /\ served.want = q.want
    BY <2>1, <2>3 DEF UnderWay, SoundReadmeFetches, ReadmeFetches
  <2> HIDE DEF served
  <2> QED BY <1>1, <2>2, <2>4, OneRequest, KeptByOne
<1> QED BY <1>3, <1>4 DEF GitHubServes

\* A registry that arrives was at GitHub when its fetch was under way.
LEMMA RegistryArrivesStep ==
    ASSUME Inv, NEW r \in Requests, RegistryArrives(r)
    PROVE Inv' /\ Kept
<1> DEFINE q == requests[r]
           reply == q.reply
           copy == [data |-> reply.data, read |-> reply.read, at |-> 0]
           next == WithRegistry(q.want, reply, FALSE)
<1>1. q \in SoundRegistryFetches /\ reply # NoCopy
  BY Stages DEF RegistryArrives
<1>2. q.want \in Wants /\ reply \in RegistryReads /\ reply.read <= q.age
      /\ q.age \in 0 .. FetchAge
  BY <1>1 DEF SoundRegistryFetches, RegistryFetches
<1>3. /\ reply.data \in Registries /\ reply.read \in Nat /\ reply.read \in 0 .. Oldest
      /\ reply.read <= FetchAge
  BY <1>2, AddonsAssumption DEF RegistryReads
<1>4. reply.read < Oldest
  BY <1>3, AddonsAssumption DEF Oldest
<1>5. next \in UnderWay /\ next.want = q.want
  BY <1>2, <1>3, <1>4, AnsweredFromRegistry
<1>6. copy \in SoundRegistryCopies
  BY <1>3, AddonsAssumption DEF SoundRegistryCopies, RegistryCopies, IsRecent
<1>7. registry' = copy /\ requests' = [requests EXCEPT ![r] = next]
      /\ UNCHANGED <<published, readmes>>
  BY DEF RegistryArrives
<1> HIDE DEF next, copy
<1>8. requests' \in [Requests -> UnderWay \cup {NoRequest}]
  BY <1>5, <1>7 DEF Inv
<1>9. Inv'
  BY <1>6, <1>7, <1>8 DEF Inv
<1> QED BY <1>5, <1>7, <1>9, KeptByOne

\* After a failed fetch an older registry is as good as the request can have.
LEMMA RegistryFailsStep ==
    ASSUME Inv, NEW r \in Requests, RegistryFails(r)
    PROVE Inv' /\ Kept
<1> DEFINE q == requests[r]
           next == IF registry # NoCopy THEN WithRegistry(q.want, registry, TRUE)
                                        ELSE Answer(q.want, ErrorAnswer)
<1>1. q.want \in Wants
  BY Stages DEF RegistryFails, SoundRegistryFetches, RegistryFetches
<1>2. next \in UnderWay /\ next.want = q.want
  <2>1. CASE registry # NoCopy
    <3>1. registry.data \in Registries /\ registry.read \in Nat
      BY <2>1, AddonsAssumption DEF Inv, SoundRegistryCopies, RegistryCopies, Oldest
    <3> QED BY <1>1, <2>1, <3>1, AnsweredFromRegistry
  <2>2. CASE registry = NoCopy
    BY <1>1, <2>2, PlainAnswer DEF ErrorAnswer
  <2> QED BY <2>1, <2>2
<1>3. requests' = [requests EXCEPT ![r] = next] /\ UNCHANGED <<published, registry, readmes>>
  BY DEF RegistryFails
<1> HIDE DEF next
<1> QED BY <1>2, <1>3, OneRequest, KeptByOne

\* A readme that arrives is kept for the url it was fetched from.
LEMMA ReadmeArrivesStep ==
    ASSUME Inv, NEW r \in Requests, ReadmeArrives(r)
    PROVE Inv' /\ Kept
<1> DEFINE q == requests[r]
           reply == q.reply
           copy == [of |-> reply.of, read |-> reply.read, at |-> 0]
           shown == [kind |-> "readme", url |-> q.url, of |-> q.url, stale |-> FALSE]
           next == Answer(q.want, ReadmeAnswer(copy, q.url))
<1>1. q \in SoundReadmeFetches /\ reply # NoCopy
  BY Stages DEF ReadmeArrives
<1>2. /\ q.want \in Keys /\ q.url \in Urls /\ q.url \in ReadmeUrls
      /\ reply \in ReadmeReads /\ reply.of = q.url
      /\ reply.read <= q.age /\ q.age \in 0 .. FetchAge
  BY <1>1 DEF SoundReadmeFetches, ReadmeFetches
<1>3. reply.read \in Nat /\ reply.read \in 0 .. Oldest /\ reply.read <= FetchAge
  BY <1>2, AddonsAssumption DEF ReadmeReads
<1>4. (copy.read >= Oldest) = FALSE
  BY <1>3, AddonsAssumption DEF Oldest
<1>5. copy \in SoundReadmeCopies(q.url) /\ copy \in ReadmeCopies /\ copy.of = q.url
  BY <1>2, <1>3, AddonsAssumption DEF SoundReadmeCopies, ReadmeCopies, IsRecent
<1>6. next = Answer(q.want, shown)
  BY <1>4, <1>5, Zenon DEF ReadmeAnswer
<1>7. shown \in SoundAnswers
  BY <1>2 DEF SoundAnswers, Answers
<1>8. next \in UnderWay /\ next.want = q.want
  BY <1>2, <1>6, <1>7 DEF Answer, UnderWay, SoundDone, Wants
<1>9. readmes' = [readmes EXCEPT ![q.url] = copy] /\ requests' = [requests EXCEPT ![r] = next]
      /\ UNCHANGED <<published, registry>>
  BY DEF ReadmeArrives
<1> HIDE DEF next, copy
<1>10. requests' \in [Requests -> UnderWay \cup {NoRequest}]
  BY <1>8, <1>9 DEF Inv
<1>11. /\ readmes' \in [Urls -> ReadmeCopies \cup {NoCopy}]
       /\ \A u \in Urls : readmes'[u] \in SoundReadmeCopies(u) \cup {NoCopy}
  BY <1>2, <1>5, <1>9 DEF Inv
<1>12. Inv'
  BY <1>9, <1>10, <1>11 DEF Inv
<1> QED BY <1>8, <1>9, <1>12, KeptByOne

LEMMA ReadmeFailsStep ==
    ASSUME Inv, NEW r \in Requests, ReadmeFails(r)
    PROVE Inv' /\ Kept
<1> DEFINE next == Answer(requests[r].want, ErrorAnswer)
<1>1. requests[r].want \in Wants
  BY Stages DEF ReadmeFails, SoundReadmeFetches, ReadmeFetches, Wants
<1>2. next \in UnderWay /\ next.want = requests[r].want
  BY <1>1, PlainAnswer DEF ErrorAnswer
<1>3. requests' = [requests EXCEPT ![r] = next] /\ UNCHANGED <<published, registry, readmes>>
  BY DEF ReadmeFails
<1> HIDE DEF next
<1> QED BY <1>2, <1>3, OneRequest, KeptByOne

\* The copies are gone, and every fetch under way ends in a lost connection.
LEMMA RestartStep ==
    ASSUME Inv, ServerRestart
    PROVE Inv' /\ Kept
<1>1. ASSUME NEW r \in Requests
      PROVE /\ requests'[r] \in UnderWay \cup {NoRequest}
            /\ requests[r] # NoRequest =>
                  requests'[r] # NoRequest /\ requests'[r].want = requests[r].want
  <2> DEFINE lost == Answer(requests[r].want, [kind |-> "lost"])
  <2>1. CASE IsFetch(r)
    <3>1. requests[r].want \in Wants
      BY <2>1, Stages DEF IsFetch, SoundRegistryFetches, SoundReadmeFetches,
                          RegistryFetches, ReadmeFetches, Wants
    <3>2. lost \in UnderWay /\ lost.want = requests[r].want
      BY <3>1, PlainAnswer
    <3>3. requests'[r] = lost
      BY <2>1 DEF ServerRestart
    <3>4. lost # NoRequest
      BY <3>2, NotNoRequest
    <3> QED BY <3>2, <3>3, <3>4
  <2>2. CASE ~ IsFetch(r)
    BY <2>2 DEF ServerRestart, Inv
  <2> QED BY <2>1, <2>2
<1>2. requests' \in [Requests -> UnderWay \cup {NoRequest}]
  BY <1>1 DEF ServerRestart
<1> QED BY <1>1, <1>2 DEF ServerRestart, Inv, Kept

\* A tick adds one to an age below its bound, and leaves it there.
LEMMA LaterAge ==
    ASSUME NEW limit \in Nat, NEW age \in 0 .. limit
    PROVE /\ Later(age, limit) \in 0 .. limit
          /\ Later(age, limit) <= age + 1
          /\ Later(age, limit) < limit => age < limit /\ Later(age, limit) = age + 1
BY DEF Later

\* A fetch grows older with the reply it carries.
LEMMA OlderFetch ==
    ASSUME Inv, Tick, NEW r \in Requests, IsFetch(r)
    PROVE LET older == [requests[r] EXCEPT !.age = @ + 1, !.reply = OlderRead(@)] IN
          older \in UnderWay /\ older.want = requests[r].want
<1> DEFINE q == requests[r]
           reply == OlderRead(q.reply)
           age == q.age + 1
           older == [q EXCEPT !.age = age, !.reply = reply]
<1>1. q.age < FetchAge /\ Oldest \in Nat /\ FetchAge \in Nat
  <2>1. \A p \in Requests : IsFetch(p) => requests[p].age < FetchAge
    BY Zenon DEF Tick
  <2> QED BY <2>1, AddonsAssumption DEF Oldest
<1>2. CASE InStage(r, "registry")
  <2>1. q \in SoundRegistryFetches
    BY <1>2, Stages
  <2>2. age \in 0 .. FetchAge
    BY <1>1, <2>1 DEF SoundRegistryFetches, RegistryFetches
  <2>3. reply \in RegistryReads \cup {NoCopy} /\ (reply # NoCopy => reply.read <= age)
    <3>1. CASE q.reply = NoCopy
      BY <3>1 DEF OlderRead
    <3>2. CASE q.reply # NoCopy
      <4> DEFINE read == Later(q.reply.read, Oldest)
      <4>1. q.reply \in RegistryReads /\ q.reply.read <= q.age /\ q.age \in Nat
        BY <2>1, <3>2 DEF SoundRegistryFetches, RegistryFetches
      <4>2. q.reply.read \in 0 .. Oldest
        BY <4>1 DEF RegistryReads
      <4>3. read \in 0 .. Oldest /\ read <= q.reply.read + 1
        BY <1>1, <4>2, LaterAge
      <4>4. read <= age
        BY <4>1, <4>2, <4>3
      <4>5. reply = [q.reply EXCEPT !.read = read]
        BY <3>2 DEF OlderRead
      <4> HIDE DEF read, reply, age
      <4> QED BY <4>1, <4>3, <4>4, <4>5 DEF RegistryReads
    <3> QED BY <3>1, <3>2
  <2> HIDE DEF reply, age
  <2>4. older \in SoundRegistryFetches /\ older.want = q.want
    BY <2>1, <2>2, <2>3 DEF SoundRegistryFetches, RegistryFetches
  <2> QED BY <2>4 DEF UnderWay, reply, age
<1>3. CASE InStage(r, "readme")
  <2>1. q \in SoundReadmeFetches
    BY <1>3, Stages
  <2>2. age \in 0 .. FetchAge
    BY <1>1, <2>1 DEF SoundReadmeFetches, ReadmeFetches
  <2>3. reply \in ReadmeReads \cup {NoCopy}
        /\ (reply # NoCopy => reply.of = q.url /\ reply.read <= age)
    <3>1. CASE q.reply = NoCopy
      BY <3>1 DEF OlderRead
    <3>2. CASE q.reply # NoCopy
      <4> DEFINE read == Later(q.reply.read, Oldest)
      <4>1. /\ q.reply \in ReadmeReads /\ q.reply.of = q.url
            /\ q.reply.read <= q.age /\ q.age \in Nat
        BY <2>1, <3>2 DEF SoundReadmeFetches, ReadmeFetches
      <4>2. q.reply.read \in 0 .. Oldest
        BY <4>1 DEF ReadmeReads
      <4>3. read \in 0 .. Oldest /\ read <= q.reply.read + 1
        BY <1>1, <4>2, LaterAge
      <4>4. read <= age
        BY <4>1, <4>2, <4>3
      <4>5. reply = [q.reply EXCEPT !.read = read]
        BY <3>2 DEF OlderRead
      <4> HIDE DEF read, reply, age
      <4> QED BY <4>1, <4>3, <4>4, <4>5 DEF ReadmeReads
    <3> QED BY <3>1, <3>2
  <2> HIDE DEF reply, age
  <2>4. older \in SoundReadmeFetches /\ older.want = q.want
    BY <2>1, <2>2, <2>3 DEF SoundReadmeFetches, ReadmeFetches
  <2> QED BY <2>4 DEF UnderWay, reply, age
<1> QED BY <1>2, <1>3 DEF IsFetch

\* A copy that is fresh after the tick was fresh before it, and so one tick
\* younger than it may be.
LEMMA OlderCopies ==
    ASSUME Inv
    PROVE /\ OlderCopy(registry) \in SoundRegistryCopies \cup {NoCopy}
          /\ \A u \in Urls : OlderCopy(readmes[u]) \in SoundReadmeCopies(u) \cup {NoCopy}
<1>1. Oldest \in Nat /\ FetchAge \in Nat /\ CacheAge \in Nat
  BY AddonsAssumption DEF Oldest
<1>2. ASSUME NEW copy, copy.read \in 0 .. Oldest, copy.at \in 0 .. CacheAge, IsRecent(copy)
      PROVE  /\ Later(copy.read, Oldest) \in 0 .. Oldest
             /\ Later(copy.at, CacheAge) \in 0 .. CacheAge
             /\ Later(copy.at, CacheAge) < CacheAge =>
                   Later(copy.read, Oldest) <= Later(copy.at, CacheAge) + FetchAge
  <2>1. /\ Later(copy.read, Oldest) \in 0 .. Oldest
        /\ Later(copy.read, Oldest) <= copy.read + 1
    BY <1>1, <1>2, LaterAge
  <2>2. /\ Later(copy.at, CacheAge) \in 0 .. CacheAge
        /\ Later(copy.at, CacheAge) < CacheAge
              => copy.at < CacheAge /\ Later(copy.at, CacheAge) = copy.at + 1
    BY <1>1, <1>2, LaterAge
  <2> QED BY <1>1, <1>2, <2>1, <2>2 DEF IsRecent
<1>3. OlderCopy(registry) \in SoundRegistryCopies \cup {NoCopy}
  <2>1. CASE registry = NoCopy
    BY <2>1 DEF OlderCopy
  <2>2. CASE registry # NoCopy
    <3> DEFINE read == Later(registry.read, Oldest)
               at == Later(registry.at, CacheAge)
    <3>1. registry \in RegistryCopies /\ IsRecent(registry)
      BY <2>2 DEF Inv, SoundRegistryCopies
    <3>2. registry.read \in 0 .. Oldest /\ registry.at \in 0 .. CacheAge
      BY <3>1 DEF RegistryCopies
    <3>3. /\ read \in 0 .. Oldest /\ at \in 0 .. CacheAge
          /\ at < CacheAge => read <= at + FetchAge
      BY <1>2, <3>1, <3>2
    <3>4. OlderCopy(registry) = [registry EXCEPT !.read = read, !.at = at]
      BY <2>2 DEF OlderCopy
    <3> HIDE DEF read, at
    <3> QED BY <3>1, <3>3, <3>4 DEF SoundRegistryCopies, RegistryCopies, IsRecent
  <2> QED BY <2>1, <2>2
<1>4. ASSUME NEW u \in Urls PROVE OlderCopy(readmes[u]) \in SoundReadmeCopies(u) \cup {NoCopy}
  <2> DEFINE copy == readmes[u]
  <2>1. CASE copy = NoCopy
    BY <2>1 DEF OlderCopy
  <2>2. CASE copy # NoCopy
    <3> DEFINE read == Later(copy.read, Oldest)
               at == Later(copy.at, CacheAge)
    <3>1. copy \in ReadmeCopies /\ copy.of = u /\ IsRecent(copy)
      BY <2>2 DEF Inv, SoundReadmeCopies
    <3>2. copy.read \in 0 .. Oldest /\ copy.at \in 0 .. CacheAge
      BY <3>1 DEF ReadmeCopies
    <3>3. /\ read \in 0 .. Oldest /\ at \in 0 .. CacheAge
          /\ at < CacheAge => read <= at + FetchAge
      BY <1>2, <3>1, <3>2
    <3>4. OlderCopy(copy) = [copy EXCEPT !.read = read, !.at = at]
      BY <2>2 DEF OlderCopy
    <3> HIDE DEF read, at
    <3> QED BY <3>1, <3>3, <3>4 DEF SoundReadmeCopies, ReadmeCopies, IsRecent
  <2> QED BY <2>1, <2>2
<1> QED BY <1>3, <1>4

LEMMA TickStep ==
    ASSUME Inv, Tick
    PROVE Inv' /\ Kept
<1>1. ASSUME NEW r \in Requests
      PROVE /\ requests'[r] \in UnderWay \cup {NoRequest}
            /\ requests[r] # NoRequest =>
                  requests'[r] # NoRequest /\ requests'[r].want = requests[r].want
  <2>1. CASE IsFetch(r)
    BY <2>1, OlderFetch, NotNoRequest DEF Tick
  <2>2. CASE ~ IsFetch(r)
    BY <2>2 DEF Tick, Inv
  <2> QED BY <2>1, <2>2
<1>2. requests' \in [Requests -> UnderWay \cup {NoRequest}]
  BY <1>1 DEF Tick
<1>3. /\ registry' \in SoundRegistryCopies \cup {NoCopy}
      /\ \A u \in Urls : readmes'[u] \in SoundReadmeCopies(u) \cup {NoCopy}
  BY OlderCopies DEF Tick
<1>4. readmes' \in [Urls -> ReadmeCopies \cup {NoCopy}]
  BY <1>3 DEF Tick, SoundReadmeCopies
<1> QED BY <1>1, <1>2, <1>3, <1>4 DEF Tick, Inv, Kept

LEMMA ServeStep ==
    ASSUME Inv, Serve
    PROVE Inv' /\ Kept
<1>1. ASSUME NEW data \in Registries, Publish(data) PROVE Inv' /\ Kept
  BY <1>1 DEF Publish, Inv, Kept
<1> QED
  BY <1>1, GitHubServesStep, RegistryArrivesStep, RegistryFailsStep, ReadmeArrivesStep,
     ReadmeFailsStep, TickStep, RestartStep DEF Serve, Fetched

LEMMA NextInv == Inv /\ [Next]_vars => Inv'
<1> SUFFICES ASSUME Inv, [Next]_vars PROVE Inv'
  OBVIOUS
<1>1. CASE UNCHANGED vars
  BY <1>1 DEF Inv, vars
<1> QED BY <1>1, ServeStep, ReceiveStep, RequestStep DEF Next

-----------------------------------------------------------------------------
(* What the invariant says of the answers.                                 *)

LEMMA InvIsTyped == Inv => AddonsTypeOK
<1> SUFFICES ASSUME Inv PROVE AddonsTypeOK
  OBVIOUS
<1>1. SoundAnswers \subseteq Answers
  BY DEF SoundAnswers
<1>2. UnderWay \subseteq RegistryFetches \cup ReadmeFetches \cup Done
  BY <1>1 DEF UnderWay, SoundRegistryFetches, SoundReadmeFetches, SoundDone, Done
<1>3. SoundRegistryCopies \subseteq RegistryCopies
  BY DEF SoundRegistryCopies
<1> QED BY <1>2, <1>3 DEF Inv, AddonsTypeOK

LEMMA InvIsRecent == Inv => ServedRecent
<1> SUFFICES ASSUME Inv, NEW r \in Requests, IsAnswered(r, "registry") \/ IsAnswered(r, "readme")
             PROVE  ~ requests[r].answer.stale
  BY DEF ServedRecent
<1>1. requests[r] \in SoundDone
  BY Stages DEF IsAnswered
<1> QED BY <1>1 DEF SoundDone, SoundAnswers, IsAnswered

LEMMA InvIsOfItsUrl == Inv => ReadmeOfItsUrl
<1> SUFFICES ASSUME Inv PROVE ReadmeOfItsUrl
  OBVIOUS
<1>1. ASSUME NEW r \in Requests, IsAnswered(r, "readme")
      PROVE  requests[r].answer.of = requests[r].answer.url
             /\ requests[r].answer.url \in ReadmeUrls
  <2>1. requests[r] \in SoundDone
    BY <1>1, Stages DEF IsAnswered
  <2> QED BY <1>1, <2>1 DEF SoundDone, SoundAnswers, IsAnswered
<1>2. \A u \in Urls : readmes[u] # NoCopy => readmes[u].of = u
  BY DEF Inv, SoundReadmeCopies
<1> QED BY <1>1, <1>2 DEF ReadmeOfItsUrl

\* The copies, the requests and their answers have their types
\* (routes/addons.js:11-64).
THEOREM AddonsTypeCorrect == Spec => []AddonsTypeOK
BY InitInv, NextInv, InvIsTyped, PTL DEF Spec

\* Whatever fetches overlap, fail or arrive out of order, an answer shows what
\* GitHub had less than a cache time and a fetch ago: an older registry only when
\* the request's own fetch failed, an older readme never (addons.js:37-64).
THEOREM AnswersAreRecent == Spec => []ServedRecent
BY InitInv, NextInv, InvIsRecent, PTL DEF Spec

\* The markdown of an answer, and of every copy, is of the url it is under, and
\* an answer's url is one the server may read (addons.js:53-64, 75-83).
THEOREM ReadmesAreOfTheirUrls == Spec => []ReadmeOfItsUrl
BY InitInv, NextInv, InvIsOfItsUrl, PTL DEF Spec

-----------------------------------------------------------------------------
(* The page.  It never asks the server anything but its own questions, and  *)
(* listens to at most one request of each kind, which is still to be       *)
(* answered and wants what the page shows.                                 *)

PageTypes ==
    /\ page \in PageStates
    /\ key \in Keys \cup {NoKey}
    /\ readme \in ReadmeStates
    /\ listens \in [Requests -> {"nobody", "registry", "readme"}]

\* The readme is that of the addon shown, if an addon is.
Shown ==
    /\ page.status = "away" => key = NoKey
    /\ readme.status = "idle" <=> AddonIn(page, key) = Absent
    /\ readme.status = "ready" => readme.key = key

Listened ==
    /\ page.status = "loading" <=> \E r \in Requests : listens[r] = "registry"
    /\ readme.status = "loading" <=> \E r \in Requests : listens[r] = "readme"
    /\ \A r \in Requests : listens[r] # "nobody" => requests[r] # NoRequest
    /\ \A r \in Requests : listens[r] = "readme" => key \in Keys /\ requests[r].want = key
    /\ \A r, q \in Requests : listens[r] # "nobody" /\ listens[r] = listens[q] => r = q

PageInv == Inv /\ PageTypes /\ Shown /\ Listened

LEMMA PageInitInv == PageInit => PageInv
<1> SUFFICES ASSUME PageInit PROVE PageInv
  OBVIOUS
<1>1. Inv
  BY InitInv DEF PageInit
<1>2. PageTypes
  BY DEF PageInit, PageTypes, PageStates, ReadmeStates
<1>3. Shown /\ Listened
  BY DEF PageInit, Shown, Listened, AddonIn
<1> QED BY <1>1, <1>2, <1>3 DEF PageInv

\* Showing an addon, on a page that listens to no readme: its readme is asked for
\* if it has one, and is then what the page waits for.
LEMMA ShowAddonStep ==
    ASSUME Inv, NEW state \in PageStates, NEW k \in Keys \cup {NoKey}, NEW r \in Requests,
           NEW before \in [Requests -> UnderWay \cup {NoRequest}],
           NEW listening \in [Requests -> {"nobody", "registry"}],
           ShowAddon(state, k, r, before, listening),
           page' = state, key' = k, UNCHANGED <<published, registry, readmes>>,
           state.status # "away", listening[r] = "nobody",
           state.status = "loading" <=> \E q \in Requests : listening[q] = "registry",
           \A q \in Requests : listening[q] # "nobody" => before[q] # NoRequest,
           \A p, q \in Requests : listening[p] # "nobody" /\ listening[p] = listening[q] => p = q
    PROVE PageInv'
<1> DEFINE addon == AddonIn(state, k)
<1>1. AddonIn(state, k)' = addon /\ AddonIn(page, key)' = addon
  BY DEF AddonIn
<1>2. CASE HasReadme(addon)
  <2>1. /\ readme' = [status |-> "loading"]
        /\ requests' = [before EXCEPT ![r] = Asked(k)]
        /\ listens' = [listening EXCEPT ![r] = "readme"]
    BY <1>2 DEF ShowAddon
  <2>2. addon # Absent
    BY <1>2 DEF HasReadme
  <2>3. k \in Keys /\ k \in Wants
    BY <2>2 DEF AddonIn, Wants
  <2>4. Asked(k) \in UnderWay /\ Asked(k).want = k /\ Asked(k) # NoRequest
    BY <2>3, AskedSound, NotNoRequest
  <2> HIDE DEF addon
  <2>5. requests' \in [Requests -> UnderWay \cup {NoRequest}]
    BY <2>1, <2>4
  <2>6. Inv'
    BY <2>5 DEF Inv
  <2>7. PageTypes'
    BY <2>1 DEF PageTypes, ReadmeStates
  <2>8. Shown'
    BY <1>1, <2>1, <2>2 DEF Shown
  <2>9. Listened'
    BY <2>1, <2>3, <2>4 DEF Listened
  <2> QED BY <2>6, <2>7, <2>8, <2>9 DEF PageInv
<1>3. CASE ~ HasReadme(addon)
  <2> DEFINE status == IF addon = Absent THEN "idle" ELSE "none"
  <2>1. readme' = [status |-> status] /\ requests' = before /\ listens' = listening
    BY <1>3 DEF ShowAddon
  <2>2. readme'.status = status
    BY <2>1
  <2> HIDE DEF addon
  <2>3. Inv'
    BY <2>1 DEF Inv
  <2>4. PageTypes'
    BY <2>1 DEF PageTypes, ReadmeStates
  <2>5. Shown'
    BY <1>1, <2>2 DEF Shown
  <2>6. Listened'
    BY <2>1, <2>2 DEF Listened
  <2> QED BY <2>3, <2>4, <2>5, <2>6 DEF PageInv
<1> QED BY <1>2, <1>3

\* What the server does, and what others ask of it, leaves the requests the page
\* listens to.
LEMMA OthersStep ==
    ASSUME PageInv, Others
    PROVE PageInv'
<1>1. UNCHANGED <<page, key, readme, listens>>
  BY DEF Others, pageVars
<1>2. Inv' /\ \A r \in Requests : listens[r] # "nobody" =>
                 requests'[r] # NoRequest /\ requests'[r].want = requests[r].want
  <2>1. CASE Serve
    BY <2>1, ServeStep DEF PageInv, Kept, Listened
  <2>2. ASSUME NEW q \in Requests, NEW want \in Wants, Request(q, want)
        PROVE  <1>2
    BY <2>2, RequestStep DEF PageInv, Listened, Request, Inv
  <2> QED BY <2>1, <2>2 DEF Others
<1>3. PageTypes' /\ Shown'
  BY <1>1 DEF PageInv, PageTypes, Shown, AddonIn
<1>4. Listened'
  BY <1>1, <1>2 DEF PageInv, Listened
<1> QED BY <1>2, <1>3, <1>4 DEF PageInv

LEMMA LeavePageStep ==
    ASSUME PageInv, LeavePage
    PROVE PageInv'
<1>1. Inv'
  BY DEF PageInv, LeavePage, vars, Inv
<1>2. PageTypes'
  BY DEF LeavePage, PageTypes, PageStates, ReadmeStates
<1>3. Shown' /\ Listened'
  BY DEF LeavePage, Shown, Listened, AddonIn
<1> QED BY <1>1, <1>2, <1>3 DEF PageInv

\* A page that is not open listens to nobody.
LEMMA OpenPageStep ==
    ASSUME PageInv, NEW r \in Requests, NEW k \in Keys \cup {NoKey}, OpenPage(k, r)
    PROVE PageInv'
<1>1. Inv' /\ List \in Wants
  BY RequestStep DEF PageInv, OpenPage, Wants
<1>2. \A q \in Requests : listens[q] = "nobody"
  <2>1. key \notin Keys
    BY NoKeyAssumption DEF PageInv, Shown, OpenPage, Wants
  <2> QED BY <2>1 DEF PageInv, Listened, PageTypes, OpenPage
<1>3. requests' = [requests EXCEPT ![r] = Asked(List)] /\ Asked(List) # NoRequest
  BY <1>1, AskedSound, NotNoRequest DEF PageInv, OpenPage, Request
<1>4. /\ page.status = "away" /\ page' = [status |-> "loading"] /\ key' = k
      /\ listens' = [listens EXCEPT ![r] = "registry"] /\ readme' = readme
  BY DEF OpenPage
<1>5. PageTypes'
  BY <1>4 DEF PageInv, PageTypes, PageStates
<1>6. readme.status = "idle"
  BY <1>4 DEF PageInv, Shown, AddonIn
<1>7. Shown'
  BY <1>4, <1>6 DEF Shown, AddonIn
<1>8. Listened'
  BY <1>2, <1>3, <1>4, <1>6 DEF PageInv, PageTypes, Inv, Listened
<1> QED BY <1>1, <1>5, <1>7, <1>8 DEF PageInv

LEMMA OpenAddonStep ==
    ASSUME PageInv, NEW r \in Requests, NEW k \in Keys \cup {NoKey}, OpenAddon(k, r)
    PROVE PageInv'
<1> DEFINE listening == NoLongerListening
<1>1. listening \in [Requests -> {"nobody", "registry"}]
  BY DEF PageInv, PageTypes, NoLongerListening
<1>2. /\ page.status = "loading" <=> \E q \in Requests : listening[q] = "registry"
      /\ \A q \in Requests : listening[q] # "nobody" => requests[q] # NoRequest
      /\ \A p, q \in Requests : listening[p] # "nobody" /\ listening[p] = listening[q] => p = q
  BY DEF PageInv, PageTypes, Listened, NoLongerListening
<1>3. requests \in [Requests -> UnderWay \cup {NoRequest}] /\ page \in PageStates /\ Inv
  BY DEF PageInv, PageTypes, Inv
<1>4. /\ page.status # "away" /\ key' = k /\ page' = page
      /\ UNCHANGED <<published, registry, readmes>>
      /\ ShowAddon(page, k, r, requests, listening)
  BY DEF OpenAddon
<1>5. CASE listening[r] = "nobody"
  <2> HIDE DEF listening
  <2> QED BY <1>1, <1>2, <1>3, <1>4, <1>5, ShowAddonStep
<1>6. CASE listening[r] # "nobody"
  \* Its request is not free, so this addon needs none.
  <2>1. ~ HasReadme(AddonIn(page, k))
    BY <1>2, <1>4, <1>6 DEF ShowAddon
  <2> DEFINE status == IF AddonIn(page, k) = Absent THEN "idle" ELSE "none"
  <2>2. readme' = [status |-> status] /\ requests' = requests /\ listens' = listening
    BY <1>4, <2>1 DEF ShowAddon
  <2>3. readme'.status = status /\ AddonIn(page, key)' = AddonIn(page, k)
    BY <1>4, <2>2 DEF AddonIn
  <2>4. Inv'
    BY <1>3, <1>4, <2>2 DEF Inv
  <2>5. PageTypes'
    BY <1>1, <1>3, <1>4, <2>2 DEF PageTypes, ReadmeStates
  <2> HIDE DEF listening
  <2>6. Shown'
    BY <1>4, <2>3 DEF Shown
  <2>7. Listened'
    BY <1>1, <1>2, <1>4, <2>2, <2>3 DEF Listened
  <2> QED BY <2>4, <2>5, <2>6, <2>7 DEF PageInv
<1> QED BY <1>5, <1>6

\* While the registry is awaited no addon is shown, and no readme listened to.
LEMMA RegistryShownStep ==
    ASSUME PageInv, NEW r \in Requests, RegistryShown(r)
    PROVE PageInv'
<1> DEFINE listening == [listens EXCEPT ![r] = "nobody"]
           before == [requests EXCEPT ![r] = NoRequest]
           state == PageState(requests[r].answer)
<1>1. Inv /\ requests[r] \in SoundDone
  BY Stages DEF PageInv, RegistryShown
<1>2. state \in PageStates /\ state.status \in {"ready", "error"}
  BY <1>1 DEF SoundDone, SoundAnswers, Answers, PageState, PageStates
<1>3. page.status = "loading" /\ listens[r] = "registry"
  BY DEF PageInv, Listened, RegistryShown
<1>4. readme.status = "idle"
  BY <1>3 DEF PageInv, Shown, AddonIn
<1>5. \A q \in Requests : listens[q] \in {"nobody", "registry"}
  BY <1>4 DEF PageInv, PageTypes, Listened
<1>6. /\ listening \in [Requests -> {"nobody", "registry"}] /\ listening[r] = "nobody"
      /\ \A q \in Requests : listening[q] = "nobody"
  BY <1>3, <1>5 DEF PageInv, PageTypes, Listened
<1>7. before \in [Requests -> UnderWay \cup {NoRequest}]
  BY <1>1 DEF Inv
<1>8. /\ page' = state /\ key' = key /\ UNCHANGED <<published, registry, readmes>>
      /\ ShowAddon(state, key, r, before, listening)
  BY DEF RegistryShown
<1>9. key \in Keys \cup {NoKey}
  BY DEF PageInv, PageTypes
<1> HIDE DEF listening, before, state
<1> QED BY <1>1, <1>2, <1>6, <1>7, <1>8, <1>9, ShowAddonStep

\* The answer the page awaits is to the addon it shows.
LEMMA ReadmeShownStep ==
    ASSUME PageInv, NEW r \in Requests, ReadmeShown(r)
    PROVE PageInv'
<1> DEFINE state == ReadmeState(requests[r])
<1>1. /\ Receive(r) /\ listens[r] = "readme" /\ readme' = state
      /\ listens' = [listens EXCEPT ![r] = "nobody"] /\ UNCHANGED <<page, key>>
  BY DEF ReadmeShown
<1>2. Inv /\ Inv' /\ requests[r] \in SoundDone
  BY <1>1, ReceiveStep, Stages DEF PageInv, Receive
<1>3. key \in Keys /\ requests[r].want = key /\ readme.status = "loading"
  BY <1>1 DEF PageInv, Listened
<1>4. /\ state \in ReadmeStates /\ state.status \in {"ready", "error", "none"}
      /\ state.status = "ready" => state.key = key
  <2>1. CASE requests[r].answer.kind = "readme"
    <3>1. state = [status |-> "ready", key |-> key, of |-> requests[r].answer.of]
      BY <1>3, <2>1 DEF ReadmeState
    <3>2. requests[r].answer.of \in Urls
      BY <1>2, <2>1 DEF SoundDone, SoundAnswers, Answers
    <3> QED BY <1>3, <3>1, <3>2 DEF ReadmeStates
  <2>2. CASE requests[r].answer.kind # "readme"
    <3>1. state = [status |-> "error"] \/ state = [status |-> "none"]
      BY <2>2 DEF ReadmeState
    <3> QED BY <3>1 DEF ReadmeStates
  <2> QED BY <2>1, <2>2
<1> HIDE DEF state
<1>5. AddonIn(page, key) # Absent /\ AddonIn(page, key)' = AddonIn(page, key)
  BY <1>1, <1>3 DEF PageInv, Shown, AddonIn
<1>6. PageTypes'
  BY <1>1, <1>4 DEF PageInv, PageTypes
<1>7. Shown'
  BY <1>1, <1>4, <1>5 DEF PageInv, Shown
<1>8. Listened'
  BY <1>1, <1>4 DEF PageInv, PageTypes, Inv, Listened, Receive
<1> QED BY <1>2, <1>6, <1>7, <1>8 DEF PageInv

LEMMA OthersReceiveStep ==
    ASSUME PageInv, NEW r \in Requests, OthersReceive(r)
    PROVE PageInv'
<1>1. Receive(r) /\ listens[r] = "nobody" /\ UNCHANGED <<page, key, readme, listens>>
  BY DEF OthersReceive, pageVars
<1>2. Inv'
  BY <1>1, ReceiveStep DEF PageInv
<1>3. PageTypes' /\ Shown'
  BY <1>1 DEF PageInv, PageTypes, Shown, AddonIn
<1>4. Listened'
  BY <1>1 DEF PageInv, Inv, Listened, Receive
<1> QED BY <1>2, <1>3, <1>4 DEF PageInv

LEMMA PageNextInv == PageInv /\ [PageNext]_allVars => PageInv'
<1> SUFFICES ASSUME PageInv, [PageNext]_allVars PROVE PageInv'
  OBVIOUS
<1>1. CASE UNCHANGED allVars
  BY <1>1 DEF allVars, vars, pageVars, PageInv, Inv, PageTypes, Shown, Listened, AddonIn
<1>2. CASE PageNext
  BY <1>2, OthersStep, LeavePageStep, OpenPageStep, OpenAddonStep, RegistryShownStep,
     ReadmeShownStep, OthersReceiveStep DEF PageNext
<1> QED BY <1>1, <1>2

LEMMA PageInvAlways == PageSpec => []PageInv
BY PageInitInv, PageNextInv, PTL DEF PageSpec

\* The page's states, and those of the server it asks, have their types
\* (docs-site/src/pages/addons.js:19-55).
THEOREM PageTypeCorrect == PageSpec => []PageTypeOK
<1>1. PageInv => PageTypeOK
  BY InvIsTyped DEF PageInv, PageTypes, PageTypeOK
<1> QED BY <1>1, PageInvAlways, PTL

\* The readme on the page is that of the addon on the page, in whatever order its
\* requests are answered and the visitor moves on (addons.js:42-55).
THEOREM PageShowsItsReadme == PageSpec => []ReadmeOfTheAddon
<1>1. PageInv => ReadmeOfTheAddon
  BY DEF PageInv, Shown, ReadmeOfTheAddon
<1> QED BY <1>1, PageInvAlways, PTL

\* A page that says "loading" listens to a request that is still to be answered,
\* and one that does not listens to none (addons.js:26-55, 89-97).
THEOREM LoadingIsAnswered == PageSpec => []LoadingAwaitsAnAnswer
<1>1. PageInv => LoadingAwaitsAnAnswer
  BY DEF PageInv, Shown, Listened, LoadingAwaitsAnAnswer
<1> QED BY <1>1, PageInvAlways, PTL

\* What the server promises any visitor it promises while the page asks: a step of
\* the page may be two of the server's, so that this is no consequence of Spec
\* (routes/addons.js:37-83).
THEOREM PageAnswersAreRecent == PageSpec => [](ServedRecent /\ ReadmeOfItsUrl)
<1>1. PageInv => ServedRecent /\ ReadmeOfItsUrl
  BY InvIsRecent, InvIsOfItsUrl DEF PageInv
<1> QED BY <1>1, PageInvAlways, PTL

=============================================================================
