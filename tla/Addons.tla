------------------------------- MODULE Addons -------------------------------
(***************************************************************************)
(* The server's copies of the addon registry and of the addons' readmes    *)
(* (routes/addons.js).                                                     *)
(*                                                                         *)
(* A request is a handler that awaits at most two fetches from GitHub: the *)
(* registry, and the readme its entry names.  Every request that finds a   *)
(* copy stale fetches it, so several fetches of one file may be under way, *)
(* and GitHub may change between them.  A fetch is read at GitHub in one   *)
(* step and arrives in another, or fails; its timeout bounds how long that *)
(* takes.                                                                  *)
(*                                                                         *)
(* Time is kept as ages, in ticks: of a copy since it was stored, of its   *)
(* contents since GitHub had them, of a fetch since it was sent.  A        *)
(* registry is what readme each key has; a readme is the url it is from.   *)
(***************************************************************************)
EXTENDS Naturals

CONSTANTS Requests,     \* bound: requests under way
          Keys, Urls,
          ReadmeUrls,   \* those README_URL matches
          Registries,   \* contents addons.json may have
          CacheAge,     \* CACHE_MS
          FetchAge,     \* FETCH_TIMEOUT_MS
          List,         \* GET /, where others ask for a key's readme
          Absent,       \* a key the registry has no addon for
          NoReadme, NoCopy, NoRequest

Oldest == CacheAge + FetchAge   \* bound: that old, or older
Wants == Keys \cup {List}

RegistryReads == [data : Registries, read : 0 .. Oldest]
ReadmeReads == [of : Urls, read : 0 .. Oldest]
RegistryCopies == [data : Registries, read : 0 .. Oldest, at : 0 .. CacheAge]
ReadmeCopies == [of : Urls, read : 0 .. Oldest, at : 0 .. CacheAge]

Answers ==
    [kind : {"registry"}, data : Registries, stale : BOOLEAN]
    \cup [kind : {"readme"}, url : Urls, of : Urls, stale : BOOLEAN]
    \cup [kind : {"none", "error", "lost"}]

RegistryFetches ==
    [stage : {"registry"}, want : Wants, age : 0 .. FetchAge,
     reply : RegistryReads \cup {NoCopy}]
ReadmeFetches ==
    [stage : {"readme"}, want : Keys, url : Urls, age : 0 .. FetchAge,
     reply : ReadmeReads \cup {NoCopy}]
Done == [stage : {"done"}, want : Wants, answer : Answers]

ASSUME AddonsAssumption ==
    /\ ReadmeUrls \subseteq Urls
    /\ Registries \subseteq [Keys -> Urls \cup {NoReadme, Absent}]
    /\ Registries # {}
    /\ CacheAge \in Nat \ {0}
    /\ FetchAge \in Nat
    /\ List \notin Keys
    /\ {NoReadme, Absent} \cap Urls = {}
    /\ NoCopy \notin RegistryCopies \cup ReadmeCopies \cup RegistryReads \cup ReadmeReads
    /\ NoRequest \notin RegistryFetches \cup ReadmeFetches \cup Done

VARIABLES
    published,   \* what GitHub has as addons.json
    registry,    \* the server's copy
    readmes,     \* url -> the server's copy
    requests     \* handlers under way, and answers on their way

vars == <<published, registry, readmes, requests>>

AddonsTypeOK ==
    /\ published \in Registries
    /\ registry \in RegistryCopies \cup {NoCopy}
    /\ readmes \in [Urls -> ReadmeCopies \cup {NoCopy}]
    /\ requests \in [Requests -> RegistryFetches \cup ReadmeFetches \cup Done \cup {NoRequest}]

Init ==
    /\ published \in Registries
    /\ registry = NoCopy
    /\ readmes = [u \in Urls |-> NoCopy]
    /\ requests = [r \in Requests |-> NoRequest]

-----------------------------------------------------------------------------
IsFresh(copy) == copy # NoCopy /\ copy.at < CacheAge

InStage(r, stage) == requests[r] # NoRequest /\ requests[r].stage = stage

Answer(want, answer) == [stage |-> "done", want |-> want, answer |-> answer]
ErrorAnswer == [kind |-> "error"]

\* stale is history: older than a cache time and a fetch, and no fetch failed.
RegistryAnswer(known, failed) ==
    [kind |-> "registry", data |-> known.data, stale |-> known.read >= Oldest /\ ~ failed]
ReadmeAnswer(copy, url) ==
    [kind |-> "readme", url |-> url, of |-> copy.of, stale |-> copy.read >= Oldest]

\* loadReadme
AskReadme(key, url) ==
    IF IsFresh(readmes[url])
    THEN Answer(key, ReadmeAnswer(readmes[url], url))
    ELSE [stage |-> "readme", want |-> key, url |-> url, age |-> 0, reply |-> NoCopy]

\* mutant: the readme's url is asked as it is.
WithAnyUrl(want, known, failed) ==
    IF want = List
    THEN Answer(List, RegistryAnswer(known, failed))
    ELSE IF known.data[want] \in {Absent, NoReadme}
    THEN Answer(want, [kind |-> "none"])
    ELSE AskReadme(want, known.data[want])

\* What a request becomes once loadRegistry has returned `known`.
WithRegistry(want, known, failed) ==
    IF want = List
    THEN Answer(List, RegistryAnswer(known, failed))
    ELSE IF known.data[want] \in {Absent, NoReadme}
    THEN Answer(want, [kind |-> "none"])
    ELSE IF known.data[want] \notin ReadmeUrls
    THEN Answer(want, ErrorAnswer)
    ELSE AskReadme(want, known.data[want])

\* A request as it comes in.
Asked(want) ==
    IF IsFresh(registry)
    THEN WithRegistry(want, registry, FALSE)
    ELSE [stage |-> "registry", want |-> want, age |-> 0, reply |-> NoCopy]

Request(r, want) ==
    /\ requests[r] = NoRequest
    /\ requests' = [requests EXCEPT ![r] = Asked(want)]
    /\ UNCHANGED <<published, registry, readmes>>

\* GitHub serves a fetch: what it serves is what it has now.
GitHubServes(r) ==
    /\ \/ /\ InStage(r, "registry")
          /\ requests[r].reply = NoCopy
          /\ requests' = [requests EXCEPT ![r].reply = [data |-> published, read |-> 0]]
       \/ /\ InStage(r, "readme")
          /\ requests[r].reply = NoCopy
          /\ requests' = [requests EXCEPT ![r].reply = [of |-> requests[r].url, read |-> 0]]
    /\ UNCHANGED <<published, registry, readmes>>

\* The last to arrive is kept, whichever was sent last.
RegistryArrives(r) ==
    /\ InStage(r, "registry")
    /\ requests[r].reply # NoCopy
    /\ LET reply == requests[r].reply IN
       /\ registry' = [data |-> reply.data, read |-> reply.read, at |-> 0]
       /\ requests' = [requests EXCEPT ![r] = WithRegistry(@.want, reply, FALSE)]
    /\ UNCHANGED <<published, readmes>>

\* mutant: a failed fetch counts as a look at GitHub.
RegistryFailsRestamped(r) ==
    /\ InStage(r, "registry")
    /\ requests' = [requests EXCEPT ![r] =
                       IF registry # NoCopy THEN WithRegistry(@.want, registry, TRUE)
                                            ELSE Answer(@.want, ErrorAnswer)]
    /\ registry' = IF registry # NoCopy THEN [registry EXCEPT !.at = 0] ELSE registry
    /\ UNCHANGED <<published, readmes>>

\* GitHub refused, the timeout fired, or what came was no JSON: the last good
\* copy beats nothing.
RegistryFails(r) ==
    /\ InStage(r, "registry")
    /\ requests' = [requests EXCEPT ![r] =
                       IF registry # NoCopy THEN WithRegistry(@.want, registry, TRUE)
                                            ELSE Answer(@.want, ErrorAnswer)]
    /\ UNCHANGED <<published, registry, readmes>>

\* mutant: stored for the url the key has by now.
ReadmeArrivesForKey(r) ==
    /\ InStage(r, "readme")
    /\ requests[r].reply # NoCopy
    /\ LET reply == requests[r].reply
           copy == [of |-> reply.of, read |-> reply.read, at |-> 0] IN
       /\ readmes' = [u \in Urls |-> IF registry # NoCopy /\ registry.data[requests[r].want] = u
                                     THEN copy ELSE readmes[u]]
       /\ requests' = [requests EXCEPT ![r] = Answer(@.want, ReadmeAnswer(copy, @.url))]
    /\ UNCHANGED <<published, registry>>

ReadmeArrives(r) ==
    /\ InStage(r, "readme")
    /\ requests[r].reply # NoCopy
    /\ LET reply == requests[r].reply
           copy == [of |-> reply.of, read |-> reply.read, at |-> 0] IN
       /\ readmes' = [readmes EXCEPT ![requests[r].url] = copy]
       /\ requests' = [requests EXCEPT ![r] = Answer(@.want, ReadmeAnswer(copy, @.url))]
    /\ UNCHANGED <<published, registry>>

\* GitHub refused, the timeout fired, or it is over 512 KB: an older copy is not
\* used.
ReadmeFails(r) ==
    /\ InStage(r, "readme")
    /\ requests' = [requests EXCEPT ![r] = Answer(@.want, ErrorAnswer)]
    /\ UNCHANGED <<published, registry, readmes>>

-----------------------------------------------------------------------------
(* The environment.                                                        *)

Publish(data) ==
    /\ published' = data
    /\ UNCHANGED <<registry, readmes, requests>>

Later(age, limit) == IF age < limit THEN age + 1 ELSE age
OlderRead(reply) ==
    IF reply = NoCopy THEN NoCopy ELSE [reply EXCEPT !.read = Later(@, Oldest)]
OlderCopy(copy) ==
    IF copy = NoCopy THEN NoCopy
    ELSE [copy EXCEPT !.read = Later(@, Oldest), !.at = Later(@, CacheAge)]

IsFetch(r) == InStage(r, "registry") \/ InStage(r, "readme")

\* No fetch is under way for longer than its timeout.
Tick ==
    /\ \A r \in Requests : IsFetch(r) => requests[r].age < FetchAge
    /\ registry' = OlderCopy(registry)
    /\ readmes' = [u \in Urls |-> OlderCopy(readmes[u])]
    /\ requests' = [r \in Requests |->
                      IF IsFetch(r)
                      THEN [requests[r] EXCEPT !.age = @ + 1, !.reply = OlderRead(@)]
                      ELSE requests[r]]
    /\ UNCHANGED published

\* The copies are lost, and so are the connections of the requests under way.
ServerRestart ==
    /\ registry' = NoCopy
    /\ readmes' = [u \in Urls |-> NoCopy]
    /\ requests' = [r \in Requests |->
                      IF IsFetch(r) THEN Answer(requests[r].want, [kind |-> "lost"])
                                    ELSE requests[r]]
    /\ UNCHANGED published

\* An answer is received.
Receive(r) ==
    /\ InStage(r, "done")
    /\ requests' = [requests EXCEPT ![r] = NoRequest]
    /\ UNCHANGED <<published, registry, readmes>>

Fetched(r) == RegistryArrives(r) \/ RegistryFails(r) \/ ReadmeArrives(r) \/ ReadmeFails(r)

Serve ==
    \/ \E r \in Requests : GitHubServes(r) \/ Fetched(r)
    \/ \E data \in Registries : Publish(data)
    \/ Tick
    \/ ServerRestart

Next ==
    \/ Serve
    \/ \E r \in Requests : Receive(r) \/ \E want \in Wants : Request(r, want)

Spec == Init /\ [][Next]_vars

-----------------------------------------------------------------------------
(* Properties.                                                             *)

IsAnswered(r, kind) == InStage(r, "done") /\ requests[r].answer.kind = kind

\* An answer shows what GitHub had less than a cache time and a fetch ago, in
\* whatever order fetches arrive; an older registry only if this request's own
\* fetch failed, an older readme never (addons.js:37-64).
ServedRecent ==
    \A r \in Requests :
        IsAnswered(r, "registry") \/ IsAnswered(r, "readme") => ~ requests[r].answer.stale

\* The markdown of an answer is from the url of that answer, one the server may
\* read, also when the registry came to name another while it was fetched; so is
\* every copy kept for a url (addons.js:53-64, 75-83).
ReadmeOfItsUrl ==
    /\ \A r \in Requests : IsAnswered(r, "readme") =>
          /\ requests[r].answer.of = requests[r].answer.url
          /\ requests[r].answer.url \in ReadmeUrls
    /\ \A u \in Urls : readmes[u] # NoCopy => readmes[u].of = u
=============================================================================
