----------------------------- MODULE AddonsPage -----------------------------
(***************************************************************************)
(* One visitor's addons page (docs-site/src/pages/addons.js) over the      *)
(* server of Addons, which serves other visitors meanwhile.                *)
(*                                                                         *)
(* The page asks for the registry once; the address names the addon shown  *)
(* (?addon=key), and showing an addon asks for its readme.  An effect's    *)
(* cleanup (live = false) is the page no longer listening to that request. *)
(* A render and the effects it causes are one step.  The browser's own     *)
(* cache of answers (Cache-Control) is left out.                           *)
(***************************************************************************)
EXTENDS Addons

CONSTANT NoKey         \* the list: no ?addon in the address

VARIABLES
    page,      \* useRegistry's state; "away": the page is not open
    key,       \* the address
    readme,    \* useReadme's state; "idle": no AddonPage is mounted
    listens    \* what a request's answer is for on this page

pageVars == <<page, key, readme, listens>>
allVars == <<vars, pageVars>>

ASSUME NoKeyAssumption == NoKey \notin Wants

PageStates == [status : {"away", "loading", "error"}]
              \cup [status : {"ready"}, data : Registries]
ReadmeStates == [status : {"idle", "none", "loading", "error"}]
                \cup [status : {"ready"}, key : Keys, of : Urls]

PageTypeOK ==
    /\ AddonsTypeOK
    /\ page \in PageStates
    /\ key \in Keys \cup {NoKey}
    /\ readme \in ReadmeStates
    /\ listens \in [Requests -> {"nobody", "registry", "readme"}]

PageInit ==
    /\ Init
    /\ page = [status |-> "away"]
    /\ key = NoKey
    /\ readme = [status |-> "idle"]
    /\ listens = [r \in Requests |-> "nobody"]

-----------------------------------------------------------------------------
\* The addon the page shows, by what the registry has for it.
AddonIn(state, k) == IF state.status = "ready" /\ k # NoKey THEN state.data[k] ELSE Absent
HasReadme(addon) == addon \notin {Absent, NoReadme}

\* mutant: a cleanup that lets the old request go on.
StillListening == listens

\* The cleanup of useReadme's effect.
NoLongerListening == [r \in Requests |-> IF listens[r] = "readme" THEN "nobody" ELSE listens[r]]

\* useReadme's effect, for the addon shown in `state` at `k`: its request uses r.
ShowAddon(state, k, r, before, listening) ==
    IF HasReadme(AddonIn(state, k))
    THEN /\ before[r] = NoRequest
         /\ readme' = [status |-> "loading"]
         /\ requests' = [before EXCEPT ![r] = Asked(k)]
         /\ listens' = [listening EXCEPT ![r] = "readme"]
    ELSE /\ readme' = [status |-> IF AddonIn(state, k) = Absent THEN "idle" ELSE "none"]
         /\ requests' = before
         /\ listens' = listening

OpenPage(k, r) ==
    /\ page.status = "away"
    /\ Request(r, List)
    /\ page' = [status |-> "loading"]
    /\ key' = k
    /\ listens' = [listens EXCEPT ![r] = "registry"]
    /\ UNCHANGED readme

LeavePage ==
    /\ page.status # "away"
    /\ page' = [status |-> "away"]
    /\ key' = NoKey
    /\ readme' = [status |-> "idle"]
    /\ listens' = [r \in Requests |-> "nobody"]
    /\ UNCHANGED vars

\* A link, a card, or the browser's back and forward.  The same addon again
\* has the same key and readme, and the effect does not run.
OpenAddon(k, r) ==
    /\ page.status # "away"
    /\ k # key
    /\ key' = k
    /\ ShowAddon(page, k, r, requests, NoLongerListening)
    /\ UNCHANGED <<page, published, registry, readmes>>

\* mutant: without .catch.
PageStateUncaught(answer) ==
    IF answer.kind = "lost" THEN page
    ELSE IF answer.kind = "registry" THEN [status |-> "ready", data |-> answer.data]
    ELSE [status |-> "error"]

\* What useRegistry makes of its answer.
PageState(answer) ==
    IF answer.kind = "registry" THEN [status |-> "ready", data |-> answer.data]
                                ELSE [status |-> "error"]

RegistryShown(r) ==
    /\ InStage(r, "done")
    /\ listens[r] = "registry"
    /\ page' = PageState(requests[r].answer)
    /\ ShowAddon(page', key, r, [requests EXCEPT ![r] = NoRequest],
                 [listens EXCEPT ![r] = "nobody"])
    /\ UNCHANGED <<key, published, registry, readmes>>

\* mutant: the answer's kind is taken for the state.
ReadmeStateUnchecked(request) ==
    IF request.answer.kind = "readme"
    THEN [status |-> "ready", key |-> request.want, of |-> request.answer.of]
    ELSE [status |-> request.answer.kind]

\* What useReadme makes of its answer: a refusal is no readme, a lost connection
\* an error.
ReadmeState(request) ==
    CASE request.answer.kind = "readme" ->
            [status |-> "ready", key |-> request.want, of |-> request.answer.of]
      [] request.answer.kind = "lost" -> [status |-> "error"]
      [] OTHER -> [status |-> "none"]

ReadmeShown(r) ==
    /\ Receive(r)
    /\ listens[r] = "readme"
    /\ readme' = ReadmeState(requests[r])
    /\ listens' = [listens EXCEPT ![r] = "nobody"]
    /\ UNCHANGED <<page, key>>

\* An answer to another visitor, or to an effect that was cleaned up.
OthersReceive(r) ==
    /\ Receive(r)
    /\ listens[r] = "nobody"
    /\ UNCHANGED pageVars

Others ==
    /\ Serve \/ \E r \in Requests, want \in Wants : Request(r, want)
    /\ UNCHANGED pageVars

PageNext ==
    \/ Others
    \/ LeavePage
    \/ \E r \in Requests :
          \/ \E k \in Keys \cup {NoKey} : OpenPage(k, r) \/ OpenAddon(k, r)
          \/ RegistryShown(r) \/ ReadmeShown(r) \/ OthersReceive(r)

PageSpec == PageInit /\ [][PageNext]_allVars

-----------------------------------------------------------------------------
(* Properties.                                                             *)

\* The readme on the page is that of the addon on the page, whichever of its
\* requests is answered last (addons.js:42-55).
ReadmeOfTheAddon == readme.status = "ready" => key = readme.key

\* The page says "loading" exactly while it listens to a request that is still to
\* be answered, so that no navigation, lost connection or failed fetch leaves it
\* loading; an addon with a readme is not shown as if it had none meanwhile
\* (addons.js:26-55, 89-97).
LoadingAwaitsAnAnswer ==
    /\ page.status = "loading" <=> \E r \in Requests : listens[r] = "registry"
    /\ readme.status = "loading" <=> \E r \in Requests : listens[r] = "readme"
    /\ \A r \in Requests : listens[r] # "nobody" => requests[r] # NoRequest
    /\ readme.status = "idle" <=> AddonIn(page, key) = Absent
=============================================================================
