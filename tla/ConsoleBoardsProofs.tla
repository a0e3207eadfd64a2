------------------------ MODULE ConsoleBoardsProofs -------------------------
(***************************************************************************)
(* What the handlers of the console's pages keep, page by page: for each   *)
(* page an inductive invariant XInv of its state and of its calls in       *)
(* flight; that what the user does on the page and the answers that come   *)
(* keep it (XKeeps), that the page is opened with it (XOpens), and that it *)
(* implies what the page promises (XShows). At the end the pages are put   *)
(* together: BoardsInv, the invariant of the page that is mounted.         *)
(*                                                                         *)
(* A page's state is a record, of which the invariants give the domain     *)
(* (XFields), for only of a function whose domain is known is it known     *)
(* what EXCEPT leaves alone.                                               *)
(*                                                                         *)
(* Here are the pages that work on a list, a policy, a tool, a form, an    *)
(* incident or a trace; ConsoleHandlersProofs has the dialogs, the servers *)
(* and teams, the search page and the audit page.                          *)
(***************************************************************************)
EXTENDS ConsoleBoards, ConsolePolicies, ConsolePlayground, ConsoleOnboarding, ConsoleForms,
        ConsoleIncidents, TLAPS

-----------------------------------------------------------------------------
(* What the pages share: the calls in flight are those of the mounted      *)
(* page.                                                                   *)

\* What a call does tells which page is mounted when its answer comes.
LEMMA Whose ==
  ASSUME Owned, NEW c \in flight
  PROVE  /\ c.do = "updatePolicy" => page = "policy"
         /\ c.do = "run" => page = "playground"
         /\ c.do = "callTool" => page = "developerPlayground"
         /\ c.do \in {"createServer", "createPolicy", "createApiKey"} => page = "onboarding"
         /\ c.do = "signUp" => page = "signUp"
         /\ c.do = "copy" => page = "mfa"
         /\ c.do = "publish" => page \in {"newPolicy"} \cup Away /\ (c.here => page = "newPolicy")
         /\ c.do = "deletePolicy" => page \in {"policy"} \cup Away /\ (c.here => page = "policy")
  BY SMT DEF Owned, Belongs, Redirecting

\* A handler that only sets state keeps the calls in flight those of the mounted page.
LEMMA SetKeeps ==
  ASSUME NEW u, Set(u), Owned PROVE Owned' /\ page' = page
  BY SMT DEF Set, Owned

\* So does one that sends a call of its page.
LEMMA SendKeeps ==
  ASSUME NEW c, NEW u, Send(c, u), Owned, {"do", "here"} \subseteq DOMAIN c, Belongs(c.do, page)
  PROVE  Owned' /\ page' = page
  BY SMT DEF Send, Owned

\* So does one that takes an answer.
LEMMA TakeKeeps ==
  ASSUME NEW c, NEW u, Take(c, u), Owned PROVE Owned' /\ page' = page
  BY SMT DEF Take, Owned

\* So does the backend when it has done what a call asked for and has not answered yet.
LEMMA GoesOn ==
  ASSUME Owned, NEW c \in flight, NEW f, f \notin {"do", "here"}, NEW v,
         flight' = (flight \ {c}) \cup {[c EXCEPT ![f] = v]}, page' = page
  PROVE  Owned'
<1>1. PICK d : d = [c EXCEPT ![f] = v]
  OBVIOUS
<1>2. DOMAIN d = DOMAIN c /\ d.do = c.do /\ d.here = c.here
  BY Zenon, <1>1 DEF Owned
<1> QED BY SMT, <1>1, <1>2 DEF Owned

\* A page that is opened finds in flight only redirects that were called from it or are left
\* behind.
LEMMA OpenKeeps ==
  ASSUME NEW p, NEW u, Open(p, u) PROVE Owned' /\ page' = p
  BY SMT DEF Open, Owned, LeftBehind, Redirects, Redirecting, Belongs, Away

\* A page that makes no redirect is opened with nothing in flight and its initial state.
LEMMA OpensClean ==
  ASSUME NEW p, NEW u, Open(p, u), p \notin {Elsewhere, "register", "newPolicy", "policy"}
  PROVE  page' = p /\ ui' = u /\ flight' = {} /\ Owned'
<1>1. Redirects = {}
  BY SMT DEF Open, Redirects, Redirecting
<1> QED BY SMT, <1>1, OpenKeeps DEF Open, LeftBehind

\* A redirect takes the user away and leaves only other redirects behind.
LEMMA RedirectKeeps ==
  ASSUME NEW c, NEW p \in Away, NEW u, Redirect(c, p, u) PROVE Owned' /\ page' = p
  BY SMT DEF Redirect, Owned, LeftBehind, Redirects

-----------------------------------------------------------------------------
\* Error groups (dashboard/observability/errors): the fields of the page's state, and of a
\* group's.
ErrorFields == {"logs", "local", "showMuted", "only", "said"}
StateFields == {"status", "owner", "muted"}

\* Each group, whether it is among the errors now or not, has the state that the user gave to it.
ErrorsInv ==
  /\ DOMAIN ui = ErrorFields /\ DOMAIN ui.local = ErrorKeys /\ DOMAIN ui.said = ErrorKeys
  /\ \A k \in ErrorKeys : /\ DOMAIN ui.local[k] = StateFields /\ ui.local[k] = ui.said[k]
                          /\ ui.local[k].status \in {"open", "resolved"}

\* updateState on a card that is shown, the filters and a refetch keep the states of the groups
\* theirs.
LEMMA ErrorsKeep ==
  ASSUME Owned, page = "errors" => ErrorsInv, ErrorsUser \/ ErrorsRefetched
  PROVE  page = "errors" /\ page' = page /\ Owned' /\ ErrorsInv'
<1>1. page = "errors" /\ page' = page /\ Owned'
  BY Zenon, SetKeeps
     DEF ErrorsUser, SetErrorFilters, ResolveOrReopen, MuteOrUnmute, AssignOwner, UpdateState,
         ErrorsRefetched, OnErrors
<1>2. ErrorsInv /\ DOMAIN ui = ErrorFields /\ DOMAIN ui.local = ErrorKeys /\ DOMAIN ui.said = ErrorKeys
  BY Zenon, <1>1 DEF ErrorsInv
<1>3. ASSUME NEW k \in ErrorKeys, NEW s, UpdateState(k, s), DOMAIN s = StateFields,
             s.status \in {"open", "resolved"}
      PROVE  ErrorsInv'
  <2>1. ui' = [ui EXCEPT !.local[k] = s, !.said[k] = s]
    BY Zenon, <1>3 DEF UpdateState, StateKey, Set
  <2>2. /\ DOMAIN ui' = ErrorFields /\ ui'.local = [ui.local EXCEPT ![k] = s]
        /\ ui'.said = [ui.said EXCEPT ![k] = s]
    BY Zenon, <1>2, <2>1 DEF ErrorFields
  <2>3. DOMAIN ui'.local = ErrorKeys /\ DOMAIN ui'.said = ErrorKeys /\ ui'.local[k] = s /\ ui'.said[k] = s
    BY Zenon, <1>2, <2>2
  <2>4. ASSUME NEW l \in ErrorKeys, l # k PROVE ui'.local[l] = ui.local[l] /\ ui'.said[l] = ui.said[l]
    BY Zenon, <1>2, <2>2, <2>4
  <2> QED BY Zenon, <1>2, <1>3, <2>2, <2>3, <2>4 DEF ErrorsInv
<1>4. ASSUME NEW k \in ErrorKeys, ResolveOrReopen(k) \/ MuteOrUnmute(k) \/ AssignOwner(k) PROVE ErrorsInv'
  <2>1. PICK g : g = GetState(ui, k)
    OBVIOUS
  <2>2. DOMAIN g = StateFields /\ g.status \in {"open", "resolved"}
    BY Zenon, <1>2, <2>1 DEF GetState, StateKey, ErrorsInv
  <2>3. CASE ResolveOrReopen(k)
    <3>1. PICK s : s = [g EXCEPT !.status = IF @ = "resolved" THEN "open" ELSE "resolved"]
      OBVIOUS
    <3>2. DOMAIN s = StateFields /\ s.status \in {"open", "resolved"}
      BY Zenon, <2>2, <3>1 DEF StateFields
    <3>3. UpdateState(k, s)
      BY Zenon, <2>1, <2>3, <3>1 DEF ResolveOrReopen
    <3> QED BY Zenon, <1>3, <3>2, <3>3
  <2>4. CASE MuteOrUnmute(k)
    <3>1. PICK s : s = [g EXCEPT !.muted = ~@]
      OBVIOUS
    <3>2. DOMAIN s = StateFields /\ s.status \in {"open", "resolved"}
      BY Zenon, <2>2, <3>1 DEF StateFields
    <3>3. UpdateState(k, s)
      BY Zenon, <2>1, <2>4, <3>1 DEF MuteOrUnmute
    <3> QED BY Zenon, <1>3, <3>2, <3>3
  <2>5. CASE AssignOwner(k)
    <3>1. PICK o : UpdateState(k, [g EXCEPT !.owner = o])
      BY Zenon, <2>1, <2>5 DEF AssignOwner
    <3>2. PICK s : s = [g EXCEPT !.owner = o]
      OBVIOUS
    <3>3. DOMAIN s = StateFields /\ s.status \in {"open", "resolved"}
      BY Zenon, <2>2, <3>2 DEF StateFields
    <3> QED BY Zenon, <1>3, <3>1, <3>2, <3>3
  <2> QED BY Zenon, <1>4, <2>3, <2>4, <2>5
<1>5. ASSUME SetErrorFilters \/ ErrorsRefetched PROVE ErrorsInv'
  <2>1. DOMAIN ui' = ErrorFields /\ ui'.local = ui.local /\ ui'.said = ui.said
    BY Zenon, <1>2, <1>5 DEF SetErrorFilters, ErrorsRefetched, Set, ErrorFields
  <2> QED BY Zenon, <1>2, <2>1 DEF ErrorsInv
<1> QED BY Zenon, <1>1, <1>4, <1>5 DEF ErrorsUser

\* The page opens with every group open, as nothing was said about it.
LEMMA ErrorsOpen ==
  ASSUME OpenErrors PROVE page' = "errors" /\ Owned' /\ ErrorsInv'
<1>1. page' = "errors" /\ ui' = ErrorsInit /\ Owned'
  BY SMT, OpensClean DEF OpenErrors, Elsewhere
<1>2. /\ DOMAIN ErrorsInit = ErrorFields /\ ErrorsInit.local = [k \in ErrorKeys |-> OpenState]
      /\ ErrorsInit.said = [k \in ErrorKeys |-> OpenState]
  BY SMT DEF ErrorsInit, ErrorFields
<1>3. DOMAIN OpenState = StateFields /\ OpenState.status = "open"
  BY SMT DEF OpenState, StateFields
<1> QED BY Zenon, <1>1, <1>2, <1>3 DEF ErrorsInv

\* So a group shows what the user gave to it, and is open or resolved.
LEMMA ErrorsShow == ASSUME page = "errors" => ErrorsInv PROVE StatesFollowGroups
  BY Zenon DEF ErrorsInv, StatesFollowGroups, OnErrors, GroupErrors, GetState, StateKey

-----------------------------------------------------------------------------
\* The tool catalogue (dashboard/tools).
CatalogueFields == {"listed", "query", "got", "results", "gone"}

\* Reports are of kinds that handleServerResult tells apart; only a server that was listed has
\* tools.
CatalogueTyped(u) ==
  /\ DOMAIN u = CatalogueFields /\ u.listed \subseteq BoardServers /\ u.gone \subseteq BoardServers
  /\ DOMAIN u.query = BoardServers /\ DOMAIN u.results = BoardServers
  /\ \A s \in BoardServers : u.query[s] \in {Failed, Loading} \cup Nat
  /\ \A s \in BoardServers : u.results[s] \in {Unreported, Failed, Loading} \cup Nat
  /\ \A s \in BoardServers : u.results[s] >= 0 => s \in u.listed \cup u.gone

\* The report of each listed server is what its query has now.
CatalogueInv ==
  CatalogueTyped(ui) /\ \A s \in ui.listed : ui.results[s] = ui.query[s]

\* handleServerResult gives the new report's value, also when it keeps the old entry.
LEMMA ReportIsTaken ==
  ASSUME NEW old \in {Unreported, Failed, Loading} \cup Nat, NEW new \in {Failed, Loading} \cup Nat
  PROVE  HandleServerResult(old, new) = new
  BY SMT DEF HandleServerResult, StatusOf, Unreported, Failed, Loading

\* After the fetchers' effects the reports of the listed servers are those of their queries.
LEMMA AllAreReported ==
  ASSUME NEW u, CatalogueTyped(u)
  PROVE  /\ CatalogueTyped(Reported(u))
         /\ \A s \in Reported(u).listed : Reported(u).results[s] = Reported(u).query[s]
<1>1. PICK v : v = Reported(u)
  OBVIOUS
<1>2. /\ DOMAIN v = CatalogueFields /\ v.listed = u.listed /\ v.gone = u.gone /\ v.query = u.query
      /\ v.results = [s \in BoardServers |->
            IF s \in u.listed THEN HandleServerResult(u.results[s], u.query[s]) ELSE u.results[s]]
  BY Zenon, <1>1 DEF Reported, CatalogueTyped, CatalogueFields
<1>3. /\ u.listed \subseteq BoardServers
      /\ \A s \in BoardServers : u.query[s] \in {Failed, Loading} \cup Nat
      /\ \A s \in BoardServers : u.results[s] \in {Unreported, Failed, Loading} \cup Nat
      /\ \A s \in BoardServers : u.results[s] >= 0 => s \in u.listed \cup u.gone
  BY Zenon DEF CatalogueTyped
<1>4. ASSUME NEW s \in u.listed PROVE v.results[s] = v.query[s]
  <2>1. s \in BoardServers
    BY Zenon, <1>3
  <2>2. HandleServerResult(u.results[s], u.query[s]) = u.query[s]
    BY Zenon, <1>3, <2>1, ReportIsTaken
  <2>3. v.results[s] = HandleServerResult(u.results[s], u.query[s])
    BY Zenon, <1>2, <1>4, <2>1
  <2> QED BY Zenon, <1>2, <2>2, <2>3
<1>5. ASSUME NEW s \in BoardServers \ u.listed PROVE v.results[s] = u.results[s]
  BY Zenon, <1>2
<1>6. \A s \in BoardServers : v.results[s] \in {Unreported, Failed, Loading} \cup Nat
  BY Zenon, <1>2, <1>3, <1>4, <1>5
<1>7. \A s \in BoardServers : v.results[s] >= 0 => s \in v.listed \cup v.gone
  BY Zenon, <1>2, <1>3, <1>5
<1>8. CatalogueTyped(v)
  BY Zenon, <1>2, <1>6, <1>7 DEF CatalogueTyped
<1>9. \A s \in v.listed : v.results[s] = v.query[s]
  BY Zenon, <1>2, <1>4
<1> QED BY Zenon, <1>1, <1>8, <1>9

\* A refetched list of servers, an answer, a failure and a retry keep the reports current.
LEMMA CatalogueKeeps ==
  ASSUME Owned, page = "catalogue" => CatalogueInv, CatalogueStep
  PROVE  page = "catalogue" /\ page' = page /\ Owned' /\ CatalogueInv'
<1>1. page = "catalogue" /\ page' = page /\ Owned'
  BY Zenon, SetKeeps DEF CatalogueStep, CatalogueListed, CatalogueFetched, CatalogueRetried, OnCatalogue
<1>2. CatalogueTyped(ui) /\ DOMAIN ui = CatalogueFields
  BY Zenon, <1>1 DEF CatalogueInv, CatalogueTyped
<1>3. ASSUME NEW u, CatalogueTyped(u), Set(Reported(u)) PROVE CatalogueInv'
  <2>1. ui' = Reported(u)
    BY Zenon, <1>3 DEF Set
  <2> QED BY Zenon, <1>3, <2>1, AllAreReported DEF CatalogueInv
<1>4. CASE CatalogueListed
  <2>1. PICK L \in SUBSET BoardServers :
          Set(Reported([ui EXCEPT !.listed = L, !.gone = (@ \cup ui.listed) \ L]))
    BY Zenon, <1>4 DEF CatalogueListed
  <2>2. PICK u : u = [ui EXCEPT !.listed = L, !.gone = (@ \cup ui.listed) \ L]
    OBVIOUS
  <2>3. /\ DOMAIN u = CatalogueFields /\ u.listed = L /\ u.gone = (ui.gone \cup ui.listed) \ L
        /\ u.query = ui.query /\ u.results = ui.results
    BY Zenon, <1>2, <2>2 DEF CatalogueFields
  <2>4. CatalogueTyped(u)
    BY Zenon, <1>2, <2>3 DEF CatalogueTyped
  <2> QED BY Zenon, <1>1, <1>3, <2>1, <2>2, <2>4
<1>5. ASSUME NEW s \in BoardServers, NEW r \in {Failed, Loading} \cup Nat, NEW G,
             Set(Reported([ui EXCEPT !.query[s] = r, !.got = G]))
      PROVE  CatalogueInv'
  <2>1. PICK u : u = [ui EXCEPT !.query[s] = r, !.got = G]
    OBVIOUS
  <2>2. /\ DOMAIN u = CatalogueFields /\ u.listed = ui.listed /\ u.gone = ui.gone
        /\ u.query = [ui.query EXCEPT ![s] = r] /\ u.results = ui.results
    BY Zenon, <1>2, <2>1 DEF CatalogueFields
  <2>3. DOMAIN u.query = BoardServers
    BY Zenon, <1>2, <2>2 DEF CatalogueTyped
  <2>4. ASSUME NEW t \in BoardServers PROVE u.query[t] \in {Failed, Loading} \cup Nat
    BY Zenon, <1>2, <1>5, <2>2 DEF CatalogueTyped
  <2>5. CatalogueTyped(u)
    BY Zenon, <1>2, <2>2, <2>3, <2>4 DEF CatalogueTyped
  <2> QED BY Zenon, <1>3, <1>5, <2>1, <2>5
<1>6. CASE CatalogueFetched
  <2>1. PICK s \in ui.listed \cup ui.gone, r \in {Failed} \cup 0 .. MaxSeen :
          Set(Reported([ui EXCEPT !.query[s] = r, !.got = IF r = Failed THEN @ ELSE @ \cup {s}]))
    BY Zenon, <1>6 DEF CatalogueFetched
  <2>2. s \in BoardServers
    BY Zenon, <1>2 DEF CatalogueTyped
  <2>3. r \in {Failed, Loading} \cup Nat
    BY SMT DEF Failed
  <2>4. PICK G : G = IF r = Failed THEN ui.got ELSE ui.got \cup {s}
    OBVIOUS
  <2>5. Set(Reported([ui EXCEPT !.query[s] = r, !.got = G]))
    BY Zenon, <1>2, <2>1, <2>4 DEF CatalogueFields
  <2> QED BY Zenon, <1>1, <1>5, <2>2, <2>3, <2>5
<1>7. CASE CatalogueRetried
  <2>1. PICK s \in ui.listed : Set(Reported([ui EXCEPT !.query[s] = Loading]))
    BY Zenon, <1>7 DEF CatalogueRetried
  <2>2. s \in BoardServers
    BY Zenon, <1>2 DEF CatalogueTyped
  <2>3. PICK u : u = [ui EXCEPT !.query[s] = Loading]
    OBVIOUS
  <2>4. /\ DOMAIN u = CatalogueFields /\ u.listed = ui.listed /\ u.gone = ui.gone
        /\ u.query = [ui.query EXCEPT ![s] = Loading] /\ u.results = ui.results
    BY Zenon, <1>2, <2>3 DEF CatalogueFields
  <2>5. DOMAIN u.query = BoardServers
    BY Zenon, <1>2, <2>4 DEF CatalogueTyped
  <2>6. ASSUME NEW t \in BoardServers PROVE u.query[t] \in {Failed, Loading} \cup Nat
    BY Zenon, <1>2, <2>4 DEF CatalogueTyped
  <2>7. CatalogueTyped(u)
    BY Zenon, <1>2, <2>4, <2>5, <2>6 DEF CatalogueTyped
  <2> QED BY Zenon, <1>1, <1>3, <2>1, <2>3, <2>7
<1> QED BY Zenon, <1>1, <1>4, <1>6, <1>7 DEF CatalogueStep

\* The catalogue opens with no server listed and nothing reported.
LEMMA CatalogueOpens ==
  ASSUME OpenCatalogue PROVE page' = "catalogue" /\ Owned' /\ CatalogueInv'
<1>1. page' = "catalogue" /\ ui' = CatalogueInit /\ Owned'
  BY SMT, OpensClean DEF OpenCatalogue, Elsewhere
<1>2. /\ DOMAIN CatalogueInit = CatalogueFields /\ CatalogueInit.listed = {} /\ CatalogueInit.gone = {}
      /\ CatalogueInit.query = [s \in BoardServers |-> Loading]
      /\ CatalogueInit.results = [s \in BoardServers |-> Unreported]
  BY SMT DEF CatalogueInit, CatalogueFields
<1>3. ~(Unreported >= 0)
  BY SMT DEF Unreported
<1> QED BY Zenon, <1>1, <1>2, <1>3 DEF CatalogueInv, CatalogueTyped

\* So the catalogue has the tools that the queries have, and names the servers that it waits for.
LEMMA CatalogueShows == ASSUME page = "catalogue" => CatalogueInv PROVE CatalogueIsCurrent
<1> SUFFICES ASSUME OnCatalogue, CatalogueInv
             PROVE  /\ \A s \in ui.listed \ (LoadingServers(ui) \cup ErrorServers(ui)) :
                         <<s, ui.query[s]>> \in AllTools(ui)
                    /\ \A tool \in AllTools(ui) : tool[1] \in ui.listed \cup ui.gone
                    /\ \A s \in ui.listed : s \in ErrorServers(ui) <=> ui.query[s] = Failed
  BY Zenon DEF CatalogueIsCurrent, OnCatalogue
<1>1. /\ ui.listed \subseteq BoardServers /\ \A s \in ui.listed : ui.results[s] = ui.query[s]
      /\ \A s \in BoardServers : ui.results[s] \in {Unreported, Failed, Loading} \cup Nat
      /\ \A s \in BoardServers : ui.results[s] >= 0 => s \in ui.listed \cup ui.gone
  BY Zenon DEF CatalogueInv, CatalogueTyped
<1>2. ASSUME NEW s \in ui.listed \ (LoadingServers(ui) \cup ErrorServers(ui))
      PROVE  <<s, ui.query[s]>> \in AllTools(ui)
  <2>1. s \in BoardServers /\ ui.results[s] \in Nat
    BY Zenon, <1>1, <1>2 DEF LoadingServers, ErrorServers
  <2>2. ui.results[s] >= 0
    BY SMT, <2>1
  <2> QED BY Zenon, <1>1, <1>2, <2>1, <2>2 DEF AllTools
<1>3. ASSUME NEW tool \in AllTools(ui) PROVE tool[1] \in ui.listed \cup ui.gone
  <2>1. PICK s \in BoardServers : ui.results[s] >= 0 /\ tool = <<s, ui.results[s]>>
    BY Zenon DEF AllTools
  <2>2. tool[1] = s
    BY SMT, <2>1
  <2> QED BY Zenon, <1>1, <2>1, <2>2
<1>4. \A s \in ui.listed : s \in ErrorServers(ui) <=> ui.query[s] = Failed
  BY Zenon, <1>1 DEF ErrorServers
<1> QED BY Zenon, <1>2, <1>3, <1>4

-----------------------------------------------------------------------------
\* The tool explorer (developer/tools).
ExplorerFields == {"slug", "got", "favorites", "starred", "category", "onlyFavorites", "detail"}

\* The favourites are those that the user starred, server by server.
ExplorerInv == DOMAIN ui = ExplorerFields /\ ui.favorites = ui.starred

\* toggleFavorite changes the star of the tool of the selected server; nothing else changes a
\* star.
LEMMA ExplorerKeeps ==
  ASSUME Owned, page = "explorer" => ExplorerInv, ExplorerUser \/ ExplorerStep
  PROVE  page = "explorer" /\ page' = page /\ Owned' /\ ExplorerInv'
<1>1. page = "explorer" /\ page' = page /\ Owned'
  BY Zenon, SetKeeps
     DEF ExplorerUser, ExplorerStep, PickServer, ToggleFavorite, SetCategory, ShowFavoritesOnly,
         OpenDetail, CloseDetail, ToolsFetched, ToolsFail, OnExplorer
<1>2. DOMAIN ui = ExplorerFields /\ ui.favorites = ui.starred
  BY Zenon, <1>1 DEF ExplorerInv
<1>3. CASE ToggleFavorite
  <2>1. PICK t : ui' = [ui EXCEPT !.favorites = ToggledFavorite(ui, t),
                          !.starred = IF <<ui.slug, t>> \in @ THEN @ \ {<<ui.slug, t>>}
                                      ELSE @ \cup {<<ui.slug, t>>}]
    BY Zenon, <1>3 DEF ToggleFavorite, Set
  <2>2. /\ DOMAIN ui' = ExplorerFields /\ ui'.favorites = ToggledFavorite(ui, t)
        /\ ui'.starred = IF <<ui.slug, t>> \in ui.starred THEN ui.starred \ {<<ui.slug, t>>}
                                                         ELSE ui.starred \cup {<<ui.slug, t>>}
    BY Zenon, <1>2, <2>1 DEF ExplorerFields
  <2> QED BY Zenon, <1>1, <1>2, <2>2 DEF ExplorerInv, ToggledFavorite, IsFavorite
<1>4. CASE ~ToggleFavorite
  <2>1. DOMAIN ui' = ExplorerFields /\ ui'.favorites = ui.favorites /\ ui'.starred = ui.starred
    BY Zenon, <1>2, <1>4
       DEF ExplorerUser, ExplorerStep, PickServer, SetCategory, ShowFavoritesOnly, OpenDetail,
           CloseDetail, ToolsFetched, ToolsFail, Set, ExplorerFields
  <2> QED BY Zenon, <1>1, <1>2, <2>1 DEF ExplorerInv
<1> QED BY <1>3, <1>4

\* The explorer opens with the favourites that it has.
LEMMA ExplorerOpens ==
  ASSUME OpenExplorer PROVE page' = "explorer" /\ Owned' /\ ExplorerInv'
<1>1. page' = "explorer" /\ ui' = ExplorerInit /\ Owned'
  BY SMT, OpensClean DEF OpenExplorer, Elsewhere
<1>2. DOMAIN ExplorerInit = ExplorerFields /\ ExplorerInit.favorites = ExplorerInit.starred
  BY SMT DEF ExplorerInit, ExplorerFields
<1> QED BY Zenon, <1>1, <1>2 DEF ExplorerInv

\* So stars are per server, and the tools on screen are those of the selected server.
LEMMA ExplorerShows == ASSUME page = "explorer" => ExplorerInv PROVE StarsArePerServer /\ ToolsAreOfServer
<1>1. StarsArePerServer
  BY Zenon DEF ExplorerInv, StarsArePerServer, OnExplorer
<1>2. ToolsAreOfServer
  BY Zenon DEF ToolsAreOfServer, ExplorerShown, ExplorerList, FetchedTools
<1> QED BY <1>1, <1>2

-----------------------------------------------------------------------------
\* Alert rules (dashboard/alerts): the fields of the page, of a rule and of what is wanted of it.
AlertFields == {"rules", "made", "create", "editRule", "form", "only", "wanted", "deleted"}
RuleFields == {"id", "value", "enabled", "status"}
WantedFields == {"value", "enabled"}

\* The rule has the values last saved for it, and is silenced exactly if it was switched off.
Kept(r, wanted) ==
  /\ DOMAIN r = RuleFields /\ r.value = wanted[r.id].value /\ r.enabled = wanted[r.id].enabled
  /\ r.status = "silenced" <=> ~r.enabled

\* The rules are those that were made and not deleted, each of them once and as it is wanted; the
\* edit dialog may be open on a rule that is deleted meanwhile.
AlertsInv ==
  /\ DOMAIN ui = AlertFields
  /\ ui.made \in 0 .. MaxRules /\ ui.editRule \in 0 .. ui.made /\ ui.deleted \subseteq 1 .. ui.made
  /\ DOMAIN ui.wanted = 1 .. MaxRules /\ \A i \in 1 .. MaxRules : DOMAIN ui.wanted[i] = WantedFields
  /\ RuleIds(ui) = (1 .. ui.made) \ ui.deleted
  /\ \A r, s \in ui.rules : r.id = s.id => r = s
  /\ \A r \in ui.rules : Kept(r, ui.wanted)

\* addRule, saveRule, deleteRule and toggleRule keep that, in any order: saveRule takes from the
\* form only what the form has, so that a rule switched off or deleted while it is edited stays
\* so.
LEMMA AlertsKeep ==
  ASSUME Owned, page = "alerts" => AlertsInv, AlertsUser
  PROVE  page = "alerts" /\ page' = page /\ Owned' /\ AlertsInv'
<1>1. page = "alerts" /\ page' = page /\ Owned'
  BY Zenon, SetKeeps
     DEF AlertsUser, EditForms, ShowCreate, AddRule, EditRule, SaveRule, CancelRule, DeleteRule,
         ToggleRule, FilterRules, OnAlerts
<1>2. AlertsInv /\ DOMAIN ui = AlertFields
  BY Zenon, <1>1 DEF AlertsInv
<1>3. /\ MaxRules \in Nat /\ ui.made \in 0 .. MaxRules /\ ui.editRule \in 0 .. ui.made
      /\ ui.deleted \subseteq 1 .. ui.made /\ DOMAIN ui.wanted = 1 .. MaxRules
      /\ RuleIds(ui) = (1 .. ui.made) \ ui.deleted
  BY Zenon, <1>2, BoardsAssumption DEF AlertsInv
<1>4. ASSUME NEW r \in ui.rules
      PROVE  /\ r.id \in RuleIds(ui) /\ r.id \in 1 .. ui.made /\ r.id \in 1 .. MaxRules
             /\ Kept(r, ui.wanted) /\ DOMAIN r = RuleFields /\ DOMAIN ui.wanted[r.id] = WantedFields
  <2>1. r.id \in RuleIds(ui) /\ r.id \in 1 .. ui.made
    BY Zenon, <1>3 DEF RuleIds
  <2>2. r.id \in 1 .. MaxRules
    BY SMT, <1>3, <2>1
  <2> QED BY Zenon, <1>2, <2>1, <2>2 DEF AlertsInv, Kept
<1>5. ASSUME ui'.rules = ui.rules, ui'.made = ui.made, ui'.wanted = ui.wanted, ui'.deleted = ui.deleted,
             ui'.editRule \in 0 .. ui.made, DOMAIN ui' = AlertFields
      PROVE  AlertsInv'
  BY Zenon, <1>2, <1>5 DEF AlertsInv, RuleIds
<1>6. CASE EditForms \/ ShowCreate \/ FilterRules
  <2>1. /\ DOMAIN ui' = AlertFields /\ ui'.rules = ui.rules /\ ui'.made = ui.made /\ ui'.wanted = ui.wanted
        /\ ui'.deleted = ui.deleted /\ ui'.editRule = ui.editRule
    BY Zenon, <1>2, <1>6 DEF EditForms, ShowCreate, FilterRules, Set, AlertFields
  <2> QED BY Zenon, <1>1, <1>3, <1>5, <2>1
<1>7. CASE CancelRule
  <2>1. /\ DOMAIN ui' = AlertFields /\ ui'.rules = ui.rules /\ ui'.made = ui.made /\ ui'.wanted = ui.wanted
        /\ ui'.deleted = ui.deleted /\ ui'.editRule \in {ui.editRule, NoRule}
    BY Zenon, <1>2, <1>7 DEF CancelRule, CloseEdit, Set, AlertFields
  <2>2. ui'.editRule \in 0 .. ui.made
    BY SMT, <1>3, <2>1 DEF NoRule
  <2> QED BY Zenon, <1>1, <1>5, <2>1, <2>2
<1>8. CASE EditRule
  <2>1. PICK r \in ui.rules : /\ DOMAIN ui' = AlertFields /\ ui'.rules = ui.rules /\ ui'.made = ui.made
                              /\ ui'.wanted = ui.wanted /\ ui'.deleted = ui.deleted /\ ui'.editRule = r.id
    BY Zenon, <1>2, <1>8 DEF EditRule, FilteredRules, Set, AlertFields
  <2>2. ui'.editRule \in 0 .. ui.made
    BY SMT, <1>3, <1>4, <2>1
  <2> QED BY Zenon, <1>1, <1>5, <2>1, <2>2
<1>9. CASE AddRule
  <2>1. PICK id : id = ui.made + 1
    OBVIOUS
  <2>2. PICK w : w = [value |-> ui.create, enabled |-> TRUE]
    OBVIOUS
  <2>3. PICK n : n = [id |-> id, value |-> ui.create, enabled |-> TRUE, status |-> "ok"]
    OBVIOUS
  <2>4. /\ ui' = [ui EXCEPT !.made = id, !.create = NoForm, !.wanted[id] = w, !.rules = @ \cup {n}]
        /\ ui.made < MaxRules
    BY Zenon, <1>9, <2>1, <2>2, <2>3 DEF AddRule, Set
  <2>5. /\ DOMAIN ui' = AlertFields /\ ui'.made = id /\ ui'.wanted = [ui.wanted EXCEPT ![id] = w]
        /\ ui'.rules = ui.rules \cup {n} /\ ui'.deleted = ui.deleted /\ ui'.editRule = ui.editRule
    BY Zenon, <1>2, <2>4 DEF AlertFields
  <2>6. /\ id \in 1 .. MaxRules /\ id \in 0 .. MaxRules /\ ui'.editRule \in 0 .. id /\ id \notin 1 .. ui.made
        /\ ui'.deleted \subseteq 1 .. id /\ (1 .. id) \ ui.deleted = ((1 .. ui.made) \ ui.deleted) \cup {id}
    BY SMT, <1>3, <2>1, <2>4, <2>5
  <2>7. /\ DOMAIN n = RuleFields /\ n.id = id /\ n.value = w.value /\ n.enabled = w.enabled /\ n.status = "ok"
        /\ n.enabled = TRUE /\ DOMAIN w = WantedFields
    BY SMT, <2>2, <2>3 DEF RuleFields, WantedFields
  <2>8. DOMAIN ui'.wanted = 1 .. MaxRules /\ ui'.wanted[id] = w
    BY Zenon, <1>3, <2>5, <2>6
  <2>9. ASSUME NEW i \in 1 .. MaxRules, i # id PROVE ui'.wanted[i] = ui.wanted[i]
    BY Zenon, <1>3, <2>5, <2>9
  <2>10. RuleIds(ui') = RuleIds(ui) \cup {id}
    BY Zenon, <2>5, <2>7 DEF RuleIds
  <2>11. \A i \in 1 .. MaxRules : DOMAIN ui'.wanted[i] = WantedFields
    BY Zenon, <1>2, <2>7, <2>8, <2>9 DEF AlertsInv
  <2>12. ASSUME NEW r \in ui.rules PROVE r.id # id /\ Kept(r, ui'.wanted)
    <3>1. r.id # id
      BY Zenon, <1>4, <2>6
    <3>2. ui'.wanted[r.id] = ui.wanted[r.id]
      BY Zenon, <1>4, <2>9, <3>1
    <3> QED BY Zenon, <1>4, <3>1, <3>2 DEF Kept
  <2>13. Kept(n, ui'.wanted)
    <3>1. ~(n.status = "silenced")
      BY Zenon, <2>7
    <3> QED BY Zenon, <2>7, <2>8, <3>1 DEF Kept
  <2>14. \A r, s \in ui'.rules : r.id = s.id => r = s
    BY Zenon, <1>2, <2>5, <2>7, <2>12 DEF AlertsInv
  <2>15. \A r \in ui'.rules : Kept(r, ui'.wanted)
    BY Zenon, <2>5, <2>12, <2>13
  <2>16. RuleIds(ui') = (1 .. ui'.made) \ ui'.deleted
    BY Zenon, <1>3, <2>5, <2>6, <2>10
  <2> QED BY Zenon, <1>1, <2>5, <2>6, <2>8, <2>11, <2>14, <2>15, <2>16 DEF AlertsInv, RuleIds
<1>10. CASE DeleteRule
  <2>1. PICK d \in ui.rules : ui' = [ui EXCEPT !.rules = {x \in @ : x.id # d.id}, !.deleted = @ \cup {d.id}]
    BY Zenon, <1>10 DEF DeleteRule, FilteredRules, Set
  <2>2. /\ DOMAIN ui' = AlertFields /\ ui'.rules = {x \in ui.rules : x.id # d.id}
        /\ ui'.deleted = ui.deleted \cup {d.id} /\ ui'.made = ui.made /\ ui'.wanted = ui.wanted
        /\ ui'.editRule = ui.editRule
    BY Zenon, <1>2, <2>1 DEF AlertFields
  <2>3. ui'.deleted \subseteq 1 .. ui'.made
    BY Zenon, <1>3, <1>4, <2>2
  <2>4. RuleIds(ui') = RuleIds(ui) \ {d.id}
    BY Zenon, <2>2 DEF RuleIds
  <2>5. RuleIds(ui') = (1 .. ui'.made) \ ui'.deleted
    BY Zenon, <1>3, <2>2, <2>4
  <2> QED BY Zenon, <1>1, <1>2, <2>2, <2>3, <2>5 DEF AlertsInv, RuleIds
<1>11. ASSUME NEW f, NEW W, DOMAIN ui' = AlertFields, ui'.made = ui.made, ui'.deleted = ui.deleted,
              ui'.editRule \in 0 .. ui.made, ui'.rules = {f[r] : r \in ui.rules}, ui'.wanted = W,
              DOMAIN W = 1 .. MaxRules, \A i \in 1 .. MaxRules : DOMAIN W[i] = WantedFields,
              \A r \in ui.rules : f[r].id = r.id /\ Kept(f[r], W)
       PROVE  AlertsInv'
  <2>1. RuleIds(ui') = RuleIds(ui)
    <3>1. ASSUME NEW i \in RuleIds(ui') PROVE i \in RuleIds(ui)
      <4>1. PICK q \in ui'.rules : i = q.id
        BY Zenon DEF RuleIds
      <4>2. PICK r \in ui.rules : q = f[r]
        BY Zenon, <1>11
      <4> QED BY Zenon, <1>11, <4>1, <4>2 DEF RuleIds
    <3>2. ASSUME NEW i \in RuleIds(ui) PROVE i \in RuleIds(ui')
      <4>1. PICK r \in ui.rules : i = r.id
        BY Zenon DEF RuleIds
      <4>2. f[r] \in ui'.rules /\ i = f[r].id
        BY Zenon, <1>11, <4>1
      <4> QED BY Zenon, <4>2 DEF RuleIds
    <3> QED BY Zenon, <3>1, <3>2
  <2>2. \A r, s \in ui'.rules : r.id = s.id => r = s
    <3> SUFFICES ASSUME NEW r \in ui'.rules, NEW s \in ui'.rules, r.id = s.id PROVE r = s
      OBVIOUS
    <3>1. PICK a \in ui.rules : r = f[a]
      BY Zenon, <1>11
    <3>2. PICK b \in ui.rules : s = f[b]
      BY Zenon, <1>11
    <3>3. r.id = a.id /\ s.id = b.id
      BY Zenon, <1>11, <3>1, <3>2
    <3>4. a = b
      BY Zenon, <1>2, <3>3 DEF AlertsInv
    <3> QED BY Zenon, <3>1, <3>2, <3>4
  <2>3. \A r \in ui'.rules : Kept(r, ui'.wanted)
    BY Zenon, <1>11
  <2> QED BY Zenon, <1>3, <1>11, <2>1, <2>2, <2>3 DEF AlertsInv, RuleIds
<1>12. CASE SaveRule
  <2>0. PICK f : f = [r \in ui.rules |-> IF r.id = ui.editRule THEN RuleSaved(r, ui) ELSE r]
    OBVIOUS
  <2>1. PICK W : W = [ui.wanted EXCEPT ![ui.editRule].value = ui.form]
    OBVIOUS
  <2>2. PICK u : u = [ui EXCEPT !.rules = {IF r.id = ui.editRule THEN RuleSaved(r, ui) ELSE r : r \in @},
                                !.wanted[ui.editRule].value = ui.form]
    OBVIOUS
  <2>3. ui' = CloseEdit(u) /\ ui.editRule # NoRule
    BY Zenon, <1>12, <2>2 DEF SaveRule, Set
  <2>4. /\ DOMAIN u = AlertFields /\ u.wanted = W /\ u.made = ui.made /\ u.deleted = ui.deleted
        /\ u.rules = {IF r.id = ui.editRule THEN RuleSaved(r, ui) ELSE r : r \in ui.rules}
    BY Zenon, <1>2, <2>1, <2>2 DEF AlertFields
  <2>a. u.rules = {f[r] : r \in ui.rules}
    BY Zenon, <2>0, <2>4
  <2>5. /\ DOMAIN ui' = AlertFields /\ ui'.rules = {f[r] : r \in ui.rules} /\ ui'.wanted = W
        /\ ui'.made = ui.made /\ ui'.deleted = ui.deleted /\ ui'.editRule = NoRule
    BY Zenon, <2>3, <2>4, <2>a DEF CloseEdit, AlertFields
  <2>6. ui.editRule \in 1 .. MaxRules /\ ui'.editRule \in 0 .. ui.made
    BY SMT, <1>3, <2>3, <2>5 DEF NoRule
  <2>7. DOMAIN ui.wanted[ui.editRule] = WantedFields
    BY Zenon, <1>2, <2>6 DEF AlertsInv
  <2>8. /\ DOMAIN W = 1 .. MaxRules /\ W[ui.editRule] = [ui.wanted[ui.editRule] EXCEPT !.value = ui.form]
        /\ \A i \in 1 .. MaxRules : i # ui.editRule => W[i] = ui.wanted[i]
    BY Zenon, <1>3, <2>1, <2>6
  <2>9. /\ DOMAIN W[ui.editRule] = WantedFields /\ W[ui.editRule].value = ui.form
        /\ W[ui.editRule].enabled = ui.wanted[ui.editRule].enabled
    BY Zenon, <2>7, <2>8 DEF WantedFields
  <2>10. \A i \in 1 .. MaxRules : DOMAIN W[i] = WantedFields
    BY Zenon, <1>2, <2>8, <2>9 DEF AlertsInv
  <2>11. ASSUME NEW r \in ui.rules PROVE f[r].id = r.id /\ Kept(f[r], W)
    <3>1. CASE r.id # ui.editRule
      BY Zenon, <1>4, <2>0, <2>8, <3>1 DEF Kept
    <3>2. CASE r.id = ui.editRule
      <4>1. PICK q : q = RuleSaved(r, ui)
        OBVIOUS
      <4>2. /\ DOMAIN q = RuleFields /\ q.id = r.id /\ q.value = ui.form /\ q.enabled = r.enabled
            /\ q.status = r.status
        BY Zenon, <1>4, <4>1 DEF RuleSaved, RuleFields
      <4>3. Kept(q, W)
        <5>1. r.enabled = ui.wanted[ui.editRule].enabled /\ (r.status = "silenced" <=> ~r.enabled)
          BY Zenon, <1>4, <3>2 DEF Kept
        <5>2. q.id = ui.editRule
          BY Zenon, <3>2, <4>2
        <5>3. q.value = W[q.id].value /\ q.enabled = W[q.id].enabled
          BY Zenon, <2>9, <4>2, <5>1, <5>2
        <5>4. q.status = "silenced" <=> ~q.enabled
          BY Zenon, <4>2, <5>1
        <5> QED BY Zenon, <4>2, <5>3, <5>4 DEF Kept
      <4> QED BY Zenon, <2>0, <3>2, <4>1, <4>2, <4>3
    <3> QED BY <3>1, <3>2
  <2>12. AlertsInv'
    BY Zenon, <1>11, <2>5, <2>6, <2>8, <2>10, <2>11
  <2> QED BY Zenon, <1>1, <2>12
<1>13. CASE ToggleRule
  <2>1. PICK t \in ui.rules :
          ui' = [ui EXCEPT !.wanted[t.id].enabled = ~@,
                           !.rules = {IF x.id = t.id THEN RuleToggled(x) ELSE x : x \in @}]
    BY Zenon, <1>13 DEF ToggleRule, FilteredRules, Set
  <2>0. PICK f : f = [r \in ui.rules |-> IF r.id = t.id THEN RuleToggled(r) ELSE r]
    OBVIOUS
  <2>2. PICK W : W = [ui.wanted EXCEPT ![t.id].enabled = ~@]
    OBVIOUS
  <2>3. /\ DOMAIN ui' = AlertFields /\ ui'.wanted = W
        /\ ui'.rules = {IF x.id = t.id THEN RuleToggled(x) ELSE x : x \in ui.rules}
        /\ ui'.made = ui.made /\ ui'.deleted = ui.deleted /\ ui'.editRule = ui.editRule
    BY Zenon, <1>2, <2>1, <2>2 DEF AlertFields
  <2>a. ui'.rules = {f[r] : r \in ui.rules}
    BY Zenon, <2>0, <2>3
  <2>4. t.id \in 1 .. MaxRules /\ DOMAIN ui.wanted[t.id] = WantedFields
    BY Zenon, <1>4
  <2>5. /\ DOMAIN W = 1 .. MaxRules /\ W[t.id] = [ui.wanted[t.id] EXCEPT !.enabled = ~@]
        /\ \A i \in 1 .. MaxRules : i # t.id => W[i] = ui.wanted[i]
    BY Zenon, <1>3, <2>2, <2>4
  <2>6. /\ DOMAIN W[t.id] = WantedFields /\ W[t.id].enabled = ~ui.wanted[t.id].enabled
        /\ W[t.id].value = ui.wanted[t.id].value
    BY Zenon, <2>4, <2>5 DEF WantedFields
  <2>7. \A i \in 1 .. MaxRules : DOMAIN W[i] = WantedFields
    BY Zenon, <1>2, <2>5, <2>6 DEF AlertsInv
  <2>8. ASSUME NEW r \in ui.rules PROVE f[r].id = r.id /\ Kept(f[r], W)
    <3>1. CASE r.id # t.id
      <4>1. f[r] = r /\ W[r.id] = ui.wanted[r.id]
        BY Zenon, <1>4, <2>0, <2>5, <3>1
      <4> QED BY Zenon, <1>4, <4>1 DEF Kept
    <3>2. CASE r.id = t.id
      <4>1. PICK q : q = RuleToggled(r)
        OBVIOUS
      <4>2. /\ DOMAIN q = RuleFields /\ q.id = r.id /\ q.value = r.value /\ q.enabled = ~r.enabled
            /\ q.status = IF ~r.enabled THEN "ok" ELSE "silenced"
        BY Zenon, <1>4, <4>1 DEF RuleToggled, RuleFields
      <4>3. q.enabled = W[q.id].enabled /\ q.value = W[q.id].value
        <5>1. r.enabled = ui.wanted[t.id].enabled /\ r.value = ui.wanted[t.id].value
          BY Zenon, <1>4, <3>2 DEF Kept
        <5>2. q.id = t.id
          BY Zenon, <3>2, <4>2
        <5> QED BY Zenon, <2>6, <4>2, <5>1, <5>2
      <4>4. q.status = "silenced" <=> ~q.enabled
        <5>1. "ok" # "silenced"
          BY SMT
        <5> QED BY Zenon, <4>2, <5>1
      <4> QED BY Zenon, <2>0, <3>2, <4>1, <4>2, <4>3, <4>4 DEF Kept
    <3> QED BY <3>1, <3>2
  <2>9. AlertsInv'
    BY Zenon, <1>3, <1>11, <2>3, <2>a, <2>5, <2>7, <2>8
  <2> QED BY Zenon, <1>1, <2>9
<1> QED BY Zenon, <1>6, <1>7, <1>8, <1>9, <1>10, <1>12, <1>13 DEF AlertsUser

\* The page opens without rules.
LEMMA AlertsOpen ==
  ASSUME OpenAlerts PROVE page' = "alerts" /\ Owned' /\ AlertsInv'
<1>1. page' = "alerts" /\ ui' = AlertsInit /\ Owned'
  BY SMT, OpensClean DEF OpenAlerts, Elsewhere
<1>2. /\ DOMAIN AlertsInit = AlertFields /\ AlertsInit.rules = {} /\ AlertsInit.made = 0
      /\ AlertsInit.editRule = 0 /\ AlertsInit.deleted = {}
      /\ AlertsInit.wanted = [r \in 1 .. MaxRules |-> [value |-> NoForm, enabled |-> FALSE]]
  BY SMT DEF AlertsInit, AlertFields, NoRule
<1>3. PICK w : w = [value |-> NoForm, enabled |-> FALSE]
  OBVIOUS
<1>4. DOMAIN w = WantedFields
  BY SMT, <1>3 DEF WantedFields
<1>5. 0 \in 0 .. MaxRules /\ 0 \in 0 .. 0 /\ 1 .. 0 = {}
  BY SMT, BoardsAssumption
<1>6. AlertsInit.wanted = [r \in 1 .. MaxRules |-> w]
  BY Zenon, <1>2, <1>3
<1>7. DOMAIN ui'.wanted = 1 .. MaxRules /\ \A i \in 1 .. MaxRules : DOMAIN ui'.wanted[i] = WantedFields
  BY Zenon, <1>1, <1>4, <1>6
<1>8. RuleIds(ui') = (1 .. ui'.made) \ ui'.deleted
  BY Zenon, <1>1, <1>2, <1>5 DEF RuleIds
<1> QED BY Zenon, <1>1, <1>2, <1>5, <1>7, <1>8 DEF AlertsInv, RuleIds

\* So the rules on the page are as they are wanted.
LEMMA AlertsShow == ASSUME page = "alerts" => AlertsInv PROVE RulesAreAsWanted
  BY Zenon DEF AlertsInv, Kept, RulesAreAsWanted, OnAlerts

-----------------------------------------------------------------------------
\* The policy wizard (dashboard/policies/new).
WizardFields == {"step", "named", "mode", "role", "subject", "scope", "action", "publishing"}

\* A later step is reached only with what the earlier ones ask for; a policy that is being
\* published is the one that the last step explained, but for subjects that it words misleadingly.
WizardInv ==
  /\ DOMAIN ui = WizardFields
  /\ ui.step \in 1 .. 8 /\ ui.mode \in Modes /\ ui.action \in PolicyActions
  /\ ui.role \in BOOLEAN /\ ui.subject \in BOOLEAN
  /\ ui.step > 1 => ui.named
  /\ ui.step > 2 /\ ui.mode = "role" => ui.role
  /\ \A c \in flight : c.do = "publish" /\ c.here =>
       /\ {"do", "about", "here", "at", "said"} \subseteq DOMAIN c
       /\ c.about.scope = c.said.scope /\ c.about.action = c.said.action
       /\ c.about.who = c.said.who \/ Misleading(c.said)

\* Going forward and back, editing, publishing and the redirect keep the invariant.
LEMMA WizardKeeps ==
  ASSUME Owned, page = "newPolicy" => WizardInv, WizardUser \/ WizardStep
  PROVE  page' \in {"newPolicy", Elsewhere} /\ Owned' /\ (page' = "newPolicy" => WizardInv')
<1>1. ASSUME NEW k \in WizardFields \ {"step"}, NEW v, SetWizard(k, v),
             k \in {"named", "role", "subject"} => v \in BOOLEAN, k = "mode" => v \in Modes,
             k = "action" => v \in PolicyActions
      PROVE  page' = "newPolicy" /\ Owned' /\ WizardInv'
  <2>1. page = "newPolicy" /\ page' = page /\ Owned'
    BY Zenon, <1>1, SetKeeps DEF SetWizard, OnWizard
  <2>2. WizardInv
    BY Zenon, <2>1
  <2>3. /\ DOMAIN ui' = WizardFields /\ ui'[k] = v /\ \A f \in WizardFields \ {k} : ui'[f] = ui[f]
        /\ flight' = flight
    BY Zenon, <1>1, <2>2 DEF SetWizard, Set, WizardInv
  <2>4. /\ k = "named" => ui.step = 1
        /\ k \in {"mode", "role", "subject"} => ui.step = 2
        /\ k = "role" => ui.mode = "role"
    BY Zenon, <1>1 DEF SetWizard
  <2>5. ui'.step = ui.step /\ (k # "named" => ui'.named = ui.named) /\ (k # "mode" => ui'.mode = ui.mode)
        /\ (k # "role" => ui'.role = ui.role) /\ (k # "subject" => ui'.subject = ui.subject)
        /\ (k # "action" => ui'.action = ui.action)
    BY Zenon, <1>1, <2>3 DEF WizardFields
  <2>6. ui'.mode \in Modes /\ ui'.action \in PolicyActions /\ ui'.role \in BOOLEAN /\ ui'.subject \in BOOLEAN
    BY Zenon, <1>1, <2>2, <2>3, <2>5 DEF WizardInv
  <2>7. /\ ui'.step > 1 => ui'.named
        /\ ui'.step > 2 /\ ui'.mode = "role" => ui'.role
    BY SMT, <2>2, <2>4, <2>5 DEF WizardInv
  <2> QED BY Zenon, <2>1, <2>2, <2>3, <2>5, <2>6, <2>7 DEF WizardInv
<1>2. ASSUME NEW n \in 1 .. 8, OnWizard, n < ui.step \/ (CanProceed(ui) /\ n = ui.step + 1),
             Set([ui EXCEPT !.step = n])
      PROVE  page' = "newPolicy" /\ Owned' /\ WizardInv'
  <2>1. page = "newPolicy" /\ page' = page /\ Owned'
    BY Zenon, <1>2, SetKeeps DEF OnWizard
  <2>2. WizardInv
    BY Zenon, <2>1
  <2>3. /\ DOMAIN ui' = WizardFields /\ ui'.step = n /\ ui'.named = ui.named /\ ui'.mode = ui.mode
        /\ ui'.role = ui.role
        /\ ui'.subject = ui.subject /\ ui'.action = ui.action /\ flight' = flight
    BY Zenon, <1>2, <2>2 DEF Set, WizardInv, WizardFields
  <2>4. /\ n > 1 => ui.named
        /\ n > 2 /\ ui.mode = "role" => ui.role
    BY SMT, <1>2, <2>2 DEF WizardInv, CanProceed
  <2> QED BY Zenon, <2>1, <2>2, <2>3, <2>4 DEF WizardInv
<1>3. ASSUME ContinueWizard PROVE page' = "newPolicy" /\ Owned' /\ WizardInv'
  <2>1. page = "newPolicy" /\ WizardInv /\ OnWizard
    BY Zenon, <1>3 DEF ContinueWizard, OnWizard
  <2>2. ui.step + 1 \in 1 .. 8
    BY SMT, <1>3, <2>1 DEF ContinueWizard, WizardInv
  <2> QED BY Zenon, <1>2, <1>3, <2>1, <2>2 DEF ContinueWizard
<1>4. ASSUME NEW n \in 1 .. 7, ReturnTo(n) PROVE page' = "newPolicy" /\ Owned' /\ WizardInv'
  <2>1. n \in 1 .. 8
    BY SMT
  <2> QED BY Zenon, <1>2, <1>4, <2>1 DEF ReturnTo
<1>5. ASSUME Publish PROVE page' = "newPolicy" /\ Owned' /\ WizardInv'
  <2>1. page = "newPolicy" /\ WizardInv
    BY Zenon, <1>5 DEF Publish, OnWizard
  <2>2. PICK at, stored :
          /\ at = CASE ui.action = "rate_limit" -> "limit"
                 [] ui.action = "log" -> "push"
                 [] OTHER -> IF ui.role THEN "permission" ELSE "role"
          /\ stored = [who |-> IF at = "limit" THEN SubjectSent(ui)
                               ELSE IF ui.role THEN "the role" ELSE "nobody yet",
                       scope |-> ui.scope, action |-> ui.action]
    OBVIOUS
  <2>3. PICK c : c = [do |-> "publish", about |-> stored, here |-> TRUE, at |-> at, said |-> Explained(ui)]
    OBVIOUS
  <2>4. Send(c, [ui EXCEPT !.publishing = (at # "push")]) /\ ui.step = 8
    BY Zenon, <1>5, <2>2, <2>3 DEF Publish
  <2>5. DOMAIN c = {"do", "about", "here", "at", "said"} /\ c.do = "publish" /\ c.about = stored
          /\ c.said = Explained(ui)
    BY SMT, <2>3
  <2>6. page' = page /\ Owned'
    BY SMT, <2>1, <2>4, <2>5, SendKeeps DEF Belongs
  <2>7. stored.scope = Explained(ui).scope /\ stored.action = Explained(ui).action
    <3>1. stored.scope = ui.scope /\ stored.action = ui.action
      BY Zenon, <2>2
    <3>2. Explained(ui).scope = ui.scope /\ Explained(ui).action = ui.action
      BY SMT DEF Explained
    <3> QED BY Zenon, <3>1, <3>2
  <2>8. stored.who = Explained(ui).who \/ Misleading(Explained(ui))
    <3>1. ui.mode = "role" => ui.role
      BY SMT, <2>1, <2>4 DEF WizardInv
    <3>a. stored.who = IF at = "limit" THEN SubjectSent(ui) ELSE IF ui.role THEN "the role" ELSE "nobody yet"
      BY Zenon, <2>2
    <3>b. /\ ui.mode = "all" => Explained(ui).who = "everyone"
          /\ ui.mode = "role" => Explained(ui).who = "the role"
          /\ ui.mode \notin {"all", "role"} => Explained(ui).who = 
               IF ui.subject THEN "the subject" ELSE "unset"
      BY Zenon DEF Explained
    <3>c. at = "limit" <=> ui.action = "rate_limit"
      BY Zenon, <2>2
    <3>2. CASE ui.action = "rate_limit"
      <4>1. at = "limit" /\ stored.who = SubjectSent(ui)
        BY Zenon, <3>2, <3>a, <3>c
      <4>2. Explained(ui).who \in {"the role", "unset"} => Misleading(Explained(ui))
        BY SMT, <3>2 DEF Explained, Misleading
      <4>3. Explained(ui).who = SubjectSent(ui) \/ Explained(ui).who \in {"the role", "unset"}
        BY Zenon, <3>b DEF SubjectSent
      <4> QED BY Zenon, <4>1, <4>2, <4>3
    <3>3. CASE ui.action # "rate_limit"
      <4>1. at # "limit" /\ stored.who = IF ui.role THEN "the role" ELSE "nobody yet"
        BY Zenon, <3>3, <3>a, <3>c
      <4>2. Explained(ui).who # "the role" => Misleading(Explained(ui))
        BY SMT, <3>3 DEF Explained, Misleading
      <4>3. Explained(ui).who = "the role" => ui.mode = "role"
        BY Zenon, <3>b
      <4> QED BY Zenon, <3>1, <4>1, <4>2, <4>3
    <3> QED BY <3>2, <3>3
  <2>9. /\ DOMAIN ui' = WizardFields /\ ui'.step = ui.step /\ ui'.named = ui.named /\ ui'.mode = ui.mode
        /\ ui'.role = ui.role
        /\ ui'.subject = ui.subject /\ ui'.action = ui.action /\ flight' = flight \cup {c}
    BY Zenon, <2>1, <2>4 DEF Send, WizardInv, WizardFields
  <2> QED BY Zenon, <2>1, <2>5, <2>6, <2>7, <2>8, <2>9 DEF WizardInv
<1>6. ASSUME NEW c \in flight, NEW to, c.do = "publish", c.here,
             PublishGoesOn(c, ui, [c EXCEPT !.at = to])
               \/ PublishGoesOn(c, [ui EXCEPT !.publishing = FALSE], [c EXCEPT !.at = to])
      PROVE  page' = "newPolicy" /\ Owned' /\ WizardInv'
  <2>1. page = "newPolicy" /\ WizardInv
    BY Zenon, <1>6, Whose
  <2>2. PICK d : d = [c EXCEPT !.at = to]
    OBVIOUS
  <2>3. {"do", "about", "here", "at", "said"} \subseteq DOMAIN c
    BY Zenon, <1>6, <2>1 DEF WizardInv
  <2>4. DOMAIN d = DOMAIN c /\ d.do = c.do /\ d.here = c.here /\ d.about = c.about /\ d.said = c.said
    BY Zenon, <2>2, <2>3
  <2>5. flight' = (flight \ {c}) \cup {d} /\ page' = page
    BY Zenon, <1>6, <2>2 DEF PublishGoesOn
  <2>6. Owned'
    BY SMT, <2>4, <2>5 DEF Owned
  <2>7. /\ DOMAIN ui' = WizardFields /\ ui'.step = ui.step /\ ui'.named = ui.named /\ ui'.mode = ui.mode
        /\ ui'.role = ui.role
        /\ ui'.subject = ui.subject /\ ui'.action = ui.action
    BY Zenon, <1>6, <2>1 DEF PublishGoesOn, WizardInv, WizardFields
  <2> QED BY Zenon, <1>6, <2>1, <2>4, <2>5, <2>6, <2>7 DEF WizardInv
<1>7. ASSUME NEW c \in flight, PublishFails(c) PROVE page' = "newPolicy" /\ Owned' /\ WizardInv'
  <2>1. page = "newPolicy" /\ WizardInv
    BY Zenon, <1>7, Whose DEF PublishFails
  <2>2. page' = page /\ Owned'
    BY Zenon, <1>7, TakeKeeps DEF PublishFails
  <2>3. /\ DOMAIN ui' = WizardFields /\ ui'.step = ui.step /\ ui'.named = ui.named /\ ui'.mode = ui.mode
        /\ ui'.role = ui.role
        /\ ui'.subject = ui.subject /\ ui'.action = ui.action /\ flight' = flight \ {c}
    BY Zenon, <1>7, <2>1 DEF PublishFails, Take, WizardInv, WizardFields
  <2> QED BY Zenon, <2>1, <2>2, <2>3 DEF WizardInv
<1>8. ASSUME NEW c \in flight, PublishPushes(c) PROVE page' = Elsewhere /\ Owned'
  <2>1. Elsewhere \in Away
    BY DEF Away
  <2> QED BY Zenon, <1>8, <2>1, RedirectKeeps DEF PublishPushes
<1>9. Elsewhere # "newPolicy"
  BY DEF Elsewhere
<1>10. CASE WizardUser
  <2>1. {"named", "role", "subject"} \subseteq WizardFields \ {"step"}
          /\ {"mode", "scope", "action"} \subseteq WizardFields \ {"step"}
    BY DEF WizardFields
  <2>2. ASSUME NEW k \in {"named", "role", "subject"}, NEW b \in BOOLEAN, SetWizard(k, b)
        PROVE page' = "newPolicy" /\ Owned' /\ WizardInv'
    BY Zenon, <1>1, <2>1, <2>2
  <2>3. ASSUME NEW m \in Modes, SetWizard("mode", m) PROVE page' = "newPolicy" /\ Owned' /\ WizardInv'
    BY Zenon, <1>1, <2>1, <2>3
  <2>4. ASSUME NEW v, SetWizard("scope", v) PROVE page' = "newPolicy" /\ Owned' /\ WizardInv'
    BY Zenon, <1>1, <2>1, <2>4
  <2>5. ASSUME NEW a \in PolicyActions, SetWizard("action", a)
        PROVE page' = "newPolicy" /\ Owned' /\ WizardInv'
    BY Zenon, <1>1, <2>1, <2>5
  <2> QED BY Zenon, <1>3, <1>4, <1>5, <1>10, <2>2, <2>3, <2>4, <2>5 DEF WizardUser
<1>11. CASE WizardStep
  BY Zenon, <1>6, <1>7, <1>8, <1>9, <1>11 DEF WizardStep, RoleMade, PolicyMade
<1> QED BY Zenon, <1>10, <1>11

\* The wizard opens on its first step.
LEMMA WizardOpens ==
  ASSUME OpenNewPolicy PROVE page' = "newPolicy" /\ Owned' /\ WizardInv'
<1>1. page' = "newPolicy" /\ ui' = WizardInit /\ Owned' /\ flight' = LeftBehind(Redirects)
  BY Zenon, OpenKeeps DEF OpenNewPolicy, Open
<1>2. \A c \in flight' : ~c.here
  BY SMT, <1>1 DEF LeftBehind
<1> QED BY SMT, <1>1, <1>2 DEF WizardInv, WizardInit, WizardFields, Modes, PolicyActions

\* So what is published is as explained, and the steps before the one shown are complete.
LEMMA WizardShows == ASSUME page = "newPolicy" => WizardInv PROVE PublishedAsExplained /\ StepsAreComplete
  BY Zenon DEF PublishedAsExplained, StepsAreComplete, WizardInv, OnWizard, InFlight

-----------------------------------------------------------------------------
\* The rules of a policy (dashboard/policies/[id]).
RulesFields == {"row", "copy", "input", "editing", "confirming", "deleting", "saves", "touched", "others"}

\* These rules differ from the initial ones only where the user, or another, edited them.
AsEdited(u, p) ==
  /\ DOMAIN p = {"limit", "burst"} /\ p.limit \in Nat
  /\ p.limit # 1 /\ ~u.others => "limit" \in u.touched
  /\ p.burst # Nothing => "burst" \in u.touched

\* What is stored, fetched, in the form or on its way is as it was edited, and no limit that is
\* stored is 0.
RulesInv ==
  /\ DOMAIN ui = RulesFields
  /\ AsEdited(ui, ui.row) /\ AsEdited(ui, ui.copy) /\ AsEdited(ui, ui.input)
  /\ ui.row.limit > 0 /\ ui.copy.limit > 0
  /\ \A c \in flight : c.do = "updatePolicy" =>
       {"do", "here", "about"} \subseteq DOMAIN c /\ AsEdited(ui, c.about) /\ c.about.limit > 0

\* More edits do not change that.
LEMMA StaysEdited ==
  ASSUME NEW u, NEW v, NEW p, AsEdited(u, p), u.touched \subseteq v.touched, u.others => v.others
  PROVE  AsEdited(v, p)
  BY Zenon DEF AsEdited

\* A step that moves rules from the row to the copy to the form keeps the invariant.
LEMMA RulesQuiet ==
  ASSUME RulesInv, DOMAIN ui' = RulesFields, ui'.row = ui.row,
         ui'.copy \in {ui.copy, ui.row}, ui'.input \in {ui.input, ui.copy},
         ui'.touched = ui.touched, ui'.others = ui.others, flight' \subseteq flight
  PROVE  RulesInv'
<1>1. \A p : AsEdited(ui, p) => AsEdited(ui', p)
  BY Zenon, StaysEdited
<1> QED BY Zenon, <1>1 DEF RulesInv

\* Editing, saving, the refetch, another's edit and the policy's deletion keep the invariant.
LEMMA RulesKeep ==
  ASSUME Owned, page = "policy" => RulesInv, page = "landing" => Landed, RulesUser \/ RulesStep
  PROVE  /\ page' \in {"policy"} \cup Away /\ Owned' /\ (page' = "policy" => RulesInv')
         /\ page' = "landing" => Landed'
<1> DEFINE Goal == page' = "policy" /\ Owned' /\ RulesInv'
<1>1. ASSUME OnRules PROVE page = "policy" /\ RulesInv /\ DOMAIN ui = RulesFields
  BY Zenon, <1>1 DEF OnRules, RulesInv
<1>2. ASSUME EditRules \/ CancelRules \/ RemountRules \/ PolicyRefetched \/ \E b \in BOOLEAN : AskDelete(b)
      PROVE Goal
  <2>1. OnRules
    BY Zenon, <1>2 DEF EditRules, CancelRules, RemountRules, PolicyRefetched, AskDelete
  <2>2. page' = page /\ Owned'
    BY Zenon, <1>2, SetKeeps DEF EditRules, CancelRules, RemountRules, PolicyRefetched, AskDelete
  <2>3. /\ DOMAIN ui' = RulesFields /\ ui'.row = ui.row /\ ui'.touched = ui.touched /\ ui'.others = ui.others
        /\ flight' = flight
        /\ ui'.copy \in {ui.copy, ui.row} /\ ui'.input \in {ui.input, ui.copy}
    BY Zenon, <1>1, <1>2, <2>1
       DEF EditRules, CancelRules, RemountRules, PolicyRefetched, AskDelete, Set, RulesFields
  <2> QED BY Zenon, <1>1, <2>1, <2>2, <2>3, RulesQuiet
<1>3. ASSUME NEW f \in {"limit", "burst"}, NEW v \in Nat, SetRule(f, v) PROVE Goal
  <2>1. OnRules /\ page' = page /\ Owned'
    BY Zenon, <1>3, SetKeeps DEF SetRule
  <2>2. /\ DOMAIN ui' = RulesFields /\ ui'.row = ui.row /\ ui'.copy = ui.copy
        /\ ui'.touched = ui.touched \cup {f} /\ ui'.others = ui.others
        /\ flight' = flight /\ ui'.input = [ui.input EXCEPT ![f] = v]
    BY Zenon, <1>1, <1>3, <2>1 DEF SetRule, Set, RulesFields
  <2>3. \A p : AsEdited(ui, p) => AsEdited(ui', p)
    BY Zenon, <2>2, StaysEdited
  <2>4. AsEdited(ui', ui'.input)
    <3>1. AsEdited(ui', ui.input)
      BY Zenon, <1>1, <2>1, <2>3 DEF RulesInv
    <3>2. /\ DOMAIN ui'.input = {"limit", "burst"} /\ ui'.input[f] = v /\ f \in ui'.touched
          /\ f = "limit" => ui'.input.burst = ui.input.burst
          /\ f = "burst" => ui'.input.limit = ui.input.limit
      BY Zenon, <2>2, <3>1 DEF AsEdited
    <3> QED BY Zenon, <3>1, <3>2 DEF AsEdited
  <2> QED BY Zenon, <1>1, <2>1, <2>2, <2>3, <2>4 DEF RulesInv
<1>4. ASSUME OthersSetLimit PROVE Goal
  <2>1. OnRules /\ page' = page /\ Owned'
    BY Zenon, <1>4, SetKeeps DEF OthersSetLimit
  <2>2. /\ DOMAIN ui' = RulesFields /\ ui'.row = [ui.row EXCEPT !.limit = 3] /\ ui'.copy = ui.copy
        /\ ui'.touched = ui.touched /\ ui'.others = TRUE
        /\ flight' = flight /\ ui'.input = ui.input
    BY Zenon, <1>1, <1>4, <2>1 DEF OthersSetLimit, Set, RulesFields
  <2>3. \A p : AsEdited(ui, p) => AsEdited(ui', p)
    BY Zenon, <2>2, StaysEdited
  <2>4. AsEdited(ui', ui'.row) /\ ui'.row.limit > 0
    <3>1. AsEdited(ui', ui.row)
      BY Zenon, <1>1, <2>1, <2>3 DEF RulesInv
    <3>2. DOMAIN ui'.row = {"limit", "burst"} /\ ui'.row.limit = 3 /\ ui'.row.burst = ui.row.burst
      BY Zenon, <2>2, <3>1 DEF AsEdited
    <3>3. 3 \in Nat /\ 3 > 0
      BY SMT
    <3> QED BY Zenon, <2>2, <3>1, <3>2, <3>3 DEF AsEdited
  <2> QED BY Zenon, <1>1, <2>1, <2>2, <2>3, <2>4 DEF RulesInv
<1>5. ASSUME SaveRules PROVE Goal
  <2>1. OnRules
    BY Zenon, <1>5 DEF SaveRules
  <2>2. PICK c : c = [do |-> "updatePolicy", about |-> Updates(ui), here |-> TRUE, done |-> FALSE,
                      n |-> ui.saves]
    OBVIOUS
  <2>3. DOMAIN c = {"do", "about", "here", "done", "n"} /\ c.do = "updatePolicy" /\ c.about = Updates(ui)
    BY SMT, <2>2
  <2>4. Send(c, [ui EXCEPT !.saves = @ + 1])
    BY Zenon, <1>5, <2>2 DEF SaveRules
  <2>5. page' = page /\ Owned'
    BY SMT, <1>1, <2>1, <2>3, <2>4, SendKeeps DEF Belongs
  <2>6. /\ DOMAIN ui' = RulesFields /\ ui'.row = ui.row /\ ui'.touched = ui.touched /\ ui'.others = ui.others
        /\ flight' = flight \cup {c}
        /\ ui'.copy = ui.copy /\ ui'.input = ui.input
    BY Zenon, <1>1, <2>1, <2>4 DEF Send, RulesFields
  <2>7. \A p : AsEdited(ui, p) => AsEdited(ui', p)
    BY Zenon, <2>6, StaysEdited
  <2>8. AsEdited(ui, Updates(ui)) /\ Updates(ui).limit > 0
    <3>1. DOMAIN Updates(ui) = {"limit", "burst"} /\ Updates(ui).burst = ui.input.burst
          /\ Updates(ui).limit = IF ui.input.limit = 0 THEN ui.copy.limit ELSE ui.input.limit
      BY SMT DEF Updates, Policy
    <3>2. AsEdited(ui, ui.copy) /\ AsEdited(ui, ui.input) /\ ui.copy.limit > 0
      BY Zenon, <1>1, <2>1 DEF RulesInv
    <3> QED BY SMT, <3>1, <3>2 DEF AsEdited
  <2> QED BY Zenon, <1>1, <2>1, <2>3, <2>5, <2>6, <2>7, <2>8 DEF RulesInv
<1>6. ASSUME DeletePolicy PROVE Goal
  <2>1. OnRules
    BY Zenon, <1>6 DEF DeletePolicy
  <2>2. Send(Call("deletePolicy", 0), [ui EXCEPT !.deleting = TRUE])
    BY Zenon, <1>6 DEF DeletePolicy
  <2>3. page' = page /\ Owned'
    BY SMT, <1>1, <2>1, <2>2, SendKeeps DEF Belongs, Call
  <2>4. /\ DOMAIN ui' = RulesFields /\ ui'.row = ui.row /\ ui'.touched = ui.touched /\ ui'.others = ui.others
        /\ ui'.copy = ui.copy /\ ui'.input = ui.input /\ flight' = flight \cup {Call("deletePolicy", 0)}
    BY Zenon, <1>1, <2>1, <2>2 DEF Send, RulesFields
  <2>5. \A p : AsEdited(ui, p) => AsEdited(ui', p)
    BY Zenon, <2>4, StaysEdited
  <2>6. Call("deletePolicy", 0).do # "updatePolicy"
    BY SMT DEF Call
  <2> QED BY Zenon, <1>1, <2>1, <2>3, <2>4, <2>5, <2>6 DEF RulesInv
<1>7. ASSUME NEW c \in flight, RulesServed(c) PROVE Goal
  <2>1. page = "policy" /\ OnRules
    BY Zenon, <1>7, Whose DEF RulesServed, OnRules
  <2>2. page' = page /\ Owned'
    BY Zenon, <1>7, GoesOn DEF RulesServed
  <2>3. PICK d : d = [c EXCEPT !.done = TRUE]
    OBVIOUS
  <2>4. {"do", "here", "about"} \subseteq DOMAIN c /\ AsEdited(ui, c.about) /\ c.about.limit > 0
    BY Zenon, <1>1, <1>7, <2>1 DEF RulesServed, RulesInv
  <2>5. DOMAIN d = DOMAIN c /\ d.about = c.about
    BY Zenon, <2>3, <2>4
  <2>6. /\ DOMAIN ui' = RulesFields /\ ui'.row = c.about /\ ui'.touched = ui.touched /\ ui'.others = ui.others
        /\ ui'.copy = ui.copy /\ ui'.input = ui.input /\ flight' = (flight \ {c}) \cup {d}
    BY Zenon, <1>1, <1>7, <2>1, <2>3 DEF RulesServed, RulesFields
  <2>7. \A p : AsEdited(ui, p) => AsEdited(ui', p)
    BY Zenon, <2>6, StaysEdited
  <2> QED BY Zenon, <1>1, <2>1, <2>2, <2>4, <2>5, <2>6, <2>7 DEF RulesInv
<1>8. ASSUME NEW c \in flight, RulesAnswered(c) \/ RulesFail(c) PROVE Goal
  <2>1. page = "policy" /\ OnRules
    BY Zenon, <1>8, Whose DEF RulesAnswered, RulesFail, OnRules
  <2>2. page' = page /\ Owned'
    BY Zenon, <1>8, TakeKeeps DEF RulesAnswered, RulesFail
  <2>3. /\ DOMAIN ui' = RulesFields /\ ui'.row = ui.row /\ ui'.touched = ui.touched /\ ui'.others = ui.others
        /\ ui'.copy = ui.copy /\ ui'.input = ui.input /\ flight' = flight \ {c}
    BY Zenon, <1>1, <1>8, <2>1 DEF RulesAnswered, RulesFail, Take, RulesFields
  <2> QED BY Zenon, <1>1, <2>1, <2>2, <2>3, RulesQuiet
<1>9. ASSUME NEW c \in flight, PolicyDeleted(c) PROVE page' = Elsewhere /\ Owned'
  <2>1. Elsewhere \in Away
    BY DEF Away
  <2> QED BY Zenon, <1>9, <2>1, RedirectKeeps DEF PolicyDeleted
<1>10. ASSUME NEW c \in flight, DeleteFails(c)
       PROVE  /\ page' \in {"policy"} \cup Away /\ Owned' /\ (page' = "policy" => RulesInv')
              /\ page' = "landing" => Landed'
  <2>1. page' = page /\ Owned'
    BY Zenon, <1>10, TakeKeeps DEF DeleteFails
  <2>2. page \in {"policy"} \cup Away
    BY Zenon, <1>10, Whose DEF DeleteFails
  <2>3. page = "landing" => ui' = ui
    BY Zenon, <1>10 DEF DeleteFails, Take, OnRules
  <2>4. OnRules => /\ DOMAIN ui' = RulesFields /\ ui'.row = ui.row /\ ui'.touched = ui.touched
                   /\ ui'.others = ui.others
                   /\ ui'.copy = ui.copy /\ ui'.input = ui.input /\ flight' = flight \ {c}
    BY Zenon, <1>1, <1>10 DEF DeleteFails, Take, RulesFields
  <2>5. OnRules => RulesInv'
    BY Zenon, <1>1, <2>4, RulesQuiet
  <2> QED BY Zenon, <2>1, <2>2, <2>3, <2>5 DEF Landed, OnRules
<1>11. Elsewhere \in {"policy"} \cup Away /\ Elsewhere # "policy" /\ Elsewhere # "landing"
         /\ "policy" # "landing"
  BY DEF Elsewhere, Away
<1>12. CASE RulesUser
  <2>1. ASSUME NEW v \in 0 .. 2 PROVE v \in Nat
    BY SMT
  <2>2. ASSUME NEW v \in 0 .. 1 PROVE v \in Nat
    BY SMT
  <2> QED BY Zenon, <1>2, <1>3, <1>4, <1>5, <1>6, <1>11, <1>12, <2>1, <2>2 DEF RulesUser
<1>13. CASE RulesStep
  BY Zenon, <1>2, <1>7, <1>8, <1>9, <1>10, <1>11, <1>13 DEF RulesStep
<1> QED BY Zenon, <1>12, <1>13

\* The page opens on the rules as they are stored.
LEMMA RulesOpen ==
  ASSUME OpenPolicy PROVE page' = "policy" /\ Owned' /\ RulesInv'
<1>1. page' = "policy" /\ ui' = RulesInit /\ Owned' /\ flight' = LeftBehind(Redirects)
  BY Zenon, OpenKeeps DEF OpenPolicy, Open
<1>2. \A c \in flight' : c.do # "updatePolicy"
  BY SMT, <1>1 DEF LeftBehind, Redirects, Redirecting
<1>3. /\ DOMAIN ui' = RulesFields /\ ui'.row = Policy(1, Nothing) /\ ui'.copy = ui'.row /\ ui'.input = ui'.row
  BY SMT, <1>1 DEF RulesInit, RulesFields
<1>4. AsEdited(ui', Policy(1, Nothing)) /\ Policy(1, Nothing).limit > 0
  BY SMT DEF AsEdited, Policy, Nothing
<1> QED BY Zenon, <1>1, <1>2, <1>3, <1>4 DEF RulesInv

\* So a save stores what was edited and nothing else.
LEMMA RulesShow == ASSUME page = "policy" => RulesInv PROVE SavesWhatWasEdited
  BY Zenon DEF RulesInv, SavesWhatWasEdited, AsEdited, OnRules

-----------------------------------------------------------------------------
\* The playground (dashboard/playground).
PlaygroundFields ==
  {"server", "tool", "loaded", "listed", "mode", "fields", "json", "confirm", "named", "running",
   "result", "compare", "examples", "runs", "confirmed", "late", "kept"}

\* The examples that can be stored.
Examples == [server : Slugs, tool : Tools, args : Typed]

\* The state has its types; an example that was restored is in the field that it is shown in; and
\* a result is that of the tool that is loaded, confirmed if it is destructive, unless the tool
\* was changed meanwhile.
PlaySound(u) ==
  /\ DOMAIN u = PlaygroundFields
  /\ u.server \in Slugs /\ u.tool \in Tools \cup {NoTool} /\ u.loaded \in Tools \cup {NoTool}
  /\ u.mode \in {"form", "json"} /\ u.fields \in Typed /\ u.json \in Typed \cup {Unparsable}
  /\ u.examples \in Seq(Examples) /\ Len(u.examples) <= MaxExamples
  /\ u.kept # NoArgs => u.mode = "json" /\ u.json = u.kept
  /\ ~u.late /\ u.result # NoTool => u.result = u.loaded
     /\ (IsDestructive(u.loaded) => u.loaded \in u.confirmed)

\* A destructive tool that runs was confirmed for this run.
PlaygroundInv ==
  /\ PlaySound(ui)
  /\ \A c \in flight : /\ c.confirmed => c.about \in ui.confirmed
                       /\ IsDestructive(c.about) /\ ~ui.late => c.confirmed

\* The states differ in nothing that PlaySound is about.
PlayAlike(u, v) ==
  /\ DOMAIN v = PlaygroundFields
  /\ v.server = u.server /\ v.tool = u.tool /\ v.loaded = u.loaded /\ v.mode = u.mode /\ v.fields = u.fields
  /\ v.json = u.json /\ v.examples = u.examples /\ v.kept = u.kept /\ v.result = u.result
  /\ v.confirmed = u.confirmed
  /\ v.late = u.late

\* Then both are sound.
LEMMA AlikeSound == ASSUME NEW u, NEW v, PlaySound(u), PlayAlike(u, v) PROVE PlaySound(v)
  BY Zenon DEF PlaySound, PlayAlike

\* The effect that loads a tool keeps the state sound.
LEMMA LoadToolSound ==
  ASSUME NEW u, PlaySound(u)
  PROVE  PlaySound(LoadTool(u)) /\ LoadTool(u).confirmed = u.confirmed /\ LoadTool(u).late = u.late
<1>1. PICK w : w = LoadTool(u)
  OBVIOUS
<1>2. /\ DOMAIN w = PlaygroundFields /\ w.server = u.server /\ w.tool = u.tool /\ w.loaded = u.tool
      /\ w.mode = u.mode
      /\ w.fields = 0 /\ w.json = 0 /\ w.examples = u.examples /\ w.kept = NoArgs /\ w.result = NoTool
      /\ w.confirmed = u.confirmed /\ w.late = u.late
  BY Zenon, <1>1 DEF LoadTool, PlaySound, PlaygroundFields
<1>3. PlaySound(w)
  BY Zenon, <1>2 DEF PlaySound, Typed
<1> QED BY Zenon, <1>1, <1>2, <1>3

\* So do the effects after a rendering.
LEMMA RenderSound ==
  ASSUME NEW u, NEW v, PlaySound(v)
  PROVE  PlaySound(Render(u, v)) /\ Render(u, v).confirmed = v.confirmed /\ Render(u, v).late = v.late
<1>1. ASSUME NEW w, PlaySound(w)
      PROVE  PlaySound(SyncJson(u, v, w)) /\ SyncJson(u, v, w).confirmed = w.confirmed
        /\ SyncJson(u, v, w).late = w.late
  <2>1. PICK x : x = [w EXCEPT !.json = v.fields, !.kept = NoArgs]
    OBVIOUS
  <2>2. /\ DOMAIN x = PlaygroundFields /\ x.server = w.server /\ x.tool = w.tool /\ x.loaded = w.loaded
        /\ x.mode = w.mode
        /\ x.fields = w.fields /\ x.json = v.fields /\ x.examples = w.examples /\ x.kept = NoArgs
        /\ x.result = w.result
        /\ x.confirmed = w.confirmed /\ x.late = w.late
    BY Zenon, <1>1, <2>1 DEF PlaySound, PlaygroundFields
  <2>3. PlaySound(x)
    BY Zenon, <1>1, <2>2 DEF PlaySound
  <2> QED BY Zenon, <1>1, <2>1, <2>2, <2>3 DEF SyncJson
<1>2. PICK w : w = IF (\/ u.tool # v.tool
                       \/ u.server # v.server
                       \/ (u.server \in u.listed) # (v.server \in v.listed)) /\ ToolFound(v)
                           THEN LoadTool(v) ELSE v
  OBVIOUS
<1>3. PlaySound(w) /\ w.confirmed = v.confirmed /\ w.late = v.late
  BY Zenon, <1>2, LoadToolSound
<1>4. Render(u, v) = SyncJson(u, v, w)
  BY Zenon, <1>2 DEF Render
<1> QED BY Zenon, <1>1, <1>3, <1>4

\* A handler that sets a sound state and confirms nothing less keeps the invariant.
LEMMA PlaygroundSets ==
  ASSUME Owned, PlaygroundInv, NEW u, PlaySound(u), ui.confirmed \subseteq u.confirmed, u.late = ui.late,
         Set(u)
  PROVE  page' = page /\ Owned' /\ PlaygroundInv'
<1>1. page' = page /\ Owned'
  BY Zenon, SetKeeps
<1>2. ui' = u /\ flight' = flight
  BY Zenon DEF Set
<1> QED BY Zenon, <1>1, <1>2 DEF PlaygroundInv

\* So does one whose state is rendered, with the effects that follow.
LEMMA PlaygroundRenders ==
  ASSUME Owned, PlaygroundInv, NEW v, PlaySound(v), v.confirmed = ui.confirmed, v.late = ui.late,
         SetPlayground(v)
  PROVE  page' = page /\ Owned' /\ PlaygroundInv'
<1>1. PICK u : u = Render(ui, v)
  OBVIOUS
<1>2. PlaySound(u) /\ u.confirmed = ui.confirmed /\ u.late = ui.late /\ Set(u)
  BY Zenon, <1>1, RenderSound DEF SetPlayground
<1>3. ui.confirmed \subseteq u.confirmed
  BY Zenon, <1>2
<1> QED BY Zenon, <1>2, <1>3, PlaygroundSets

\* So does a run, if a destructive tool was confirmed.
LEMMA PlaygroundRuns ==
  ASSUME Owned, page = "playground", PlaygroundInv, NEW u, NEW compare, PlaySound(u),
         ui.confirmed \subseteq u.confirmed, u.late = ui.late,
         IsDestructive(u.loaded) /\ ~u.late => u.loaded \in u.confirmed, DoRun(compare, u)
  PROVE  page' = page /\ Owned' /\ PlaygroundInv'
<1>1. CASE u.mode = "json" /\ u.json = Unparsable
  BY Zenon, <1>1, PlaygroundSets DEF DoRun
<1>2. CASE ~(u.mode = "json" /\ u.json = Unparsable)
  <2>1. PICK c : c = ExecTool(compare, u)
    OBVIOUS
  <2>2. /\ DOMAIN c = {"do", "about", "here", "server", "compare", "confirmed"} /\ c.do = "run"
        /\ c.about = u.loaded
        /\ c.confirmed = (u.loaded \in u.confirmed)
    BY SMT, <2>1 DEF ExecTool
  <2>3. PICK w : w = [u EXCEPT !.running = TRUE, !.runs = @ + 1]
    OBVIOUS
  <2>4. Send(c, w)
    BY Zenon, <1>2, <2>1, <2>3 DEF DoRun
  <2>5. page' = page /\ Owned'
    BY SMT, <2>2, <2>4, SendKeeps DEF Belongs
  <2>6. PlayAlike(u, w)
    BY Zenon, <2>3 DEF PlayAlike, PlaySound, PlaygroundFields
  <2>7. PlaySound(w) /\ w.confirmed = u.confirmed /\ w.late = u.late
    BY Zenon, <2>6, AlikeSound DEF PlayAlike
  <2>8. ui' = w /\ flight' = flight \cup {c}
    BY Zenon, <2>4 DEF Send
  <2> QED BY Zenon, <2>2, <2>5, <2>7, <2>8 DEF PlaygroundInv
<1> QED BY <1>1, <1>2

\* Choosing, editing, confirming, running, the examples and the answers keep the invariant.
LEMMA PlaygroundKeeps ==
  ASSUME Owned, page = "playground" => PlaygroundInv, PlaygroundUser \/ PlaygroundStep
  PROVE  page = "playground" /\ page' = page /\ Owned' /\ PlaygroundInv'
<1>1. page = "playground" /\ PlaygroundInv
  BY Zenon, Whose
     DEF PlaygroundUser, PlaygroundStep, SelectServer, SelectTool, TypeToolName, SetMode, EditArgs,
         HandleExecute, CancelConfirm, HandleConfirm, Replay, SaveExample, LoadExample, ToolsListed,
         ToolsChanged, RunAnswered, RunFails, OnPlayground
<1>2. PlaySound(ui) /\ DOMAIN ui = PlaygroundFields
  BY Zenon, <1>1 DEF PlaygroundInv, PlaySound
<1>3. ASSUME NEW v, PlayAlike(ui, v), Set(v) \/ SetPlayground(v)
      PROVE page' = page /\ Owned' /\ PlaygroundInv'
  <2>1. PlaySound(v) /\ v.confirmed = ui.confirmed /\ v.late = ui.late /\ ui.confirmed \subseteq v.confirmed
    BY Zenon, <1>2, <1>3, AlikeSound DEF PlayAlike
  <2> QED BY Zenon, <1>1, <1>3, <2>1, PlaygroundSets, PlaygroundRenders
<1>4. ASSUME ToolsListed PROVE page' = page /\ Owned' /\ PlaygroundInv'
  <2>1. PICK v : v = [ui EXCEPT !.listed = @ \cup {ui.server}]
    OBVIOUS
  <2>2. PlayAlike(ui, v)
    BY Zenon, <1>2, <2>1 DEF PlayAlike, PlaygroundFields
  <2> QED BY Zenon, <1>3, <1>4, <2>1, <2>2 DEF ToolsListed
<1>5. ASSUME ToolsChanged PROVE page' = page /\ Owned' /\ PlaygroundInv'
  <2>1. PICK v : v = LoadTool(ui)
    OBVIOUS
  <2>2. PlaySound(v) /\ v.confirmed = ui.confirmed /\ v.late = ui.late /\ ui.confirmed \subseteq v.confirmed
    BY Zenon, <1>2, <2>1, LoadToolSound
  <2> QED BY Zenon, <1>1, <1>5, <2>1, <2>2, PlaygroundSets DEF ToolsChanged
<1>6. ASSUME NEW s \in Slugs, SelectServer(s) PROVE page' = page /\ Owned' /\ PlaygroundInv'
  <2>1. PICK v : v = [ui EXCEPT !.server = s, !.tool = NoTool, !.loaded = NoTool, !.result = NoTool,
                      !.kept = NoArgs]
    OBVIOUS
  <2>2. /\ DOMAIN v = PlaygroundFields /\ v.server = s /\ v.tool = NoTool /\ v.loaded = NoTool
        /\ v.mode = ui.mode
        /\ v.fields = ui.fields /\ v.json = ui.json /\ v.examples = ui.examples /\ v.kept = NoArgs
        /\ v.result = NoTool
        /\ v.confirmed = ui.confirmed /\ v.late = ui.late
    BY Zenon, <1>2, <2>1 DEF PlaygroundFields
  <2>3. PlaySound(v)
    BY Zenon, <1>2, <2>2 DEF PlaySound
  <2> QED BY Zenon, <1>1, <1>6, <2>1, <2>2, <2>3, PlaygroundRenders DEF SelectServer
<1>7. ASSUME NEW t \in Tools, SelectTool(t) PROVE page' = page /\ Owned' /\ PlaygroundInv'
  <2>1. PICK v : v = [ui EXCEPT !.tool = t]
    OBVIOUS
  <2>2. /\ DOMAIN v = PlaygroundFields /\ v.server = ui.server /\ v.tool = t /\ v.loaded = ui.loaded
        /\ v.mode = ui.mode
        /\ v.fields = ui.fields /\ v.json = ui.json /\ v.examples = ui.examples /\ v.kept = ui.kept
        /\ v.result = ui.result
        /\ v.confirmed = ui.confirmed /\ v.late = ui.late
    BY Zenon, <1>2, <2>1 DEF PlaygroundFields
  <2>3. PlaySound(v)
    BY Zenon, <1>2, <2>2 DEF PlaySound
  <2> QED BY Zenon, <1>1, <1>7, <2>1, <2>2, <2>3, PlaygroundRenders DEF SelectTool
<1>8. ASSUME NEW m \in {"form", "json"}, SetMode(m) PROVE page' = page /\ Owned' /\ PlaygroundInv'
  <2>1. PICK v : v = [ui EXCEPT !.mode = m, !.kept = NoArgs]
    OBVIOUS
  <2>2. /\ DOMAIN v = PlaygroundFields /\ v.server = ui.server /\ v.tool = ui.tool /\ v.loaded = ui.loaded
        /\ v.mode = m
        /\ v.fields = ui.fields /\ v.json = ui.json /\ v.examples = ui.examples /\ v.kept = NoArgs
        /\ v.result = ui.result
        /\ v.confirmed = ui.confirmed /\ v.late = ui.late
    BY Zenon, <1>2, <2>1 DEF PlaygroundFields
  <2>3. PlaySound(v)
    BY Zenon, <1>2, <2>2 DEF PlaySound
  <2> QED BY Zenon, <1>1, <1>8, <2>1, <2>2, <2>3, PlaygroundRenders DEF SetMode
<1>9. ASSUME NEW x \in Typed \cup {Unparsable}, EditArgs(x) PROVE page' = page /\ Owned' /\ PlaygroundInv'
  <2>1. CASE ui.mode = "form"
    <3>1. PICK v : v = [ui EXCEPT !.fields = x, !.kept = NoArgs]
      OBVIOUS
    <3>2. /\ DOMAIN v = PlaygroundFields /\ v.server = ui.server /\ v.tool = ui.tool /\ v.loaded = ui.loaded
          /\ v.mode = ui.mode
          /\ v.fields = x /\ v.json = ui.json /\ v.examples = ui.examples /\ v.kept = NoArgs
          /\ v.result = ui.result
          /\ v.confirmed = ui.confirmed /\ v.late = ui.late
      BY Zenon, <1>2, <3>1 DEF PlaygroundFields
    <3>3. x \in Typed /\ SetPlayground(v)
      BY Zenon, <1>9, <2>1, <3>1 DEF EditArgs
    <3>4. PlaySound(v)
      BY Zenon, <1>2, <3>2, <3>3 DEF PlaySound
    <3> QED BY Zenon, <1>1, <3>2, <3>3, <3>4, PlaygroundRenders
  <2>2. CASE ui.mode # "form"
    <3>1. PICK v : v = [ui EXCEPT !.json = x, !.kept = NoArgs]
      OBVIOUS
    <3>2. /\ DOMAIN v = PlaygroundFields /\ v.server = ui.server /\ v.tool = ui.tool /\ v.loaded = ui.loaded
          /\ v.mode = ui.mode
          /\ v.fields = ui.fields /\ v.json = x /\ v.examples = ui.examples /\ v.kept = NoArgs
          /\ v.result = ui.result
          /\ v.confirmed = ui.confirmed /\ v.late = ui.late
      BY Zenon, <1>2, <3>1 DEF PlaygroundFields
    <3>3. SetPlayground(v)
      BY Zenon, <1>9, <2>2, <3>1 DEF EditArgs
    <3>4. PlaySound(v)
      BY Zenon, <1>2, <3>2 DEF PlaySound
    <3> QED BY Zenon, <1>1, <3>2, <3>3, <3>4, PlaygroundRenders
  <2> QED BY <2>1, <2>2
<1>10. ASSUME NEW v, v \in {[ui EXCEPT !.confirm = TRUE], [ui EXCEPT !.confirm = FALSE, !.named = NoTool]},
              Set(v)
       PROVE  page' = page /\ Owned' /\ PlaygroundInv'
  <2>1. PlayAlike(ui, v)
    BY Zenon, <1>2, <1>10 DEF PlayAlike, PlaygroundFields
  <2> QED BY Zenon, <1>3, <1>10, <2>1
<1>11. ASSUME NEW t, TypeToolName(t) PROVE page' = page /\ Owned' /\ PlaygroundInv'
  <2>1. PICK v : v = [ui EXCEPT !.named = t]
    OBVIOUS
  <2>2. PlayAlike(ui, v)
    BY Zenon, <1>2, <2>1 DEF PlayAlike, PlaygroundFields
  <2> QED BY Zenon, <1>3, <1>11, <2>1, <2>2 DEF TypeToolName
<1>12. ASSUME CancelConfirm PROVE page' = page /\ Owned' /\ PlaygroundInv'
  BY Zenon, <1>10, <1>12 DEF CancelConfirm
<1>13. ASSUME HandleExecute PROVE page' = page /\ Owned' /\ PlaygroundInv'
  <2>1. CASE IsDestructive(ui.loaded)
    BY Zenon, <1>10, <1>13, <2>1 DEF HandleExecute
  <2>2. CASE ~IsDestructive(ui.loaded)
    BY Zenon, <1>1, <1>2, <1>13, <2>2, PlaygroundRuns DEF HandleExecute
  <2> QED BY <2>1, <2>2
<1>14. ASSUME HandleConfirm PROVE page' = page /\ Owned' /\ PlaygroundInv'
  <2>1. PICK u : u = [ui EXCEPT !.confirm = FALSE, !.named = NoTool, !.confirmed = @ \cup {ui.loaded}]
    OBVIOUS
  <2>2. /\ DOMAIN u = PlaygroundFields /\ u.server = ui.server /\ u.tool = ui.tool /\ u.loaded = ui.loaded
        /\ u.mode = ui.mode
        /\ u.fields = ui.fields /\ u.json = ui.json /\ u.examples = ui.examples /\ u.kept = ui.kept
        /\ u.result = ui.result
        /\ u.confirmed = ui.confirmed \cup {ui.loaded} /\ u.late = ui.late
    BY Zenon, <1>2, <2>1 DEF PlaygroundFields
  <2>3. PlaySound(u) /\ ui.confirmed \subseteq u.confirmed /\ u.loaded \in u.confirmed
    BY Zenon, <1>2, <2>2 DEF PlaySound
  <2>4. DoRun(FALSE, u)
    BY Zenon, <1>14, <2>1 DEF HandleConfirm
  <2> QED BY Zenon, <1>1, <2>2, <2>3, <2>4, PlaygroundRuns
<1>15. ASSUME NEW compare, Replay(compare) PROVE page' = page /\ Owned' /\ PlaygroundInv'
  <2>1. IsDestructive(ui.loaded) /\ ~ui.late => ui.loaded \in ui.confirmed
    BY Zenon, <1>2, <1>15 DEF Replay, PlaySound
  <2> QED BY Zenon, <1>1, <1>2, <1>15, <2>1, PlaygroundRuns DEF Replay
<1>16. ASSUME SaveExample PROVE page' = page /\ Owned' /\ PlaygroundInv'
  <2>1. PICK example : example = [server |-> ui.server, tool |-> ui.loaded,
                                  args |-> IF CurrentArgs(ui) = Unparsable THEN 0 ELSE CurrentArgs(ui)]
    OBVIOUS
  <2>2. PICK n : n = IF Len(ui.examples) < MaxExamples - 1 THEN Len(ui.examples) ELSE MaxExamples - 1
    OBVIOUS
  <2>3. PICK s : s = <<example>> \o SubSeq(ui.examples, 1, n)
    OBVIOUS
  <2>4. Set([ui EXCEPT !.examples = s]) /\ ui.loaded # NoTool
    BY Zenon, <1>16, <2>1, <2>2, <2>3 DEF SaveExample
  <2>5. (IF CurrentArgs(ui) = Unparsable THEN 0 ELSE CurrentArgs(ui)) \in Typed
    BY Zenon, <1>2 DEF CurrentArgs, PlaySound, Typed
  <2>6. example \in Examples
    BY SMT, <1>2, <2>1, <2>4, <2>5 DEF Examples, PlaySound
  <2>7. ui.examples \in Seq(Examples) /\ Len(ui.examples) \in Nat /\ MaxExamples \in Nat \ {0}
    BY SMT, <1>2, PlaygroundAssumption DEF PlaySound
  <2>8. n \in 0 .. Len(ui.examples) /\ n <= MaxExamples - 1
    BY SMT, <2>2, <2>7
  <2>9. SubSeq(ui.examples, 1, n) \in Seq(Examples) /\ Len(SubSeq(ui.examples, 1, n)) = n
    BY SMT, <2>7, <2>8
  <2>10. s \in Seq(Examples) /\ Len(s) = n + 1
    BY SMT, <2>3, <2>6, <2>8, <2>9
  <2>11. Len(s) <= MaxExamples
    BY SMT, <2>7, <2>8, <2>10
  <2>12. PICK v : v = [ui EXCEPT !.examples = s]
    OBVIOUS
  <2>13. /\ DOMAIN v = PlaygroundFields /\ v.server = ui.server /\ v.tool = ui.tool /\ v.loaded = ui.loaded
         /\ v.mode = ui.mode
         /\ v.fields = ui.fields /\ v.json = ui.json /\ v.examples = s /\ v.kept = ui.kept
         /\ v.result = ui.result
         /\ v.confirmed = ui.confirmed /\ v.late = ui.late
    BY Zenon, <1>2, <2>12 DEF PlaygroundFields
  <2>14. PlaySound(v) /\ ui.confirmed \subseteq v.confirmed
    BY Zenon, <1>2, <2>10, <2>11, <2>13 DEF PlaySound
  <2> QED BY Zenon, <1>1, <2>4, <2>12, <2>13, <2>14, PlaygroundSets
<1>17. ASSUME NEW i, LoadExample(i) PROVE page' = page /\ Owned' /\ PlaygroundInv'
  <2>1. PICK e : e = ui.examples[i]
    OBVIOUS
  <2>2. e.server \in Slugs /\ e.tool \in Tools /\ e.args \in Typed
    <3>1. ui.examples \in Seq(Examples) /\ i \in DOMAIN ui.examples
      BY Zenon, <1>2, <1>17 DEF LoadExample, PlaySound
    <3>2. e \in Examples
      BY SMT, <2>1, <3>1
    <3> QED BY SMT, <3>2 DEF Examples
  <2>3. PICK v : v = [ui EXCEPT !.server = e.server, !.tool = e.tool, !.json = e.args, !.mode = "json",
                      !.kept = e.args]
    OBVIOUS
  <2>4. /\ DOMAIN v = PlaygroundFields /\ v.server = e.server /\ v.tool = e.tool /\ v.loaded = ui.loaded
        /\ v.mode = "json"
        /\ v.fields = ui.fields /\ v.json = e.args /\ v.examples = ui.examples /\ v.kept = e.args
        /\ v.result = ui.result
        /\ v.confirmed = ui.confirmed /\ v.late = ui.late
    BY Zenon, <1>2, <2>3 DEF PlaygroundFields
  <2>5. PlaySound(v)
    BY Zenon, <1>2, <2>2, <2>4 DEF PlaySound
  <2>6. SetPlayground(v)
    BY Zenon, <1>17, <2>1, <2>3 DEF LoadExample
  <2> QED BY Zenon, <1>1, <2>4, <2>5, <2>6, PlaygroundRenders
<1>18. ASSUME NEW c \in flight, RunAnswered(c) PROVE page' = page /\ Owned' /\ PlaygroundInv'
  <2>1. page' = page /\ Owned'
    BY Zenon, <1>18, TakeKeeps DEF RunAnswered
  <2>2. /\ DOMAIN ui' = PlaygroundFields /\ ui'.server = ui.server /\ ui'.tool = ui.tool
        /\ ui'.loaded = ui.loaded /\ ui'.mode = ui.mode
        /\ ui'.fields = ui.fields /\ ui'.json = ui.json /\ ui'.examples = ui.examples /\ ui'.kept = ui.kept
        /\ ui'.result = (IF c.compare THEN ui.result ELSE c.about)
        /\ ui'.confirmed = ui.confirmed
        /\ ui'.late = (ui.late \/ c.about # ui.loaded \/ c.server # ui.server) /\ flight' = flight \ {c}
    BY Zenon, <1>2, <1>18 DEF RunAnswered, Take, PlaygroundFields
  <2>3. ASSUME ~ui'.late, ui'.result # NoTool
        PROVE  ui'.result = ui.loaded /\ (IsDestructive(ui.loaded) => ui.loaded \in ui.confirmed)
    BY Zenon, <1>1, <1>2, <2>2, <2>3 DEF PlaySound, PlaygroundInv
  <2>4. PlaySound(ui')
    BY Zenon, <1>2, <2>2, <2>3 DEF PlaySound
  <2> QED BY Zenon, <1>1, <2>1, <2>2, <2>4 DEF PlaygroundInv
<1>19. ASSUME NEW c \in flight, RunFails(c) PROVE page' = page /\ Owned' /\ PlaygroundInv'
  <2>1. page' = page /\ Owned'
    BY Zenon, <1>19, TakeKeeps DEF RunFails
  <2>2. PlayAlike(ui, ui') /\ flight' = flight \ {c}
    BY Zenon, <1>2, <1>19 DEF RunFails, Take, PlayAlike, PlaygroundFields
  <2>3. PlaySound(ui') /\ ui'.confirmed = ui.confirmed /\ ui'.late = ui.late
    BY Zenon, <1>2, <2>2, AlikeSound DEF PlayAlike
  <2> QED BY Zenon, <1>1, <2>1, <2>2, <2>3 DEF PlaygroundInv
<1> QED BY Zenon, <1>1, <1>4, <1>5, <1>6, <1>7, <1>8, <1>9, <1>11, <1>12, <1>13, <1>14, <1>15, <1>16,
           <1>17, <1>18, <1>19 DEF PlaygroundUser, PlaygroundStep

\* The playground opens on a tool or none, with nothing run.
LEMMA PlaygroundOpens ==
  ASSUME OpenPlayground PROVE page' = "playground" /\ Owned' /\ PlaygroundInv'
<1>1. PICK t \in Tools \cup {NoTool} : Open("playground", [PlaygroundInit EXCEPT !.tool = t])
  BY Zenon DEF OpenPlayground
<1>2. PICK u : u = [PlaygroundInit EXCEPT !.tool = t]
  OBVIOUS
<1>3. page' = "playground" /\ Owned' /\ flight' = {} /\ ui' = u
  BY SMT, <1>1, <1>2, OpensClean DEF Elsewhere
<1>4. /\ DOMAIN u = PlaygroundFields /\ u.server = 1 /\ u.tool = t /\ u.loaded = NoTool /\ u.mode = "form"
      /\ u.fields = 0 /\ u.json = 0 /\ u.examples = <<>> /\ u.kept = NoArgs /\ u.result = NoTool
  BY SMT, <1>2 DEF PlaygroundInit, PlaygroundFields
<1>5. <<>> \in Seq(Examples) /\ Len(<<>>) <= MaxExamples
  BY SMT, PlaygroundAssumption
<1>6. PlaySound(u)
  BY Zenon, <1>4, <1>5 DEF PlaySound, Slugs, Typed
<1> QED BY Zenon, <1>3, <1>6 DEF PlaygroundInv

\* So a destructive tool runs only confirmed, and examples come back as they were stored.
LEMMA PlaygroundShows ==
  ASSUME Owned, page = "playground" => PlaygroundInv PROVE DestructiveIsConfirmed /\ ExamplesComeBack
<1>1. ASSUME NEW c \in InFlight("run") PROVE page = "playground" /\ c \in flight
  BY Zenon, <1>1, Whose DEF InFlight
<1> QED BY Zenon, <1>1
           DEF PlaygroundInv, PlaySound, DestructiveIsConfirmed, ExamplesComeBack, OnPlayground

-----------------------------------------------------------------------------
\* The developer's playground (developer/playground).
DeveloperFields == {"server", "tool", "loaded", "listed", "fields", "running", "result", "runs", "late"}

\* A call is of the tool that was selected when it was sent; the tool that is loaded is the one
\* selected.
DeveloperInv ==
  /\ DOMAIN ui = DeveloperFields
  /\ ui.loaded # NoTool => ui.loaded = ui.tool
  /\ \A c \in flight : c.about = c.selected
  /\ ~ui.late /\ ui.result # NoTool => ui.result = ui.tool

\* Selecting, editing, running and the answers keep the invariant.
LEMMA DeveloperKeeps ==
  ASSUME Owned, page = "developerPlayground" => DeveloperInv, DeveloperUser \/ DeveloperStep
  PROVE  page = "developerPlayground" /\ page' = page /\ Owned' /\ DeveloperInv'
<1>1. page = "developerPlayground" /\ DeveloperInv /\ DOMAIN ui = DeveloperFields
  BY Zenon, Whose
     DEF DeveloperUser, DeveloperStep, ChooseServer, ChooseTool, DeveloperTypes, HandleLoadTool,
         HandleRun, DeveloperListed, CallAnswered, CallFails, OnDeveloper, DeveloperInv
<1>2. ASSUME DeveloperListed \/ (\E x : DeveloperTypes(x)) PROVE page' = page /\ Owned' /\ DeveloperInv'
  <2>1. page' = page /\ Owned'
    BY Zenon, <1>2, SetKeeps DEF DeveloperListed, DeveloperTypes
  <2>2. DOMAIN ui' = DeveloperFields /\ ui'.tool = ui.tool /\ ui'.loaded = ui.loaded
          /\ ui'.result = ui.result /\ ui'.late = ui.late /\ flight' = flight
    BY Zenon, <1>1, <1>2 DEF DeveloperListed, DeveloperTypes, Set, DeveloperFields
  <2> QED BY Zenon, <1>1, <2>1, <2>2 DEF DeveloperInv
<1>3. ASSUME (\E s : ChooseServer(s)) \/ (\E t : ChooseTool(t)) PROVE page' = page /\ Owned' /\ DeveloperInv'
  <2>1. page' = page /\ Owned'
    BY Zenon, <1>3, SetKeeps DEF ChooseServer, ChooseTool
  <2>2. DOMAIN ui' = DeveloperFields /\ ui'.loaded = NoTool /\ ui'.result = NoTool /\ flight' = flight
    BY Zenon, <1>1, <1>3 DEF ChooseServer, ChooseTool, Set, DeveloperFields
  <2> QED BY Zenon, <1>1, <2>1, <2>2 DEF DeveloperInv
<1>4. ASSUME HandleLoadTool PROVE page' = page /\ Owned' /\ DeveloperInv'
  <2>1. page' = page /\ Owned'
    BY Zenon, <1>4, SetKeeps DEF HandleLoadTool
  <2>2. DOMAIN ui' = DeveloperFields /\ ui'.tool = ui.tool /\ ui'.loaded = ui.tool /\ ui'.result = NoTool
          /\ flight' = flight
    BY Zenon, <1>1, <1>4 DEF HandleLoadTool, Set, DeveloperFields
  <2> QED BY Zenon, <1>1, <2>1, <2>2 DEF DeveloperInv
<1>5. ASSUME HandleRun PROVE page' = page /\ Owned' /\ DeveloperInv'
  <2>1. PICK c : c = CallTool(ui)
    OBVIOUS
  <2>2. DOMAIN c = {"do", "about", "here", "server", "selected"} /\ c.do = "callTool"
          /\ c.about = ActiveTool(ui) /\ c.selected = ui.tool
    BY SMT, <2>1 DEF CallTool
  <2>3. Send(c, [ui EXCEPT !.running = TRUE, !.result = NoTool, !.runs = @ + 1]) /\ ActiveTool(ui) # NoTool
    BY Zenon, <1>5, <2>1 DEF HandleRun
  <2>4. ActiveTool(ui) = ui.tool
    BY Zenon, <1>1, <2>3 DEF ActiveTool, DeveloperInv
  <2>5. page' = page /\ Owned'
    BY SMT, <1>1, <2>2, <2>3, SendKeeps DEF Belongs
  <2>6. DOMAIN ui' = DeveloperFields /\ ui'.tool = ui.tool /\ ui'.loaded = ui.loaded /\ ui'.result = NoTool
          /\ flight' = flight \cup {c}
    BY Zenon, <1>1, <2>3 DEF Send, DeveloperFields
  <2> QED BY Zenon, <1>1, <2>2, <2>4, <2>5, <2>6 DEF DeveloperInv
<1>6. ASSUME NEW c \in flight, CallAnswered(c) \/ CallFails(c) PROVE page' = page /\ Owned' /\ DeveloperInv'
  <2>1. page' = page /\ Owned'
    BY Zenon, <1>6, TakeKeeps DEF CallAnswered, CallFails
  <2>2. /\ DOMAIN ui' = DeveloperFields /\ ui'.tool = ui.tool /\ ui'.loaded = ui.loaded
        /\ flight' = flight \ {c}
        /\ \/ ui'.result = c.about /\ ui'.late = (ui.late \/ c.about # ui.tool \/ c.server # ui.server)
           \/ ui'.result = ui.result /\ ui'.late = ui.late
    BY Zenon, <1>1, <1>6 DEF CallAnswered, CallFails, Take, DeveloperFields
  <2> QED BY Zenon, <1>1, <2>1, <2>2 DEF DeveloperInv
<1> QED BY Zenon, <1>1, <1>2, <1>3, <1>4, <1>5, <1>6 DEF DeveloperUser, DeveloperStep

\* The page opens on a tool or none.
LEMMA DeveloperOpens ==
  ASSUME OpenDeveloper PROVE page' = "developerPlayground" /\ Owned' /\ DeveloperInv'
<1>1. PICK t : Open("developerPlayground", [DeveloperInit EXCEPT !.tool = t])
  BY Zenon DEF OpenDeveloper
<1>2. PICK u : u = [DeveloperInit EXCEPT !.tool = t]
  OBVIOUS
<1>3. page' = "developerPlayground" /\ Owned' /\ flight' = {} /\ ui' = u
  BY SMT, <1>1, <1>2, OpensClean DEF Elsewhere
<1>4. DOMAIN u = DeveloperFields /\ u.loaded = NoTool /\ u.result = NoTool
  BY SMT, <1>2 DEF DeveloperInit, DeveloperFields
<1> QED BY Zenon, <1>3, <1>4 DEF DeveloperInv

\* So what runs is the tool that is selected.
LEMMA DeveloperShows ==
  ASSUME Owned, page = "developerPlayground" => DeveloperInv PROVE RunsSelectedTool
<1>1. ASSUME NEW c \in InFlight("callTool") PROVE page = "developerPlayground" /\ c \in flight
  BY Zenon, <1>1, Whose DEF InFlight
<1> QED BY Zenon, <1>1 DEF DeveloperInv, RunsSelectedTool, OnDeveloper

-----------------------------------------------------------------------------
\* What onboarding collects.
ObFields == {"role", "org", "server", "policy", "key"}

\* The onboarding page (onboarding).
OnboardingFields == {"step", "ob", "stored", "submits", "visits", "made", "last", "overtaken", "ahead"}

\* The page and what is stored have the key that was made last, unless an answer overtook another;
\* and what is stored is what is shown, unless the page is ahead of it.
OnboardingSound(u) ==
  /\ DOMAIN u = OnboardingFields /\ u.stored = [step |-> u.stored.step, ob |-> u.stored.ob]
  /\ DOMAIN u.ob = ObFields /\ DOMAIN u.stored.ob = ObFields
  /\ ~u.overtaken => u.ob.key = u.last /\ u.stored.ob.key = u.last
  /\ ~u.ahead => u.stored.step = u.step /\ u.stored.ob = u.ob

\* The handlers in flight have closed over a state of the same kind.
OnboardingInv ==
  /\ OnboardingSound(ui)
  /\ \A c \in flight : {"do", "here", "ob"} \subseteq DOMAIN c /\ DOMAIN c.ob = ObFields

\* goTo stores what it shows.
LEMMA GoSound ==
  ASSUME NEW u, DOMAIN u = OnboardingFields, NEW step, NEW ob, DOMAIN ob = ObFields,
         ~u.overtaken => ob.key = u.last
  PROVE  OnboardingSound(GoTo(u, step, ob)) /\ GoTo(u, step, ob).overtaken = u.overtaken
<1>1. PICK w : w = GoTo(u, step, ob)
  OBVIOUS
<1>2. PICK s : s = [step |-> step, ob |-> ob]
  OBVIOUS
<1>3. s = [step |-> s.step, ob |-> s.ob] /\ s.step = step /\ s.ob = ob
  BY Zenon, <1>2
<1>4. /\ DOMAIN w = OnboardingFields /\ w.step = step /\ w.ob = ob /\ w.stored = s /\ w.last = u.last
      /\ w.overtaken = u.overtaken /\ w.ahead = FALSE
  BY Zenon, <1>1, <1>2 DEF GoTo, OnboardingFields
<1>5. OnboardingSound(w)
  BY Zenon, <1>3, <1>4 DEF OnboardingSound
<1> QED BY Zenon, <1>1, <1>4, <1>5

\* A reload shows what is stored.
LEMMA RestoreSound ==
  ASSUME NEW u, OnboardingSound(u) PROVE OnboardingSound(Restore(u))
<1>1. PICK w : w = Restore(u)
  OBVIOUS
<1>2. /\ DOMAIN w = OnboardingFields /\ w.step = u.stored.step /\ w.ob = u.stored.ob /\ w.stored = u.stored
      /\ w.last = u.last /\ w.overtaken = u.overtaken /\ w.ahead = FALSE
  BY Zenon, <1>1 DEF Restore, OnboardingSound, OnboardingFields
<1>3. OnboardingSound(w)
  BY Zenon, <1>2 DEF OnboardingSound
<1> QED BY Zenon, <1>1, <1>3

\* A step that goes on or back with the key as it is keeps the invariant.
LEMMA OnboardingGoes ==
  ASSUME Owned, OnboardingInv, NEW step, NEW ob, DOMAIN ob = ObFields, ob.key = ui.ob.key,
         Set(GoTo(ui, step, ob))
  PROVE  page' = page /\ Owned' /\ OnboardingInv'
<1>1. PICK u : u = GoTo(ui, step, ob)
  OBVIOUS
<1>a. DOMAIN ui = OnboardingFields /\ (~ui.overtaken => ob.key = ui.last)
  BY Zenon DEF OnboardingInv, OnboardingSound
<1>2. Set(u) /\ OnboardingSound(u)
  BY Zenon, <1>1, <1>a, GoSound
<1>3. page' = page /\ Owned'
  BY Zenon, <1>2, SetKeeps
<1>4. ui' = u /\ flight' = flight
  BY Zenon, <1>2 DEF Set
<1> QED BY Zenon, <1>2, <1>3, <1>4 DEF OnboardingInv

\* So does an answer that is applied soundly.
LEMMA OnboardingTakes ==
  ASSUME Owned, OnboardingInv, NEW c \in flight, NEW u, OnboardingSound(u), Take(c, u)
  PROVE  page' = page /\ Owned' /\ OnboardingInv'
<1>1. page' = page /\ Owned'
  BY Zenon, TakeKeeps
<1>2. ui' = u /\ flight' = flight \ {c}
  BY Zenon DEF Take
<1> QED BY Zenon, <1>1, <1>2 DEF OnboardingInv

\* An answer that comes after the state it closed over was replaced is noted.
LEMMA OvertakenSound ==
  ASSUME OnboardingInv, NEW c \in flight
  PROVE  LET u == Overtaken(c)
         IN  /\ DOMAIN u = OnboardingFields /\ u.step = ui.step /\ u.ob = ui.ob /\ u.stored = ui.stored
             /\ u.last = ui.last /\ u.ahead = ui.ahead
             /\ u.overtaken = (ui.overtaken \/ c.ob.key # ui.ob.key \/ ~c.here)
  BY Zenon DEF Overtaken, OnboardingInv, OnboardingSound, OnboardingFields

\* What a handler does with its answer keeps the state sound: on the mount that sent the call the
\* new state applies, and otherwise only what is stored is replaced.
LEMMA AppliedSound ==
  ASSUME OnboardingInv, NEW c \in flight, NEW u, OnboardingSound(u) PROVE OnboardingSound(Applied(c, u))
<1>1. PICK w : w = [ui EXCEPT !.stored = u.stored, !.ahead = TRUE, !.overtaken = TRUE]
  OBVIOUS
<1>2. DOMAIN w = OnboardingFields /\ w.ob = ui.ob /\ w.stored = u.stored /\ w.overtaken = TRUE
        /\ w.ahead = TRUE
  BY Zenon, <1>1 DEF OnboardingInv, OnboardingSound, OnboardingFields
<1>3. OnboardingSound(w)
  BY Zenon, <1>2 DEF OnboardingInv, OnboardingSound
<1> QED BY Zenon, <1>1, <1>3 DEF Applied

\* The steps, the forms, a reload, leaving and returning and the answers keep the invariant.
LEMMA OnboardingKeeps ==
  ASSUME Owned, page = "onboarding" => OnboardingInv, OnboardingUser \/ OnboardingStep
  PROVE  page = "onboarding" /\ page' \in {"onboarding", Elsewhere} /\ Owned'
    /\ (page' = "onboarding" => OnboardingInv')
<1>1. page = "onboarding" /\ OnboardingInv
  <2>1. ASSUME OnboardingUser PROVE page = "onboarding"
    BY Zenon, <2>1
       DEF OnboardingUser, ChooseRole, GetStarted, SubmitOrg, GoBack, UseExistingServer, SkipPolicy,
           ToDone, SubmitForm, Reload, LeaveAndReturn, FinishOnboarding, At, OnOnboarding
  <2>2. ASSUME NEW c \in flight, c.do \in {"createServer", "createPolicy", "createApiKey"}
        PROVE page = "onboarding"
    BY Zenon, <2>2, Whose
  <2>3. {SentBy[s] : s \in DOMAIN SentBy} = {"createServer", "createPolicy", "createApiKey"}
    BY SMT DEF SentBy
  <2> QED BY Zenon, <2>1, <2>2, <2>3
             DEF OnboardingStep, ServerMade, FirstPolicyMade, FirstKeyMade, FormFails
<1>2. /\ OnboardingSound(ui) /\ DOMAIN ui = OnboardingFields /\ DOMAIN ui.ob = ObFields
      /\ DOMAIN ui.stored.ob = ObFields
  BY Zenon, <1>1 DEF OnboardingInv, OnboardingSound
<1>3. ASSUME ChooseRole PROVE page' = page /\ Owned' /\ OnboardingInv'
  <2>1. Set([ui EXCEPT !.ob.role = TRUE, !.ahead = TRUE])
    BY Zenon, <1>3 DEF ChooseRole
  <2>2. page' = page /\ Owned'
    BY Zenon, <2>1, SetKeeps
  <2>3. /\ DOMAIN ui' = OnboardingFields /\ ui'.ob = [ui.ob EXCEPT !.role = TRUE] /\ ui'.stored = ui.stored
        /\ ui'.last = ui.last /\ ui'.overtaken = ui.overtaken /\ ui'.ahead = TRUE /\ flight' = flight
    BY Zenon, <1>2, <2>1 DEF Set, OnboardingFields
  <2>4. DOMAIN ui'.ob = ObFields /\ ui'.ob.key = ui.ob.key
    BY Zenon, <1>2, <2>3 DEF ObFields
  <2> QED BY Zenon, <1>1, <1>2, <2>2, <2>3, <2>4 DEF OnboardingInv, OnboardingSound
<1>4. ASSUME GetStarted \/ GoBack \/ ToDone PROVE page' = page /\ Owned' /\ OnboardingInv'
  BY Zenon, <1>1, <1>2, <1>4, OnboardingGoes DEF GetStarted, GoBack, ToDone
<1>5. ASSUME SubmitOrg \/ UseExistingServer \/ SkipPolicy PROVE page' = page /\ Owned' /\ OnboardingInv'
  <2>1. PICK o : /\ o \in {[ui.ob EXCEPT !.org = TRUE], [ui.ob EXCEPT !.server = TRUE],
                           [ui.ob EXCEPT !.policy = FALSE]}
                 /\ \E step : Set(GoTo(ui, step, o))
    BY Zenon, <1>5 DEF SubmitOrg, UseExistingServer, SkipPolicy
  <2>2. DOMAIN o = ObFields /\ o.key = ui.ob.key
    BY Zenon, <1>2, <2>1 DEF ObFields
  <2> QED BY Zenon, <1>1, <2>1, <2>2, OnboardingGoes
<1>6. ASSUME SubmitForm PROVE page' = page /\ Owned' /\ OnboardingInv'
  <2>1. PICK c : c = [do |-> SentBy[ui.step], about |-> ui.submits, here |-> TRUE, ob |-> ui.ob]
    OBVIOUS
  <2>2. DOMAIN c = {"do", "about", "here", "ob"} /\ c.do = SentBy[ui.step] /\ c.ob = ui.ob
    BY SMT, <2>1
  <2>3. Send(c, [ui EXCEPT !.submits = @ + 1]) /\ ui.step \in DOMAIN SentBy
    BY Zenon, <1>6, <2>1 DEF SubmitForm
  <2>4. c.do \in {"createServer", "createPolicy", "createApiKey"}
    BY SMT, <2>2, <2>3 DEF SentBy
  <2>5. page' = page /\ Owned'
    BY SMT, <1>1, <2>2, <2>3, <2>4, SendKeeps DEF Belongs
  <2>6. /\ DOMAIN ui' = OnboardingFields /\ ui'.step = ui.step /\ ui'.ob = ui.ob /\ ui'.stored = ui.stored
        /\ ui'.last = ui.last
        /\ ui'.overtaken = ui.overtaken /\ ui'.ahead = ui.ahead /\ flight' = flight \cup {c}
    BY Zenon, <1>2, <2>3 DEF Send, OnboardingFields
  <2> QED BY Zenon, <1>1, <1>2, <2>2, <2>5, <2>6 DEF OnboardingInv, OnboardingSound
<1>7. ASSUME Reload PROVE page' = page /\ Owned' /\ OnboardingInv'
  <2>1. ui' = Restore(ui) /\ flight' = {} /\ page' = page
    BY Zenon, <1>7 DEF Reload
  <2> QED BY Zenon, <1>2, <2>1, RestoreSound DEF Owned, OnboardingInv
<1>8. ASSUME LeaveAndReturn PROVE page' = page /\ Owned' /\ OnboardingInv'
  <2>1. ui' = Restore(ui) /\ flight' = {[c EXCEPT !.here = FALSE] : c \in flight} /\ page' = page
    BY Zenon, <1>8 DEF LeaveAndReturn
  <2>2. ASSUME NEW d \in flight'
        PROVE {"do", "here", "ob"} \subseteq DOMAIN d /\ DOMAIN d.ob = ObFields /\ Belongs(d.do, page)
    <3>1. PICK c \in flight : d = [c EXCEPT !.here = FALSE]
      BY Zenon, <2>1, <2>2
    <3>2. {"do", "here", "ob"} \subseteq DOMAIN c /\ DOMAIN c.ob = ObFields
      BY Zenon, <1>1 DEF OnboardingInv
    <3>3. DOMAIN d = DOMAIN c /\ d.do = c.do /\ d.ob = c.ob
      BY Zenon, <3>1, <3>2
    <3>4. Belongs(c.do, page)
      BY SMT, <1>1 DEF Owned, Away, Elsewhere
    <3> QED BY Zenon, <3>2, <3>3, <3>4
  <2>3. Owned'
    BY SMT, <2>1, <2>2 DEF Owned, Belongs
  <2> QED BY Zenon, <1>2, <2>1, <2>2, <2>3, RestoreSound DEF OnboardingInv
<1>9. ASSUME FinishOnboarding PROVE page' = Elsewhere /\ Owned'
  BY Zenon, <1>9, OpenKeeps DEF FinishOnboarding
<1>10. ASSUME NEW c \in flight, NEW step, NEW ob,
              ob \in {[c.ob EXCEPT !.server = TRUE], [c.ob EXCEPT !.policy = TRUE]},
              Take(c, Applied(c, GoTo(Overtaken(c), step, ob)))
       PROVE  page' = page /\ Owned' /\ OnboardingInv'
  <2>1. DOMAIN c.ob = ObFields
    BY Zenon, <1>1 DEF OnboardingInv
  <2>2. DOMAIN ob = ObFields /\ ob.key = c.ob.key
    BY Zenon, <1>10, <2>1 DEF ObFields
  <2>3. PICK v : v = Overtaken(c)
    OBVIOUS
  <2>4. DOMAIN v = OnboardingFields /\ v.last = ui.last
          /\ v.overtaken = (ui.overtaken \/ c.ob.key # ui.ob.key \/ ~c.here)
    BY Zenon, <1>1, <2>3, OvertakenSound
  <2>5. ~v.overtaken => ob.key = v.last
    BY Zenon, <1>2, <2>2, <2>4 DEF OnboardingSound
  <2>6. OnboardingSound(GoTo(v, step, ob))
    BY Zenon, <2>2, <2>4, <2>5, GoSound
  <2>7. OnboardingSound(Applied(c, GoTo(v, step, ob)))
    BY Zenon, <1>1, <2>6, AppliedSound
  <2> QED BY Zenon, <1>1, <1>10, <2>3, <2>7, OnboardingTakes
<1>11. ASSUME NEW c \in flight, ServerMade(c) \/ FirstPolicyMade(c)
       PROVE page' = page /\ Owned' /\ OnboardingInv'
  BY Zenon, <1>10, <1>11 DEF ServerMade, FirstPolicyMade
<1>12. ASSUME NEW c \in flight, FirstKeyMade(c) PROVE page' = page /\ Owned' /\ OnboardingInv'
  <2>1. PICK key : key = ui.made + 1
    OBVIOUS
  <2>2. PICK ob : ob = [c.ob EXCEPT !.key = key]
    OBVIOUS
  <2>3. PICK s : s = [step |-> "apikey", ob |-> ob]
    OBVIOUS
  <2>4. PICK v : v = Overtaken(c)
    OBVIOUS
  <2>5. PICK u : u = [v EXCEPT !.made = key, !.last = key, !.stored = s]
    OBVIOUS
  <2>6. Take(c, IF c.here THEN [u EXCEPT !.ob = ob, !.ahead = @ \/ ui.step # "apikey"]
                          ELSE [u EXCEPT !.ahead = TRUE])
    BY Zenon, <1>12, <2>1, <2>2, <2>3, <2>4, <2>5 DEF FirstKeyMade
  <2>7. DOMAIN c.ob = ObFields
    BY Zenon, <1>1 DEF OnboardingInv
  <2>8. DOMAIN ob = ObFields /\ ob.key = key
    BY Zenon, <2>2, <2>7 DEF ObFields
  <2>9. s = [step |-> s.step, ob |-> s.ob] /\ s.step = "apikey" /\ s.ob = ob
    BY Zenon, <2>3
  <2>10. DOMAIN v = OnboardingFields /\ v.step = ui.step /\ v.ob = ui.ob /\ v.ahead = ui.ahead
           /\ v.overtaken = (ui.overtaken \/ c.ob.key # ui.ob.key \/ ~c.here)
    BY Zenon, <1>1, <2>4, OvertakenSound
  <2>11. DOMAIN u = OnboardingFields /\ u.step = ui.step /\ u.ob = ui.ob /\ u.ahead = ui.ahead
           /\ u.last = key /\ u.stored = s /\ u.overtaken = v.overtaken
    BY Zenon, <2>5, <2>10 DEF OnboardingFields
  <2>12. CASE c.here
    <3>1. PICK w : w = [u EXCEPT !.ob = ob, !.ahead = @ \/ ui.step # "apikey"]
      OBVIOUS
    <3>2. /\ DOMAIN w = OnboardingFields /\ w.step = ui.step /\ w.ob = ob
          /\ w.ahead = (ui.ahead \/ ui.step # "apikey") /\ w.last = key
          /\ w.stored = s /\ w.overtaken = v.overtaken
      BY Zenon, <2>11, <3>1 DEF OnboardingFields
    <3>3. OnboardingSound(w)
      BY Zenon, <2>8, <2>9, <3>2 DEF OnboardingSound
    <3> QED BY Zenon, <1>1, <2>6, <2>12, <3>1, <3>3, OnboardingTakes
  <2>13. CASE ~c.here
    <3>1. PICK w : w = [u EXCEPT !.ahead = TRUE]
      OBVIOUS
    <3>2. /\ DOMAIN w = OnboardingFields /\ w.step = ui.step /\ w.ob = ui.ob /\ w.ahead = TRUE /\ w.last = key
          /\ w.stored = s /\ w.overtaken = v.overtaken
      BY Zenon, <2>11, <3>1 DEF OnboardingFields
    <3>3. OnboardingSound(w)
      BY Zenon, <1>2, <2>8, <2>9, <2>10, <2>13, <3>2 DEF OnboardingSound
    <3> QED BY Zenon, <1>1, <2>6, <2>13, <3>1, <3>3, OnboardingTakes
  <2> QED BY <2>12, <2>13
<1>13. ASSUME NEW c \in flight, FormFails(c) PROVE page' = page /\ Owned' /\ OnboardingInv'
  BY Zenon, <1>1, <1>2, <1>13, OnboardingTakes DEF FormFails
<1>14. ASSUME OnboardingStep PROVE page' = page /\ Owned' /\ OnboardingInv'
  BY Zenon, <1>11, <1>12, <1>13, <1>14 DEF OnboardingStep
<1>15. ASSUME OnboardingUser, ~FinishOnboarding PROVE page' = page /\ Owned' /\ OnboardingInv'
  BY Zenon, <1>3, <1>4, <1>5, <1>6, <1>7, <1>8, <1>15 DEF OnboardingUser
<1>16. CASE FinishOnboarding
  BY Zenon, <1>1, <1>9, <1>16 DEF Elsewhere
<1> QED BY Zenon, <1>1, <1>14, <1>15, <1>16

\* Onboarding opens with nothing collected, as nothing is stored.
LEMMA OnboardingOpens ==
  ASSUME OpenOnboarding PROVE page' = "onboarding" /\ Owned' /\ OnboardingInv'
<1>1. page' = "onboarding" /\ ui' = OnboardingInit /\ flight' = {} /\ Owned'
  BY SMT, OpensClean DEF OpenOnboarding, Elsewhere
<1>2. OnboardingSound(OnboardingInit)
  <2>1. /\ DOMAIN OnboardingInit = OnboardingFields /\ OnboardingInit.ob = InitialState
        /\ OnboardingInit.stored = Blank
        /\ OnboardingInit.step = "welcome" /\ OnboardingInit.last = NoKey
    BY SMT DEF OnboardingInit, OnboardingFields
  <2>2. Blank = [step |-> Blank.step, ob |-> Blank.ob] /\ Blank.step = "welcome" /\ Blank.ob = InitialState
    BY Zenon DEF Blank
  <2>3. DOMAIN InitialState = ObFields /\ InitialState.key = NoKey
    BY SMT DEF InitialState, ObFields
  <2> QED BY Zenon, <2>1, <2>2, <2>3 DEF OnboardingSound
<1> QED BY Zenon, <1>1, <1>2 DEF OnboardingInv

\* So the key is kept, and a reload resumes where the user was.
LEMMA OnboardingShows ==
  ASSUME page = "onboarding" => OnboardingInv PROVE KeyIsKept /\ RefreshResumes
<1>1. ASSUME OnOnboarding PROVE OnboardingSound(ui)
  BY Zenon, <1>1 DEF OnboardingInv, OnOnboarding
<1> QED BY Zenon, <1>1 DEF OnboardingSound, KeyIsKept, RefreshResumes

-----------------------------------------------------------------------------
\* The limits of plans (PlanLimitsTable).
LimitsFields == {"limits", "editing", "editValue", "wanted", "typed"}

\* The limits are those that the user saved, and the field has what they typed.
LimitsInv ==
  /\ DOMAIN ui = LimitsFields
  /\ ui.limits = ui.wanted
  /\ ui.editing # 0 => ui.editValue = ui.typed

\* Editing, saving and cancelling keep the invariant.
LEMMA LimitsKeep ==
  ASSUME Owned, page = "limits" => LimitsInv, LimitsUser
  PROVE  page = "limits" /\ page' = page /\ Owned' /\ LimitsInv'
<1>1. page = "limits" /\ LimitsInv /\ DOMAIN ui = LimitsFields
  BY Zenon DEF LimitsUser, ClickEdit, TypeLimit, SaveEdit, CancelEdit, OnLimits, LimitsInv
<1>2. page' = page /\ Owned'
  BY Zenon, SetKeeps DEF LimitsUser, ClickEdit, TypeLimit, SaveEdit, CancelEdit
<1>3. ASSUME NEW r, ClickEdit(r) PROVE LimitsInv'
  BY Zenon, <1>1, <1>3 DEF ClickEdit, StartEdit, Set, LimitsFields, LimitsInv
<1>4. ASSUME NEW v, TypeLimit(v) PROVE LimitsInv'
  BY Zenon, <1>1, <1>4 DEF TypeLimit, Set, LimitsFields, LimitsInv
<1>5. ASSUME SaveEdit PROVE LimitsInv'
  BY Zenon, <1>1, <1>5 DEF SaveEdit, Set, LimitsFields, LimitsInv
<1>6. ASSUME CancelEdit PROVE LimitsInv'
  BY Zenon, <1>1, <1>6 DEF CancelEdit, Set, LimitsFields, LimitsInv
<1> QED BY Zenon, <1>1, <1>2, <1>3, <1>4, <1>5, <1>6 DEF LimitsUser

\* The table opens on the limits as they are.
LEMMA LimitsOpen ==
  ASSUME OpenLimits PROVE page' = "limits" /\ Owned' /\ LimitsInv'
<1>1. page' = "limits" /\ ui' = LimitsInit /\ Owned'
  BY SMT, OpensClean DEF OpenLimits, Elsewhere
<1> QED BY SMT, <1>1 DEF LimitsInv, LimitsInit, LimitsFields

\* So the limits are as saved.
LEMMA LimitsShow == ASSUME page = "limits" => LimitsInv PROVE LimitsAreAsSaved
  BY Zenon DEF LimitsInv, LimitsAreAsSaved, OnLimits

-----------------------------------------------------------------------------
\* Sign-up (sign-up).
SignUpFields == {"flow", "orgName", "inviteCode", "terms", "loading", "sent"}

\* A registration has what its flow needs and no blank text.
Fitting(r) ==
  /\ r.orgName # Null => r.flow \in {"create", "join"}
  /\ r.inviteCode # Null => r.flow = "invitation"
  /\ {r.orgName, r.inviteCode} \cap {"", " "} = {}

\* All registrations sent are such.
SignUpInv == DOMAIN ui = SignUpFields /\ \A r \in ui.sent : Fitting(r)

\* Changing the flow and the fields, submitting and a failure keep the invariant.
LEMMA SignUpKeeps ==
  ASSUME Owned, page = "signUp" => SignUpInv, SignUpUser \/ SignUpFails
  PROVE  page = "signUp" /\ page' = page /\ Owned' /\ SignUpInv'
<1>1. page = "signUp" /\ SignUpInv /\ DOMAIN ui = SignUpFields
  BY Zenon DEF SignUpUser, SignUpFails, SetFlow, SetOrgName, SetInviteCode, SetTerms, SubmitSignUp,
               OnSignUp, SignUpInv
<1>2. ASSUME NEW u, Set(u), DOMAIN u = SignUpFields, u.sent = ui.sent
      PROVE page' = page /\ Owned' /\ SignUpInv'
  <2>1. page' = page /\ Owned'
    BY Zenon, <1>2, SetKeeps
  <2> QED BY Zenon, <1>1, <1>2, <2>1 DEF Set, SignUpInv
<1>3. ASSUME SetFlow PROVE page' = page /\ Owned' /\ SignUpInv'
  <2>1. PICK f : Set([ui EXCEPT !.flow = f])
    BY Zenon, <1>3 DEF SetFlow
  <2>2. DOMAIN [ui EXCEPT !.flow = f] = SignUpFields /\ [ui EXCEPT !.flow = f].sent = ui.sent
    BY Zenon, <1>1 DEF SignUpFields
  <2> QED BY Zenon, <1>2, <2>1, <2>2
<1>4. ASSUME SetOrgName PROVE page' = page /\ Owned' /\ SignUpInv'
  <2>1. PICK t : Set([ui EXCEPT !.orgName = t])
    BY Zenon, <1>4 DEF SetOrgName
  <2>2. DOMAIN [ui EXCEPT !.orgName = t] = SignUpFields /\ [ui EXCEPT !.orgName = t].sent = ui.sent
    BY Zenon, <1>1 DEF SignUpFields
  <2> QED BY Zenon, <1>2, <2>1, <2>2
<1>5. ASSUME SetInviteCode PROVE page' = page /\ Owned' /\ SignUpInv'
  <2>1. PICK t : Set([ui EXCEPT !.inviteCode = t])
    BY Zenon, <1>5 DEF SetInviteCode
  <2>2. DOMAIN [ui EXCEPT !.inviteCode = t] = SignUpFields /\ [ui EXCEPT !.inviteCode = t].sent = ui.sent
    BY Zenon, <1>1 DEF SignUpFields
  <2> QED BY Zenon, <1>2, <2>1, <2>2
<1>6. ASSUME SetTerms PROVE page' = page /\ Owned' /\ SignUpInv'
  <2>1. DOMAIN [ui EXCEPT !.terms = ~@] = SignUpFields /\ [ui EXCEPT !.terms = ~@].sent = ui.sent
    BY Zenon, <1>1 DEF SignUpFields
  <2> QED BY Zenon, <1>2, <1>6, <2>1 DEF SetTerms
<1>7. ASSUME SubmitSignUp PROVE page' = page /\ Owned' /\ SignUpInv'
  <2>1. PICK c : c = Call("signUp", ui.flow)
    OBVIOUS
  <2>2. DOMAIN c = {"do", "about", "here"} /\ c.do = "signUp"
    BY SMT, <2>1 DEF Call
  <2>3. Send(c, [ui EXCEPT !.loading = TRUE, !.sent = @ \cup {Registration(ui)}])
    BY Zenon, <1>7, <2>1 DEF SubmitSignUp
  <2>4. page' = page /\ Owned'
    BY SMT, <1>1, <2>2, <2>3, SendKeeps DEF Belongs
  <2>5. DOMAIN ui' = SignUpFields /\ ui'.sent = ui.sent \cup {Registration(ui)}
    BY Zenon, <1>1, <2>3 DEF Send, SignUpFields
  <2>6. PICK r : r = Registration(ui)
    OBVIOUS
  <2>7. /\ r.flow = ui.flow
        /\ r.orgName = IF ui.flow \in {"create", "join"} THEN Trimmed(ui.orgName) ELSE Null
        /\ r.inviteCode = IF ui.flow = "invitation" THEN Trimmed(ui.inviteCode) ELSE Null
    BY Zenon, <2>6 DEF Registration
  <2>8. r.orgName \in {"x", Null} /\ r.inviteCode \in {"x", Null}
    BY Zenon, <2>7 DEF Trimmed
  <2>9. {r.orgName, r.inviteCode} \cap {"", " "} = {}
    BY SMT, <2>8 DEF Null
  <2>10. Fitting(r)
    BY Zenon, <2>7, <2>9 DEF Fitting
  <2> QED BY Zenon, <1>1, <2>4, <2>5, <2>6, <2>10 DEF SignUpInv
<1>8. ASSUME SignUpFails PROVE page' = page /\ Owned' /\ SignUpInv'
  <2>1. PICK c : Take(c, [ui EXCEPT !.loading = FALSE])
    BY Zenon, <1>8 DEF SignUpFails
  <2>2. page' = page /\ Owned'
    BY Zenon, <2>1, TakeKeeps
  <2>3. DOMAIN ui' = SignUpFields /\ ui'.sent = ui.sent
    BY Zenon, <1>1, <2>1 DEF Take, SignUpFields
  <2> QED BY Zenon, <1>1, <2>2, <2>3 DEF SignUpInv
<1> QED BY Zenon, <1>1, <1>3, <1>4, <1>5, <1>6, <1>7, <1>8 DEF SignUpUser

\* The form opens with nothing sent.
LEMMA SignUpOpens ==
  ASSUME OpenSignUp PROVE page' = "signUp" /\ Owned' /\ SignUpInv'
<1>1. page' = "signUp" /\ ui' = SignUpInit /\ Owned'
  BY SMT, OpensClean DEF OpenSignUp, Elsewhere
<1>2. DOMAIN SignUpInit = SignUpFields /\ SignUpInit.sent = {}
  BY SMT DEF SignUpInit, SignUpFields
<1> QED BY Zenon, <1>1, <1>2 DEF SignUpInv

\* So what is sent fits the flow.
LEMMA SignUpShows == ASSUME page = "signUp" => SignUpInv PROVE RegistrationFitsFlow
  BY Zenon DEF SignUpInv, Fitting, RegistrationFitsFlow, OnSignUp

\* The password reset (reset-password).
ResetFields == {"step", "newPw", "confirmPw", "mismatch"}

\* Success is reached only with one strong password typed twice.
ResetInv ==
  /\ DOMAIN ui = ResetFields
  /\ ui.step = "success" => ui.newPw = ui.confirmPw /\ Score(ui.newPw) >= 2

\* The steps of the reset and typing keep the invariant.
LEMMA ResetKeeps ==
  ASSUME Owned, page = "reset" => ResetInv, ResetUser
  PROVE  page = "reset" /\ page' = page /\ Owned' /\ ResetInv'
<1>1. page = "reset" /\ ResetInv /\ DOMAIN ui = ResetFields
  BY Zenon DEF ResetUser, RequestReset, TryAnother, OpenLink, ResetStep, TypeNewPw, TypeConfirmPw,
               SubmitReset, OnReset, ResetInv
<1>2. page' = page /\ Owned'
  BY Zenon, SetKeeps
     DEF ResetUser, RequestReset, TryAnother, OpenLink, ResetStep, TypeNewPw, TypeConfirmPw, SubmitReset
<1>3. ASSUME NEW from, NEW to, to # "success", ResetStep(from, to) PROVE ResetInv'
  BY Zenon, <1>1, <1>3 DEF ResetStep, Set, ResetFields, ResetInv
<1>4. ASSUME TypeNewPw \/ TypeConfirmPw PROVE ResetInv'
  <2>1. DOMAIN ui' = ResetFields /\ ui'.step = "reset"
    BY Zenon, <1>1, <1>4 DEF TypeNewPw, TypeConfirmPw, Set, ResetFields
  <2> QED BY Zenon, <2>1 DEF ResetInv
<1>5. ASSUME SubmitReset PROVE ResetInv'
  <2>1. ui' = Submitted(ui) /\ ui.step = "reset" /\ Score(ui.newPw) >= 2
    BY Zenon, <1>5 DEF SubmitReset, Set
  <2>2. CASE ui.newPw # ui.confirmPw
    <3>1. DOMAIN ui' = ResetFields /\ ui'.step = "reset"
      BY Zenon, <1>1, <2>1, <2>2 DEF Submitted, ResetFields
    <3> QED BY Zenon, <3>1 DEF ResetInv
  <2>3. CASE ui.newPw = ui.confirmPw
    <3>1. DOMAIN ui' = ResetFields /\ ui'.newPw = ui.newPw /\ ui'.confirmPw = ui.confirmPw
      BY Zenon, <1>1, <2>1, <2>3 DEF Submitted, ResetFields
    <3> QED BY Zenon, <2>1, <2>3, <3>1 DEF ResetInv, Score
  <2> QED BY <2>2, <2>3
<1> QED BY Zenon, <1>1, <1>2, <1>3, <1>4, <1>5 DEF ResetUser, RequestReset, TryAnother, OpenLink

\* The page opens with a request to make.
LEMMA ResetOpens ==
  ASSUME OpenReset PROVE page' = "reset" /\ Owned' /\ ResetInv'
<1>1. page' = "reset" /\ ui' = ResetInit /\ Owned'
  BY SMT, OpensClean DEF OpenReset, Elsewhere
<1>2. DOMAIN ResetInit = ResetFields /\ ResetInit.step = "request"
  BY SMT DEF ResetInit, ResetFields
<1> QED BY Zenon, <1>1, <1>2 DEF ResetInv

\* So a password that is reset was agreed on.
LEMMA ResetShows == ASSUME page = "reset" => ResetInv PROVE ResetIsAgreed
  BY Zenon DEF ResetInv, ResetIsAgreed, OnReset

\* Setting up a second factor (auth/mfa).
MfaFields == {"step", "showKey", "code", "codeError", "copied", "timers", "downloaded"}

\* Recovery codes come after a code of six digits; "Copied" has a timer that ends it.
MfaInv ==
  /\ DOMAIN ui = MfaFields
  /\ ui.timers \in 0 .. MaxTimers
  /\ ui.codeError = FALSE
  /\ ui.downloaded => ui.step \in {"recovery", "done"}
  /\ ui.step \in {"recovery", "done"} => ui.code = 6
  /\ ui.copied = "" \/ ui.timers > 0

\* The steps, copying, the clipboard's answers and the timers keep the invariant.
LEMMA MfaKeeps ==
  ASSUME Owned, page = "mfa" => MfaInv, MfaUser \/ MfaStep
  PROVE  page = "mfa" /\ page' = page /\ Owned' /\ MfaInv'
<1>1. page = "mfa" /\ MfaInv /\ DOMAIN ui = MfaFields
  BY Zenon DEF MfaUser, MfaStep, ShowKey, ScanDone, TypeCode, ClickVerify, BackToSetup, DownloadCodes,
               CodesSaved, Copy, Copied, CopyRefused, CopyTimer, OnMfa, MfaInv
<1>a. ui.timers \in 0 .. MaxTimers
  BY Zenon, <1>1 DEF MfaInv
<1>2. ASSUME ShowKey PROVE page' = page /\ Owned' /\ MfaInv'
  <2>1. page' = page /\ Owned'
    BY Zenon, <1>2, SetKeeps DEF ShowKey
  <2>2. /\ DOMAIN ui' = MfaFields /\ ui'.step = ui.step /\ ui'.code = ui.code /\ ui'.codeError = ui.codeError
        /\ ui'.copied = ui.copied /\ ui'.timers = ui.timers /\ ui'.downloaded = ui.downloaded
    BY Zenon, <1>1, <1>2 DEF ShowKey, Set, MfaFields
  <2> QED BY Zenon, <1>1, <2>1, <2>2 DEF MfaInv
<1>3. ASSUME ScanDone \/ TypeCode \/ BackToSetup PROVE page' = page /\ Owned' /\ MfaInv'
  <2>1. page' = page /\ Owned'
    BY Zenon, <1>3, SetKeeps DEF ScanDone, TypeCode, BackToSetup
  <2>2. /\ DOMAIN ui' = MfaFields /\ ui'.step \in {"setup", "verify"}
        /\ ui'.codeError \in {ui.codeError, FALSE} /\ ui.step \in {"setup", "verify"}
        /\ ui'.copied = ui.copied /\ ui'.timers = ui.timers /\ ui'.downloaded = ui.downloaded
    BY Zenon, <1>1, <1>3 DEF ScanDone, TypeCode, BackToSetup, Set, MfaFields
  <2>3. ui.step \notin {"recovery", "done"} /\ ui'.step \notin {"recovery", "done"}
    BY Zenon, <2>2
  <2> QED BY Zenon, <1>1, <2>1, <2>2, <2>3 DEF MfaInv
<1>4. ASSUME ClickVerify PROVE page' = page /\ Owned' /\ MfaInv'
  <2>1. page' = page /\ Owned'
    BY Zenon, <1>4, SetKeeps DEF ClickVerify
  <2>2. /\ DOMAIN ui' = MfaFields /\ ui'.step = "recovery" /\ ui'.code = ui.code
        /\ ui'.codeError = ui.codeError
        /\ ui'.copied = ui.copied /\ ui'.timers = ui.timers /\ ui'.downloaded = ui.downloaded /\ ui.code = 6
    BY Zenon, <1>1, <1>4 DEF ClickVerify, VerifyCode, Set, MfaFields
  <2> QED BY Zenon, <1>1, <2>1, <2>2 DEF MfaInv
<1>5. ASSUME DownloadCodes \/ CodesSaved PROVE page' = page /\ Owned' /\ MfaInv'
  <2>1. page' = page /\ Owned'
    BY Zenon, <1>5, SetKeeps DEF DownloadCodes, CodesSaved
  <2>2. /\ DOMAIN ui' = MfaFields /\ ui'.step \in {"recovery", "done"} /\ ui.step = "recovery"
        /\ ui'.code = ui.code /\ ui'.codeError = ui.codeError
        /\ ui'.copied = ui.copied /\ ui'.timers = ui.timers
    BY Zenon, <1>1, <1>5 DEF DownloadCodes, CodesSaved, Set, MfaFields
  <2> QED BY Zenon, <1>1, <2>1, <2>2 DEF MfaInv
<1>6. ASSUME Copy PROVE page' = page /\ Owned' /\ MfaInv'
  <2>1. PICK c : c = Call("copy", CopyHere[ui.step])
    OBVIOUS
  <2>2. DOMAIN c = {"do", "about", "here"} /\ c.do = "copy"
    BY SMT, <2>1 DEF Call
  <2>3. Send(c, ui)
    BY Zenon, <1>6, <2>1 DEF Copy
  <2>4. page' = page /\ Owned'
    BY SMT, <1>1, <2>2, <2>3, SendKeeps DEF Belongs
  <2> QED BY Zenon, <1>1, <2>3, <2>4 DEF Send, MfaInv
<1>7. ASSUME NEW c, Copied(c) PROVE page' = page /\ Owned' /\ MfaInv'
  <2>1. page' = page /\ Owned'
    BY Zenon, <1>7, TakeKeeps DEF Copied
  <2>2. /\ DOMAIN ui' = MfaFields /\ ui'.step = ui.step /\ ui'.code = ui.code /\ ui'.codeError = ui.codeError
        /\ ui'.timers = ui.timers + 1 /\ ui'.downloaded = ui.downloaded /\ ui.timers < MaxTimers
    BY Zenon, <1>1, <1>7 DEF Copied, Take, MfaFields
  <2>a. ui'.timers = ui.timers + 1 /\ ui.timers < MaxTimers
    BY Zenon, <2>2
  <2>3. ui'.timers \in 0 .. MaxTimers /\ ui'.timers > 0
    BY SMT, <1>a, <2>a DEF MaxTimers
  <2> QED BY Zenon, <1>1, <2>1, <2>2, <2>3 DEF MfaInv
<1>8. ASSUME NEW c, CopyRefused(c) PROVE page' = page /\ Owned' /\ MfaInv'
  <2>1. page' = page /\ Owned'
    BY Zenon, <1>8, TakeKeeps DEF CopyRefused
  <2> QED BY Zenon, <1>1, <1>8, <2>1 DEF CopyRefused, Take, MfaInv
<1>9. ASSUME CopyTimer PROVE page' = page /\ Owned' /\ MfaInv'
  <2>1. page' = page /\ Owned'
    BY Zenon, <1>9, SetKeeps DEF CopyTimer
  <2>2. /\ DOMAIN ui' = MfaFields /\ ui'.step = ui.step /\ ui'.code = ui.code /\ ui'.codeError = ui.codeError
        /\ ui'.timers = ui.timers - 1 /\ ui'.copied = "" /\ ui'.downloaded = ui.downloaded /\ ui.timers > 0
    BY Zenon, <1>1, <1>9 DEF CopyTimer, Set, MfaFields
  <2>a. ui'.timers = ui.timers - 1 /\ ui.timers > 0
    BY Zenon, <2>2
  <2>3. ui'.timers \in 0 .. MaxTimers
    BY SMT, <1>a, <2>a DEF MaxTimers
  <2> QED BY Zenon, <1>1, <2>1, <2>2, <2>3 DEF MfaInv
<1> QED BY Zenon, <1>1, <1>2, <1>3, <1>4, <1>5, <1>6, <1>7, <1>8, <1>9 DEF MfaUser, MfaStep

\* The page opens on its first step, with no timer.
LEMMA MfaOpens ==
  ASSUME OpenMfa PROVE page' = "mfa" /\ Owned' /\ MfaInv'
<1>1. page' = "mfa" /\ ui' = MfaInit /\ Owned'
  BY SMT, OpensClean DEF OpenMfa, Elsewhere
<1>2. /\ DOMAIN MfaInit = MfaFields /\ MfaInit.timers = 0 /\ MfaInit.codeError = FALSE
      /\ MfaInit.step = "setup" /\ MfaInit.copied = ""
      /\ MfaInit.downloaded = FALSE
  BY SMT DEF MfaInit, MfaFields
<1>3. 0 \in 0 .. MaxTimers
  BY SMT DEF MaxTimers
<1> QED BY Zenon, <1>1, <1>2, <1>3 DEF MfaInv

\* So the set-up settles.
LEMMA MfaShows == ASSUME page = "mfa" => MfaInv PROVE MfaSettles
  BY Zenon DEF MfaInv, MfaSettles, OnMfa

-----------------------------------------------------------------------------
\* A timeline of changes that lead from one status to another.
Chain(first, start, timeline, status) ==
  LET changes == Changes(timeline, first)
  IN  /\ \A j \in changes : (\A i \in changes : j <= i) => timeline[j][1] = start
      /\ \A i, j \in changes :
           i < j /\ (\A k \in changes : k <= i \/ j <= k) => timeline[j][1] = timeline[i][2]
      /\ changes = {} => status = start
      /\ \A i \in changes : (\A j \in changes : j <= i) => status = timeline[i][2]

\* An entry of a timeline, which is a change of the status or a note.
Entries == Nat \X Nat

\* A timeline to which one entry is added: its changes and the times of a resolution.
LEMMA TimelineGrows ==
  ASSUME NEW first \in Nat, NEW start, NEW timeline \in Seq(Entries), first <= Len(timeline),
         NEW status \in Nat, NEW e \in Entries, NEW next \in Nat,
         \/ e = Note /\ next = status
         \/ e = <<status, next>> /\ next # 0,
         Chain(first, start, timeline, status)
  PROVE  Chain(first, start, Append(timeline, e), next)
<1> DEFINE n == Len(timeline)
           grown == Append(timeline, e)
           changes == Changes(timeline, first)
           more == Changes(grown, first)
<1>1. n \in Nat /\ Len(grown) = n + 1 /\ grown[n + 1] = e /\ \A i \in 1 .. n : grown[i] = timeline[i]
  BY SMT
<1>2. changes \subseteq first + 1 .. n /\ \A i \in changes : grown[i] = timeline[i]
  BY SMT, <1>1 DEF Changes
<1>3. CASE e = Note
  <2>1. next = status
    BY SMT, <1>3 DEF Note
  <2>2. more = changes
    BY SMT, <1>1, <1>3 DEF Changes
  <2>3. \A j \in more : (\A i \in more : j <= i) => grown[j][1] = start
    BY Zenon, <1>2, <2>2 DEF Chain
  <2>4. \A i, j \in more :
          i < j /\ (\A k \in more : k <= i \/ j <= k) => grown[j][1] = grown[i][2]
    <3> SUFFICES ASSUME NEW i \in changes, NEW j \in changes, i < j, \A k \in changes : k <= i \/ j <= k
                 PROVE  timeline[j][1] = timeline[i][2]
      BY Zenon, <1>2, <2>2
    <3> QED BY Zenon DEF Chain
  <2>5. more = {} => next = start
    BY Zenon, <2>1, <2>2 DEF Chain
  <2>6. \A i \in more : (\A j \in more : j <= i) => next = grown[i][2]
    BY Zenon, <1>2, <2>1, <2>2 DEF Chain
  <2> QED BY Zenon, <2>3, <2>4, <2>5, <2>6 DEF Chain
<1>4. CASE e # Note
  <2>1. e[1] = status /\ e[2] = next
    BY SMT, <1>4
  <2>2. more = changes \cup {n + 1}
    BY SMT, <1>1, <1>4 DEF Changes
  <2>3. \A i \in changes : i < n + 1 /\ i <= n + 1 /\ i # n + 1 /\ ~(n + 1 <= i)
    BY SMT, <1>1, <1>2
  <2>4. ASSUME NEW j \in more, \A i \in more : j <= i PROVE grown[j][1] = start
    <3>1. CASE j \in changes
      BY Zenon, <1>2, <2>2, <2>4, <3>1 DEF Chain
    <3>2. CASE j = n + 1
      <4>1. changes = {}
        BY Zenon, <2>2, <2>3, <2>4, <3>2
      <4> QED BY Zenon, <1>1, <2>1, <3>2, <4>1 DEF Chain
    <3> QED BY Zenon, <2>2, <3>1, <3>2
  <2>5. ASSUME NEW i \in more, NEW j \in more, i < j, \A k \in more : k <= i \/ j <= k
        PROVE  grown[j][1] = grown[i][2]
    <3>1. i \in changes
      BY SMT, <1>1, <2>2, <2>3, <2>5, <1>2
    <3>2. CASE j \in changes
      BY Zenon, <1>2, <2>2, <2>5, <3>1, <3>2 DEF Chain
    <3>3. CASE j = n + 1
      <4>1. \A k \in changes : k <= i
        BY Zenon, <2>2, <2>3, <2>5, <3>3
      <4> QED BY Zenon, <1>1, <1>2, <2>1, <3>1, <3>3, <4>1 DEF Chain
    <3> QED BY Zenon, <2>2, <3>2, <3>3
  <2>6. ASSUME NEW i \in more, \A j \in more : j <= i PROVE next = grown[i][2]
    <3>1. i = n + 1
      BY Zenon, <2>2, <2>3, <2>6
    <3> QED BY Zenon, <1>1, <2>1, <3>1
  <2>7. more # {}
    BY Zenon, <2>2
  <2> QED BY Zenon, <2>4, <2>5, <2>6, <2>7 DEF Chain
<1> QED BY Zenon, <1>3, <1>4

\* The page of an incident (dashboard/alerts/incidents/[id]).
IncidentFields ==
  {"base", "incident", "acts", "note", "texts", "editing", "draft", "editor", "wrote", "out"}
InsideFields == {"status", "resolvedAt", "timeline", "assignees"}

\* The incident that the page shows, and the one that it was opened with.
InsideInv(base, now) ==
  /\ DOMAIN now = InsideFields /\ now.status \in Nat /\ now.timeline \in Seq(Entries)
  /\ Len(base.timeline) \in Nat /\ Len(base.timeline) <= Len(now.timeline)
  /\ DOMAIN now.assignees = Responders
  /\ Chain(Len(base.timeline), base.status, now.timeline, now.status)
  /\ now.resolvedAt <=> \E i \in DOMAIN now.timeline : now.timeline[i][2] = Resolved

\* The editor holds what was put into it, and what was saved is what the fields hold.
IncidentInv ==
  /\ DOMAIN ui = IncidentFields /\ InsideInv(ui.base, ui.incident)
  /\ DOMAIN ui.texts = TextFields /\ ui.texts = ui.wrote /\ ui.draft = ui.editor
  /\ \A a \in ui.out : ui.incident.assignees[a] = 0

\* A change of the status, or a note, keeps the timeline telling the status.
LEMMA EntryKeeps ==
  ASSUME NEW base, NEW now, InsideInv(base, now), NEW s \in Nat, NEW e \in Entries, NEW next,
         \/ e = Note /\ s = now.status /\ next.resolvedAt = now.resolvedAt
         \/ e = <<now.status, s>> /\ s # 0 /\ next.resolvedAt = (now.resolvedAt \/ s = Resolved),
         DOMAIN next = InsideFields, next.status = s, next.assignees = now.assignees,
         next.timeline = Append(now.timeline, e)
  PROVE  InsideInv(base, next)
<1>1. /\ now.timeline \in Seq(Entries) /\ now.status \in Nat /\ Len(base.timeline) \in Nat
      /\ Len(base.timeline) <= Len(now.timeline)
      /\ Chain(Len(base.timeline), base.status, now.timeline, now.status)
  BY Zenon DEF InsideInv
<1>2. Chain(Len(base.timeline), base.status, next.timeline, next.status)
  BY Zenon, <1>1, TimelineGrows
<1>3. /\ next.timeline \in Seq(Entries) /\ Len(next.timeline) = Len(now.timeline) + 1
      /\ Len(base.timeline) <= Len(next.timeline)
  BY SMT, <1>1
<1>4. (\E i \in DOMAIN next.timeline : next.timeline[i][2] = Resolved)
        <=> (\E i \in DOMAIN now.timeline : now.timeline[i][2] = Resolved) \/ e[2] = Resolved
  <2>1. /\ DOMAIN now.timeline = 1 .. Len(now.timeline) /\ Len(now.timeline) \in Nat
        /\ DOMAIN next.timeline = 1 .. Len(now.timeline) + 1
        /\ \A i \in DOMAIN now.timeline : next.timeline[i] = now.timeline[i]
        /\ next.timeline[Len(now.timeline) + 1] = e
    BY SMT, <1>1
  <2>2. DOMAIN next.timeline = DOMAIN now.timeline \cup {Len(now.timeline) + 1}
    BY SMT, <2>1
  <2> QED BY Zenon, <2>1, <2>2
<1>5. next.resolvedAt <=> now.resolvedAt \/ e[2] = Resolved
  <2>1. e = Note => e[2] # Resolved
    BY SMT DEF Note, Resolved
  <2>2. e = <<now.status, s>> => e[2] = s
    BY SMT, <1>1
  <2> QED BY Zenon, <2>1, <2>2
<1> QED BY Zenon, <1>1, <1>2, <1>3, <1>4, <1>5 DEF InsideInv
\* The stepper, the notes, the editors and the list of responders keep that, for any number of
\* acts: all editors share one draft, and a responder may be added again and again.
LEMMA IncidentKeeps ==
  ASSUME Owned, page = "incident" => IncidentInv, IncidentUser
  PROVE  page = "incident" /\ page' = page /\ Owned' /\ IncidentInv'
<1>1. page = "incident" /\ page' = page /\ Owned'
  BY Zenon, SetKeeps
     DEF IncidentUser, StatusStepper, AddNote, SetNote, OpenEditor, TypeText, CancelEditor, SaveField,
         AddAssignee, RemoveAssignee, Act, OnIncident
<1>2. IncidentInv /\ DOMAIN ui = IncidentFields /\ InsideInv(ui.base, ui.incident)
  BY Zenon, <1>1 DEF IncidentInv
<1>3. DOMAIN ui.incident = InsideFields /\ ui.incident.status \in Nat
  BY Zenon, <1>2 DEF InsideInv
<1>4. ASSUME NEW u, Act(u), DOMAIN u = IncidentFields, InsideInv(u.base, u.incident),
             DOMAIN u.texts = TextFields, u.texts = u.wrote, u.draft = u.editor,
             \A a \in u.out : u.incident.assignees[a] = 0
      PROVE  IncidentInv'
  <2>1. ui' = [u EXCEPT !.acts = @ + 1]
    BY Zenon, <1>4 DEF Act, Set
  <2>2. /\ DOMAIN ui' = IncidentFields /\ ui'.base = u.base /\ ui'.incident = u.incident
        /\ ui'.texts = u.texts /\ ui'.wrote = u.wrote /\ ui'.draft = u.draft /\ ui'.editor = u.editor
        /\ ui'.out = u.out
    BY Zenon, <1>4, <2>1 DEF IncidentFields
  <2> QED BY Zenon, <1>4, <2>2 DEF IncidentInv
<1>5. CASE StatusStepper
  <2>1. PICK s \in 1 .. Resolved : Act(UpdateStatus(ui, s))
    BY Zenon, <1>5 DEF StatusStepper
  <2>2. PICK v : v = [ui EXCEPT !.incident.status = s, !.incident.resolvedAt = @ \/ s = Resolved]
    OBVIOUS
  <2>3. PICK u : u = [v EXCEPT !.incident.timeline = Append(@, <<ui.incident.status, s>>)]
    OBVIOUS
  <2>4. /\ DOMAIN v = IncidentFields /\ DOMAIN v.incident = InsideFields /\ v.incident.status = s
        /\ v.incident.resolvedAt = (ui.incident.resolvedAt \/ s = Resolved)
        /\ v.incident.timeline = ui.incident.timeline /\ v.incident.assignees = ui.incident.assignees
    BY Zenon, <1>2, <1>3, <2>2 DEF IncidentFields, InsideFields
  <2>5. /\ v.base = ui.base /\ v.texts = ui.texts /\ v.wrote = ui.wrote
        /\ v.draft = ui.draft /\ v.editor = ui.editor /\ v.out = ui.out
    BY Zenon, <1>2, <2>2 DEF IncidentFields
  <2>6. /\ DOMAIN u = IncidentFields /\ DOMAIN u.incident = InsideFields /\ u.incident.status = s
        /\ u.incident.resolvedAt = (ui.incident.resolvedAt \/ s = Resolved)
        /\ u.incident.timeline = Append(ui.incident.timeline, <<ui.incident.status, s>>)
        /\ u.incident.assignees = ui.incident.assignees
    BY Zenon, <2>3, <2>4 DEF IncidentFields, InsideFields
  <2>7. /\ u.base = ui.base /\ u.texts = ui.texts /\ u.wrote = ui.wrote
        /\ u.draft = ui.draft /\ u.editor = ui.editor /\ u.out = ui.out
    BY Zenon, <2>3, <2>4, <2>5 DEF IncidentFields
  <2>8. s \in Nat /\ s # 0 /\ <<ui.incident.status, s>> \in Entries
    BY SMT, <1>3 DEF Entries, Resolved
  <2>9. InsideInv(u.base, u.incident)
    BY Zenon, <1>2, <2>6, <2>7, <2>8, EntryKeeps
  <2>10. Act(u)
    BY Zenon, <2>1, <2>2, <2>3, <2>4 DEF UpdateStatus, Entry
  <2> QED BY Zenon, <1>1, <1>2, <1>4, <2>6, <2>7, <2>9, <2>10 DEF IncidentInv
<1>6. CASE AddNote
  <2>1. PICK v : v = [ui EXCEPT !.note = FALSE]
    OBVIOUS
  <2>2. PICK u : u = [v EXCEPT !.incident.timeline = Append(@, Note)]
    OBVIOUS
  <2>3. /\ DOMAIN v = IncidentFields /\ v.incident = ui.incident /\ v.base = ui.base
        /\ v.texts = ui.texts /\ v.wrote = ui.wrote /\ v.draft = ui.draft /\ v.editor = ui.editor
        /\ v.out = ui.out
    BY Zenon, <1>2, <2>1 DEF IncidentFields
  <2>4. /\ DOMAIN u = IncidentFields /\ DOMAIN u.incident = InsideFields
        /\ u.incident.status = ui.incident.status /\ u.incident.resolvedAt = ui.incident.resolvedAt
        /\ u.incident.timeline = Append(ui.incident.timeline, Note)
        /\ u.incident.assignees = ui.incident.assignees
    BY Zenon, <1>3, <2>2, <2>3 DEF IncidentFields, InsideFields
  <2>5. /\ u.base = ui.base /\ u.texts = ui.texts /\ u.wrote = ui.wrote
        /\ u.draft = ui.draft /\ u.editor = ui.editor /\ u.out = ui.out
    BY Zenon, <2>2, <2>3 DEF IncidentFields
  <2>6. Note \in Entries
    BY SMT DEF Entries, Note
  <2>7. InsideInv(u.base, u.incident)
    BY Zenon, <1>2, <1>3, <2>4, <2>5, <2>6, EntryKeeps
  <2>8. Act(u)
    BY Zenon, <1>6, <2>1, <2>2 DEF AddNote, Entry
  <2> QED BY Zenon, <1>1, <1>2, <1>4, <2>4, <2>5, <2>7, <2>8 DEF IncidentInv
<1>7. CASE SetNote \/ CancelEditor
  <2>1. PICK u : u \in {[ui EXCEPT !.note = TRUE], [ui EXCEPT !.editing = ""]} /\ Act(u)
    BY Zenon, <1>7 DEF SetNote, CancelEditor
  <2>2. /\ DOMAIN u = IncidentFields /\ u.incident = ui.incident /\ u.base = ui.base
        /\ u.texts = ui.texts /\ u.wrote = ui.wrote /\ u.draft = ui.draft /\ u.editor = ui.editor
        /\ u.out = ui.out
    BY Zenon, <1>2, <2>1 DEF IncidentFields
  <2> QED BY Zenon, <1>1, <1>2, <1>4, <2>1, <2>2 DEF IncidentInv
<1>8. CASE OpenEditor \/ TypeText
  <2>1. PICK f, t : Act([ui EXCEPT !.editing = f, !.draft = t, !.editor = t])
                    \/ Act([ui EXCEPT !.draft = t, !.editor = t])
    BY Zenon, <1>8 DEF OpenEditor, TypeText, EditIcon
  <2>2. PICK u : u \in {[ui EXCEPT !.editing = f, !.draft = t, !.editor = t],
                        [ui EXCEPT !.draft = t, !.editor = t]} /\ Act(u)
    BY Zenon, <2>1
  <2>3. /\ DOMAIN u = IncidentFields /\ u.incident = ui.incident /\ u.base = ui.base
        /\ u.texts = ui.texts /\ u.wrote = ui.wrote /\ u.draft = t /\ u.editor = t
        /\ u.out = ui.out
    BY Zenon, <1>2, <2>2 DEF IncidentFields
  <2> QED BY Zenon, <1>1, <1>2, <1>4, <2>2, <2>3 DEF IncidentInv
<1>9. CASE SaveField
  <2>1. PICK u : u = [ui EXCEPT !.texts[ui.editing] = ui.draft, !.wrote[ui.editing] = ui.editor,
                                !.editing = ""]
    OBVIOUS
  <2>2. /\ DOMAIN u = IncidentFields /\ u.incident = ui.incident /\ u.base = ui.base
        /\ u.texts = [ui.texts EXCEPT ![ui.editing] = ui.draft]
        /\ u.wrote = [ui.wrote EXCEPT ![ui.editing] = ui.editor]
        /\ u.draft = ui.draft /\ u.editor = ui.editor /\ u.out = ui.out
    BY Zenon, <1>2, <2>1 DEF IncidentFields
  <2>3. DOMAIN u.texts = TextFields /\ u.texts = u.wrote
    BY Zenon, <1>2, <2>2 DEF IncidentInv
  <2>4. Act(u)
    BY Zenon, <1>9, <2>1 DEF SaveField
  <2> QED BY Zenon, <1>1, <1>2, <1>4, <2>2, <2>3, <2>4 DEF IncidentInv
<1>10. CASE AddAssignee \/ RemoveAssignee
  <2>1. PICK a, n, out :
          /\ a \in Responders
          /\ Act([ui EXCEPT !.incident.assignees = [@ EXCEPT ![a] = n], !.out = out])
          /\ out = ui.out \ {a} \/ (out = ui.out \cup {a} /\ n = 0)
    BY Zenon, <1>10 DEF AddAssignee, RemoveAssignee, Removed
  <2>2. PICK u : u = [ui EXCEPT !.incident.assignees = [@ EXCEPT ![a] = n], !.out = out]
    OBVIOUS
  <2>3. /\ DOMAIN u = IncidentFields /\ u.base = ui.base
        /\ u.texts = ui.texts /\ u.wrote = ui.wrote /\ u.draft = ui.draft /\ u.editor = ui.editor
        /\ u.out = out
    BY Zenon, <1>2, <2>2 DEF IncidentFields
  <2>4. /\ DOMAIN u.incident = InsideFields /\ u.incident.status = ui.incident.status
        /\ u.incident.timeline = ui.incident.timeline /\ u.incident.resolvedAt = ui.incident.resolvedAt
        /\ u.incident.assignees = [ui.incident.assignees EXCEPT ![a] = n]
    BY Zenon, <1>2, <1>3, <2>2 DEF IncidentFields, InsideFields
  <2>5. DOMAIN ui.incident.assignees = Responders
    BY Zenon, <1>2 DEF InsideInv
  <2>6. DOMAIN u.incident.assignees = Responders
    BY Zenon, <2>4, <2>5
  <2>7. InsideInv(u.base, u.incident)
    BY Zenon, <1>2, <2>3, <2>4, <2>6 DEF InsideInv
  <2>8. ASSUME NEW b \in u.out PROVE u.incident.assignees[b] = 0
    <3>1. b = a => n = 0
      BY Zenon, <2>1, <2>3, <2>8
    <3>2. b # a => b \in ui.out
      BY Zenon, <2>1, <2>3, <2>8
    <3>3. CASE b = a
      BY Zenon, <2>1, <2>4, <2>5, <3>1, <3>3
    <3>4. CASE b # a
      <4>1. ui.incident.assignees[b] = 0
        BY Zenon, <1>2, <3>2, <3>4 DEF IncidentInv
      <4> QED BY SMT, <2>4, <2>5, <3>4, <4>1
    <3> QED BY Zenon, <3>3, <3>4
  <2> QED BY Zenon, <1>1, <1>2, <1>4, <2>1, <2>2, <2>3, <2>7, <2>8 DEF IncidentInv
<1> QED BY Zenon, <1>1, <1>5, <1>6, <1>7, <1>8, <1>9, <1>10 DEF IncidentUser

\* Each of the fixtures tells its own status.
LEMMA IncidentOpens ==
  ASSUME OpenIncident PROVE page' = "incident" /\ Owned' /\ IncidentInv'
<1>1. PICK b \in Incidents : Open("incident", IncidentInit(b))
  BY Zenon DEF OpenIncident
<1>2. page' = "incident" /\ ui' = IncidentInit(b) /\ Owned'
  BY SMT, <1>1, OpensClean DEF Elsewhere
<1>3. PICK none : none = [f \in TextFields |-> 0]
  OBVIOUS
<1>4. PICK u : u = [base |-> b, incident |-> b, acts |-> 0, note |-> FALSE, texts |-> none,
                    editing |-> "", draft |-> 0, editor |-> 0, wrote |-> none, out |-> {}]
  OBVIOUS
<1>5. /\ DOMAIN u = IncidentFields /\ u.base = b /\ u.incident = b /\ u.draft = u.editor
      /\ u.texts = none /\ u.wrote = none /\ u.out = {} /\ DOMAIN none = TextFields
  <2>1. DOMAIN u = IncidentFields
    BY Zenon, <1>4 DEF IncidentFields
  <2> QED BY Zenon, <1>3, <1>4, <2>1
<1>6. ui' = u
  BY Zenon, <1>2, <1>3, <1>4 DEF IncidentInit
<1>7. /\ DOMAIN b = InsideFields /\ DOMAIN b.assignees = Responders
      /\ b.status \in Nat /\ b.timeline \in Seq(Entries)
      /\ b.resolvedAt <=> \E i \in DOMAIN b.timeline : b.timeline[i][2] = Resolved
  <2>1. PICK status, team, timeline :
          /\ b = Fixture(status, team, timeline) /\ status \in 1 .. 4
          /\ \/ timeline = << Note, <<0, 1>>, Note >> /\ status # Resolved
             \/ timeline = << Note, <<0, 1>>, Note, <<1, 2>>, Note >> /\ status # Resolved
             \/ timeline = << Note, <<0, 1>>, Note, <<1, 3>>, <<3, 4>> >> /\ status = Resolved
             \/ timeline = << Note, <<0, 1>>, Note, Note, <<3, 4>> >> /\ status = Resolved
             \/ timeline = << >> /\ status # Resolved
    <3>1. 1 # Resolved /\ 2 # Resolved /\ 4 = Resolved /\ {1, 2, 4} \subseteq 1 .. 4
      BY SMT DEF Resolved
    <3> QED BY Zenon, <1>1, <3>1 DEF Incidents
  <2>2. timeline \in Seq(Entries)
    <3>1. Note \in Entries
      BY SMT DEF Entries, Note
    <3>2. /\ <<0, 1>> \in Entries /\ <<1, 2>> \in Entries /\ <<1, 3>> \in Entries
          /\ <<3, 4>> \in Entries
      BY SMT DEF Entries
    <3>3. CASE timeline = << >>
      BY SMT, <3>3
    <3>4. CASE timeline = << Note, <<0, 1>>, Note >>
      BY SMT, <3>1, <3>2, <3>4
    <3>5. CASE timeline = << Note, <<0, 1>>, Note, <<1, 2>>, Note >>
      BY SMT, <3>1, <3>2, <3>5
    <3>6. CASE timeline = << Note, <<0, 1>>, Note, <<1, 3>>, <<3, 4>> >>
      BY SMT, <3>1, <3>2, <3>6
    <3>7. CASE timeline = << Note, <<0, 1>>, Note, Note, <<3, 4>> >>
      BY SMT, <3>1, <3>2, <3>7
    <3> QED BY Zenon, <2>1, <3>3, <3>4, <3>5, <3>6, <3>7
  <2>3. (\E i \in DOMAIN timeline : timeline[i][2] = Resolved) <=> status = Resolved
    <3>1. CASE timeline = << >>
      BY SMT, <2>1, <3>1
    <3>2. CASE timeline = << Note, <<0, 1>>, Note >>
      BY SMT, <2>1, <3>2 DEF Note, Resolved
    <3>3. CASE timeline = << Note, <<0, 1>>, Note, <<1, 2>>, Note >>
      BY SMT, <2>1, <3>3 DEF Note, Resolved
    <3>4. CASE timeline = << Note, <<0, 1>>, Note, <<1, 3>>, <<3, 4>> >>
      BY SMT, <2>1, <3>4 DEF Note, Resolved
    <3>5. CASE timeline = << Note, <<0, 1>>, Note, Note, <<3, 4>> >>
      BY SMT, <2>1, <3>5 DEF Note, Resolved
    <3> QED BY Zenon, <2>1, <3>1, <3>2, <3>3, <3>4, <3>5
  <2>4. PICK list : list = [a \in Responders |-> IF a \in team THEN 1 ELSE 0]
    OBVIOUS
  <2>5. b = [status |-> status, resolvedAt |-> status = Resolved, timeline |-> timeline,
             assignees |-> list]
    BY Zenon, <2>1, <2>4 DEF Fixture
  <2>6. DOMAIN b = InsideFields /\ b.assignees = list /\ b.status = status /\ b.timeline = timeline
    BY SMT, <2>5 DEF InsideFields
  <2>7. b.resolvedAt <=> status = Resolved
    BY Zenon, <2>5
  <2>8. DOMAIN list = Responders /\ status \in Nat
    BY SMT, <2>1, <2>4
  <2> QED BY Zenon, <2>2, <2>3, <2>6, <2>7, <2>8
<1>8. Changes(b.timeline, Len(b.timeline)) = {} /\ Len(b.timeline) \in Nat
        /\ Len(b.timeline) <= Len(b.timeline)
  BY SMT, <1>7 DEF Changes
<1>9. InsideInv(b, b)
  BY Zenon, <1>7, <1>8 DEF InsideInv, Chain
<1> QED BY Zenon, <1>2, <1>5, <1>6, <1>9 DEF IncidentInv

\* So the page remembers what it was told.
LEMMA IncidentShows ==
  ASSUME page = "incident" => IncidentInv
  PROVE  TimelineTellsStatus /\ FieldsHoldTheirText /\ RemovedAreGone
<1>1. TimelineTellsStatus
  BY Zenon DEF TimelineTellsStatus, IncidentInv, InsideInv, Chain, OnIncident
<1>2. FieldsHoldTheirText /\ RemovedAreGone
  BY Zenon DEF IncidentInv, FieldsHoldTheirText, RemovedAreGone, OnIncident
<1> QED BY <1>1, <1>2

-----------------------------------------------------------------------------
\* The request for access (RequestAccessModal).
RequestFields == {"slug", "sent", "timers"}

\* A confirmation that is shown has a timer that ends it.
RequestInv ==
  /\ DOMAIN ui = RequestFields /\ ui.timers \in Nat /\ ui.slug \in 0 .. 2
  /\ ui.sent => ui.timers > 0 /\ ui.slug # 0

\* Asking, sending, closing and the timers keep that, although closing the dialog clears no
\* timer: one left over from an earlier request may end a confirmation early, but each
\* confirmation starts one of its own.
LEMMA RequestKeeps ==
  ASSUME Owned, page = "request" => RequestInv, RequestUser \/ RequestTimer
  PROVE  page = "request" /\ page' = page /\ Owned' /\ RequestInv'
<1>1. page = "request" /\ page' = page /\ Owned'
  BY Zenon, SetKeeps DEF RequestUser, RequestTimer, AskAccess, SendRequest, CancelRequest, OnRequest
<1>2. DOMAIN ui = RequestFields /\ RequestInv
  BY Zenon, <1>1 DEF RequestInv
<1>3. ui.timers \in Nat
  BY Zenon, <1>2 DEF RequestInv
<1>4. CASE AskAccess
  <2>1. PICK s \in 1 .. 2 : ui' = [ui EXCEPT !.slug = s] /\ ui.slug = 0
    BY Zenon, <1>4 DEF AskAccess, Set
  <2>2. DOMAIN ui' = RequestFields /\ ui'.slug = s /\ ui'.timers = ui.timers /\ ui'.sent = ui.sent
    BY Zenon, <1>2, <2>1 DEF RequestFields
  <2>3. s \in 0 .. 2
    BY SMT
  <2> QED BY Zenon, <1>1, <1>2, <2>1, <2>2, <2>3 DEF RequestInv
<1>5. CASE SendRequest
  <2>1. ui' = [ui EXCEPT !.sent = TRUE, !.timers = @ + 1] /\ ui.slug # 0
    BY Zenon, <1>5 DEF SendRequest, SubmitRequest, Set
  <2>2. DOMAIN ui' = RequestFields /\ ui'.slug = ui.slug /\ ui'.timers = ui.timers + 1
    BY Zenon, <1>2, <2>1 DEF RequestFields
  <2>3. ui'.timers \in Nat /\ ui'.timers > 0
    BY SMT, <1>3, <2>2
  <2> QED BY Zenon, <1>1, <1>2, <2>1, <2>2, <2>3 DEF RequestInv
<1>6. CASE CancelRequest \/ RequestTimer
  <2>1. /\ DOMAIN ui' = RequestFields /\ ui'.slug = 0 /\ ui'.sent = FALSE
        /\ ui'.timers = ui.timers \/ (ui.timers > 0 /\ ui'.timers = ui.timers - 1)
    BY Zenon, <1>2, <1>6 DEF CancelRequest, RequestTimer, CloseRequest, Set, RequestFields
  <2>2. ui'.timers = ui.timers \/ (ui.timers > 0 /\ ui'.timers = ui.timers - 1)
    BY Zenon, <2>1
  <2>3. ui'.timers \in Nat /\ 0 \in 0 .. 2
    BY SMT, <1>3, <2>2
  <2> QED BY Zenon, <1>1, <2>1, <2>3 DEF RequestInv
<1> QED BY Zenon, <1>4, <1>5, <1>6 DEF RequestUser

\* The page opens with no request.
LEMMA RequestOpens ==
  ASSUME OpenRequestPage PROVE page' = "request" /\ Owned' /\ RequestInv'
<1>1. page' = "request" /\ ui' = RequestInit /\ Owned'
  BY SMT, OpensClean DEF OpenRequestPage, Elsewhere
<1>2. DOMAIN RequestInit = RequestFields /\ RequestInit.timers = 0 /\ RequestInit.slug = 0
        /\ RequestInit.sent = FALSE
  BY SMT DEF RequestInit, RequestFields
<1>3. 0 \in Nat /\ 0 \in 0 .. 2
  BY SMT
<1> QED BY Zenon, <1>1, <1>2, <1>3 DEF RequestInv

\* So a confirmation ends.
LEMMA RequestShows == ASSUME page = "request" => RequestInv PROVE ConfirmationEnds
  BY Zenon DEF RequestInv, ConfirmationEnds, OnRequest

-----------------------------------------------------------------------------
\* A span of a trace.
SpanSet == [start: Nat, end: Nat, status: {"ok", "warn", "error"}]

\* The nine spans of a call that got through: when they begin and end, and which failed.
LEMMA SpanTable ==
  ASSUME NEW log \in TraceLogs
  PROVE  LET d == SpanDefinitions(log)
         IN  /\ d \in Seq(SpanSet) /\ Len(d) = 9
             /\ d[1].start = 0 /\ d[1].end = 2 /\ d[2].start = 3 /\ d[2].end = 11
             /\ d[3].start = 12 /\ d[3].end = 18 /\ d[4].start = 19 /\ d[4].end = 23
             /\ d[5].start = 24 /\ d[5].end = 27 /\ d[6].start = 28 /\ d[6].end = 40
             /\ d[7].start = 41 /\ d[7].end = 76 /\ d[8].start = 77 /\ d[8].end = 82
             /\ d[9].start = 83 /\ d[9].end = 85
             /\ d[1].status # "error" /\ d[5].status # "error" /\ d[6].status # "error"
             /\ d[8].status # "error" /\ d[9].status # "error"
             /\ d[2].status = "error" <=> log.event = "auth_failure"
             /\ d[3].status = "error" <=> log.event = "rbac_deny"
             /\ d[4].status = "error" <=> log.outcome = "rate_limited"
             /\ d[7].status = "error" <=> log.outcome \in {"error", "failure"}
<1> DEFINE d == SpanDefinitions(log)
<1>1. PICK s2 \in {"ok", "error"} : s2 = ErrorIf(log.event = "auth_failure")
  BY Zenon DEF ErrorIf
<1>2. PICK s3 \in {"ok", "error"} : s3 = ErrorIf(log.event = "rbac_deny")
  BY Zenon DEF ErrorIf
<1>3. PICK s4 \in {"ok", "error"} : s4 = ErrorIf(log.outcome = "rate_limited")
  BY Zenon DEF ErrorIf
<1>4. PICK s5 \in {"ok", "warn"} : s5 = IF log.tool THEN "ok" ELSE "warn"
  BY Zenon
<1>5. PICK s6 \in {"ok", "warn"} : s6 = IF log.outcome = "error" THEN "warn" ELSE "ok"
  BY Zenon
<1>6. PICK s7 \in {"ok", "warn", "error"} :
        s7 = IF log.outcome = "warn" THEN "warn" ELSE ErrorIf(log.outcome \in {"error", "failure"})
  BY Zenon DEF ErrorIf
<1>7. PICK a1, a2, a3, a4, a5, a6, a7, a8, a9 :
        /\ a1 = Span(0, 2, "ok") /\ a2 = Span(3, 8, s2) /\ a3 = Span(12, 6, s3)
        /\ a4 = Span(19, 4, s4) /\ a5 = Span(24, 3, s5) /\ a6 = Span(28, 12, s6)
        /\ a7 = Span(41, 35, s7) /\ a8 = Span(77, 5, "ok") /\ a9 = Span(83, 2, "ok")
  BY Zenon
<1>8. d = << a1, a2, a3, a4, a5, a6, a7, a8, a9 >>
  BY <1>1, <1>2, <1>3, <1>4, <1>5, <1>6, <1>7 DEF SpanDefinitions
<1>9. {s2, s3, s4, s5, s6, s7, "ok"} \subseteq {"ok", "warn", "error"}
  BY Zenon, <1>1, <1>2, <1>3, <1>4, <1>5, <1>6
<1>10. /\ a1 \in SpanSet /\ a1.start = 0 /\ a1.end = 2 /\ a1.status = "ok"
       /\ a8 \in SpanSet /\ a8.start = 77 /\ a8.end = 82 /\ a8.status = "ok"
       /\ a9 \in SpanSet /\ a9.start = 83 /\ a9.end = 85 /\ a9.status = "ok"
  BY SMT, <1>7, <1>9 DEF Span, SpanSet
<1>11. a2 \in SpanSet /\ a2.start = 3 /\ a2.end = 11 /\ a2.status = s2
  BY SMT, <1>7, <1>9 DEF Span, SpanSet
<1>12. a3 \in SpanSet /\ a3.start = 12 /\ a3.end = 18 /\ a3.status = s3
  BY SMT, <1>7, <1>9 DEF Span, SpanSet
<1>13. a4 \in SpanSet /\ a4.start = 19 /\ a4.end = 23 /\ a4.status = s4
  BY SMT, <1>7, <1>9 DEF Span, SpanSet
<1>14. a5 \in SpanSet /\ a5.start = 24 /\ a5.end = 27 /\ a5.status = s5
  BY SMT, <1>7, <1>9 DEF Span, SpanSet
<1>15. a6 \in SpanSet /\ a6.start = 28 /\ a6.end = 40 /\ a6.status = s6
  BY SMT, <1>7, <1>9 DEF Span, SpanSet
<1>16. a7 \in SpanSet /\ a7.start = 41 /\ a7.end = 76 /\ a7.status = s7
  BY SMT, <1>7, <1>9 DEF Span, SpanSet
<1>17. d \in Seq(SpanSet) /\ Len(d) = 9
  BY SMT, <1>8, <1>10, <1>11, <1>12, <1>13, <1>14, <1>15, <1>16
<1>18. /\ d[1] = a1 /\ d[2] = a2 /\ d[3] = a3 /\ d[4] = a4 /\ d[5] = a5 /\ d[6] = a6
       /\ d[7] = a7 /\ d[8] = a8 /\ d[9] = a9
  BY SMT, <1>8
<1>19. /\ "ok" # "error" /\ s5 # "error" /\ s6 # "error" /\ (s2 = "error" <=> log.event = "auth_failure")
       /\ (s3 = "error" <=> log.event = "rbac_deny") /\ (s4 = "error" <=> log.outcome = "rate_limited")
       /\ (s7 = "error" <=> log.outcome \in {"error", "failure"})
  BY Zenon, <1>1, <1>2, <1>3, <1>4, <1>5, <1>6 DEF ErrorIf
<1>20. /\ d[1].start = 0 /\ d[1].end = 2 /\ d[1].status # "error"
       /\ d[8].start = 77 /\ d[8].end = 82 /\ d[8].status # "error"
       /\ d[9].start = 83 /\ d[9].end = 85 /\ d[9].status # "error"
  BY Zenon, <1>10, <1>18, <1>19
<1>21. /\ d[2].start = 3 /\ d[2].end = 11 /\ (d[2].status = "error" <=> log.event = "auth_failure")
       /\ d[3].start = 12 /\ d[3].end = 18 /\ (d[3].status = "error" <=> log.event = "rbac_deny")
       /\ d[4].start = 19 /\ d[4].end = 23 /\ (d[4].status = "error" <=> log.outcome = "rate_limited")
  BY Zenon, <1>11, <1>12, <1>13, <1>18, <1>19
<1>22. /\ d[5].start = 24 /\ d[5].end = 27 /\ d[5].status # "error"
       /\ d[6].start = 28 /\ d[6].end = 40 /\ d[6].status # "error"
       /\ d[7].start = 41 /\ d[7].end = 76
       /\ (d[7].status = "error" <=> log.outcome \in {"error", "failure"})
  BY Zenon, <1>14, <1>15, <1>16, <1>18, <1>19
<1> QED BY Zenon, <1>17, <1>20, <1>21, <1>22

\* A trace is the beginning of that table, up to the span that refused the call.
LEMMA SpansAre ==
  ASSUME NEW log \in TraceLogs
  PROVE  /\ Len(Spans(log)) = CutAfter(log)
         /\ DOMAIN Spans(log) = 1 .. CutAfter(log) /\ CutAfter(log) \in {2, 3, 4, 9}
         /\ \A i \in 1 .. CutAfter(log) : Spans(log)[i] = SpanDefinitions(log)[i]
<1>1. CutAfter(log) \in {2, 3, 4, 9}
  BY Zenon DEF CutAfter
<1>2. SpanDefinitions(log) \in Seq(SpanSet) /\ Len(SpanDefinitions(log)) = 9
  BY Zenon, SpanTable
<1>3. ASSUME NEW n \in 1 .. 9, NEW d \in Seq(SpanSet), Len(d) = 9
      PROVE  /\ Len(SubSeq(d, 1, n)) = n /\ DOMAIN SubSeq(d, 1, n) = 1 .. n
             /\ \A i \in 1 .. n : SubSeq(d, 1, n)[i] = d[i]
  BY SMT, <1>3
<1>4. CutAfter(log) \in 1 .. 9
  BY SMT, <1>1
<1> QED BY Zenon, <1>1, <1>2, <1>3, <1>4 DEF Spans

\* Which spans of a trace failed.
LEMMA FailedSpans ==
  ASSUME NEW log \in TraceLogs
  PROVE  LET spans == Spans(log)
             failed == {i \in DOMAIN spans : spans[i].status = "error"}
         IN  /\ TraceIsError(log) <=> failed # {}
             /\ \A i \in failed : i = Len(spans) \/ i = 7
<1> DEFINE spans == Spans(log)
           d == SpanDefinitions(log)
           n == CutAfter(log)
<1>1. /\ Len(spans) = n /\ DOMAIN spans = 1 .. n /\ n \in {2, 3, 4, 9}
      /\ \A i \in 1 .. n : spans[i] = d[i]
  BY Zenon, SpansAre
<1>2. /\ d[1].status # "error" /\ d[5].status # "error" /\ d[6].status # "error"
      /\ d[8].status # "error" /\ d[9].status # "error"
      /\ d[2].status = "error" <=> log.event = "auth_failure"
      /\ d[3].status = "error" <=> log.event = "rbac_deny"
      /\ d[4].status = "error" <=> log.outcome = "rate_limited"
      /\ d[7].status = "error" <=> log.outcome \in {"error", "failure"}
  BY Zenon, SpanTable
<1>3. /\ n = 2 <=> log.event = "auth_failure"
      /\ n = 3 <=> log.event = "rbac_deny"
      /\ n = 4 <=> log.event \notin {"auth_failure", "rbac_deny"} /\ log.outcome = "rate_limited"
  BY SMT DEF CutAfter
<1>4. \A i \in 1 .. n : spans[i].status = "error" => i = n \/ i = 7
  <2>1. \A i \in 1 .. n : i \in {1, 2, 3, 4, 5, 6, 7, 8, 9}
    BY SMT, <1>1
  <2>2. ASSUME NEW i \in 1 .. n, d[i].status = "error" PROVE i = n \/ i = 7
    <3>1. i \in {2, 3, 4, 7}
      BY Zenon, <1>2, <2>1, <2>2
    <3> QED BY SMT, <1>1, <1>2, <1>3, <2>2, <3>1
  <2> QED BY Zenon, <1>1, <2>2
<1>5. TraceIsError(log) => \E i \in 1 .. n : spans[i].status = "error"
  <2>1. n \in 1 .. n /\ (n = 9 => 7 \in 1 .. n)
    BY SMT, <1>1
  <2>2. CASE n \in {2, 3, 4}
    <3>1. spans[n].status = "error"
      BY Zenon, <1>1, <1>2, <1>3, <2>1, <2>2
    <3> QED BY Zenon, <2>1, <3>1
  <2>3. CASE n = 9
    <3>1. n # 2 /\ n # 3 /\ n # 4
      BY SMT, <2>3
    <3> QED BY Zenon, <1>1, <1>2, <1>3, <2>1, <2>3, <3>1 DEF TraceIsError
  <2> QED BY Zenon, <1>1, <2>2, <2>3
<1>6. (\E i \in 1 .. n : spans[i].status = "error") => TraceIsError(log)
  <2>1. \A i \in 1 .. n : i \in {1, 2, 3, 4, 5, 6, 7, 8, 9}
    BY SMT, <1>1
  <2>2. ASSUME NEW i \in 1 .. n, d[i].status = "error" PROVE TraceIsError(log)
    <3>1. i \in {2, 3, 4, 7}
      BY Zenon, <1>2, <2>1, <2>2
    <3>2. CASE i = 2
      BY Zenon, <1>2, <2>2, <3>2 DEF TraceIsError
    <3>3. CASE i = 3
      BY Zenon, <1>2, <2>2, <3>3 DEF TraceIsError
    <3>4. CASE i = 4
      BY Zenon, <1>2, <2>2, <3>4 DEF TraceIsError
    <3>5. CASE i = 7
      BY Zenon, <1>2, <2>2, <3>5 DEF TraceIsError
    <3> QED BY Zenon, <3>1, <3>2, <3>3, <3>4, <3>5
  <2> QED BY Zenon, <1>1, <2>2
<1>7. {i \in DOMAIN spans : spans[i].status = "error"} # {}
        <=> \E i \in 1 .. n : spans[i].status = "error"
  BY Zenon, <1>1
<1> QED BY Zenon, <1>1, <1>4, <1>5, <1>6, <1>7

\* The spans of a trace follow one another, and the last one ends the trace.
LEMMA SpansInOrder ==
  ASSUME NEW log \in TraceLogs
  PROVE  LET spans == Spans(log)
         IN  /\ \A i \in 2 .. Len(spans) : spans[i].start > spans[i - 1].end
             /\ TotalDuration(log) = spans[Len(spans)].end
             /\ TotalDuration(log) \in Nat
<1> DEFINE spans == Spans(log)
           d == SpanDefinitions(log)
           n == CutAfter(log)
<1>1. /\ Len(spans) = n /\ DOMAIN spans = 1 .. n /\ n \in {2, 3, 4, 9}
      /\ \A i \in 1 .. n : spans[i] = d[i]
  BY Zenon, SpansAre
<1>2. /\ d[1].start = 0 /\ d[1].end = 2 /\ d[2].start = 3 /\ d[2].end = 11
      /\ d[3].start = 12 /\ d[3].end = 18 /\ d[4].start = 19 /\ d[4].end = 23
      /\ d[5].start = 24 /\ d[5].end = 27 /\ d[6].start = 28 /\ d[6].end = 40
      /\ d[7].start = 41 /\ d[7].end = 76 /\ d[8].start = 77 /\ d[8].end = 82
      /\ d[9].start = 83 /\ d[9].end = 85
  BY Zenon, SpanTable
<1>3. \A i \in 2 .. n : spans[i].start > spans[i - 1].end
  <2>1. \A i \in 2 .. n : i \in 1 .. n /\ i - 1 \in 1 .. n /\ i \in {2, 3, 4, 5, 6, 7, 8, 9}
    BY SMT, <1>1
  <2>2. \A i \in {2, 3, 4, 5, 6, 7, 8, 9} : d[i].start > d[i - 1].end
    BY SMT, <1>2
  <2> QED BY Zenon, <1>1, <2>1, <2>2
<1>4. \A i \in 1 .. n : spans[i].end \in Nat /\ spans[i].end <= spans[n].end
  <2>1. \A i \in 1 .. n : n \in 1 .. n /\ i <= n /\ i \in {1, 2, 3, 4, 5, 6, 7, 8, 9}
    BY SMT, <1>1
  <2>2. \A i \in {1, 2, 3, 4, 5, 6, 7, 8, 9}, j \in {2, 3, 4, 9} :
          i <= j => d[i].end \in Nat /\ d[i].end <= d[j].end
    BY SMT, <1>2
  <2> QED BY Zenon, <1>1, <2>1, <2>2
<1>5. TotalDuration(log) = spans[n].end
  <2>1. PICK m : m = spans[n].end
    OBVIOUS
  <2>2. PICK S : S = {0} \cup {spans[i].end : i \in DOMAIN spans}
    OBVIOUS
  <2>3. n \in 1 .. n
    BY SMT, <1>1
  <2>4. m \in S
    BY Zenon, <1>1, <2>1, <2>2, <2>3
  <2>5. m \in Nat /\ \A y \in S : y \in Nat /\ m >= y
    BY SMT, <1>1, <1>4, <2>1, <2>2, <2>3
  <2>6. (\A y \in S : y <= m) /\ (\A x \in S : (\A y \in S : y <= x) => x = m)
    BY SMT, <2>4, <2>5
  <2>7. (CHOOSE last \in S : \A end \in S : end <= last) = m
    BY Zenon, <2>4, <2>6
  <2> QED BY Zenon, <2>1, <2>2, <2>7 DEF TotalDuration
<1>6. spans[n].end \in Nat
  BY SMT, <1>1, <1>4
<1> QED BY Zenon, <1>1, <1>3, <1>5, <1>6

\* The page of a trace (dashboard/observability/traces), which shows an event of the log.
TracesInv == ui.log \in TraceLogs

\* The page opens on an event of the log.
LEMMA TracesOpens == ASSUME OpenTraces PROVE page' = "traces" /\ Owned' /\ TracesInv'
<1>1. PICK log \in TraceLogs : Open("traces", [log |-> log])
  BY Zenon DEF OpenTraces
<1>2. page' = "traces" /\ ui' = [log |-> log] /\ Owned'
  BY SMT, <1>1, OpensClean DEF Elsewhere
<1> QED BY Zenon, <1>1, <1>2 DEF TracesInv

\* So a trace that failed ends where it failed.
LEMMA TracesShows == ASSUME page = "traces" => TracesInv PROVE TraceEndsWhereItFailed
  BY Zenon, FailedSpans, SpansInOrder DEF TracesInv, TraceEndsWhereItFailed
\* The list of traces.
TraceListFields == {"newest", "search", "filters", "selected", "clicked"}
TraceFilterFields == {"outcome", "tool", "minDuration"}

TraceListInv ==
  /\ DOMAIN ui = TraceListFields /\ ui.newest \in Fetched .. Len(EventLog)
  /\ DOMAIN ui.filters = TraceFilterFields /\ ui.selected \in {0, ui.clicked}

\* Typing, choosing, going back and a refetch keep that.
LEMMA TraceListKeeps ==
  ASSUME Owned, page = "traceList" => TraceListInv, TraceListUser \/ TracesRefetched
  PROVE  page = "traceList" /\ page' = page /\ Owned' /\ TraceListInv'
<1>1. page = "traceList" /\ page' = page /\ Owned'
  BY Zenon, SetKeeps
     DEF TraceListUser, TracesRefetched, SetTraceSearch, SetTraceFilters, ClearTraceFilters, SelectTrace,
         BackToTraces, OnTraceList
<1>2. /\ DOMAIN ui = TraceListFields /\ ui.newest \in Fetched .. Len(EventLog)
      /\ DOMAIN ui.filters = TraceFilterFields /\ ui.selected \in {0, ui.clicked}
  BY Zenon, <1>1 DEF TraceListInv
<1>3. CASE SetTraceSearch
  <2>1. PICK s : ui' = [ui EXCEPT !.search = s]
    BY Zenon, <1>3 DEF SetTraceSearch, Set
  <2>2. /\ DOMAIN ui' = TraceListFields /\ ui'.newest = ui.newest /\ ui'.filters = ui.filters
        /\ ui'.selected = ui.selected /\ ui'.clicked = ui.clicked
    BY Zenon, <1>2, <2>1 DEF TraceListFields
  <2> QED BY Zenon, <1>1, <1>2, <2>2 DEF TraceListInv
<1>4. CASE SetTraceFilters \/ ClearTraceFilters
  <2>1. PICK f : ui' = [ui EXCEPT !.filters = f] /\ f \in TraceFilters \cup {NoTraceFilters}
    BY Zenon, <1>4 DEF SetTraceFilters, ClearTraceFilters, Set
  <2>2. /\ DOMAIN ui' = TraceListFields /\ ui'.newest = ui.newest /\ ui'.filters = f
        /\ ui'.selected = ui.selected /\ ui'.clicked = ui.clicked
    BY Zenon, <1>2, <2>1 DEF TraceListFields
  <2>3. DOMAIN f = TraceFilterFields
    <3>1. DOMAIN NoTraceFilters = TraceFilterFields
      BY SMT DEF NoTraceFilters, TraceFilterFields
    <3>2. ASSUME f \in TraceFilters PROVE DOMAIN f = TraceFilterFields
      BY Zenon, <3>2 DEF TraceFilters, TraceFilterFields
    <3> QED BY Zenon, <2>1, <3>1, <3>2
  <2> QED BY Zenon, <1>1, <1>2, <2>2, <2>3 DEF TraceListInv
<1>5. CASE SelectTrace \/ BackToTraces
  <2>1. PICK e : ui' = [ui EXCEPT !.selected = e, !.clicked = e] \/ ui' = [ui EXCEPT !.selected = 0]
    BY Zenon, <1>5 DEF SelectTrace, BackToTraces, Set
  <2>2. /\ DOMAIN ui' = TraceListFields /\ ui'.newest = ui.newest /\ ui'.filters = ui.filters
        /\ ui'.selected \in {0, ui'.clicked}
    BY Zenon, <1>2, <2>1 DEF TraceListFields
  <2> QED BY Zenon, <1>1, <1>2, <2>2 DEF TraceListInv
<1>6. CASE TracesRefetched
  <2>1. ui' = [ui EXCEPT !.newest = @ + 1] /\ ui.newest < Len(EventLog)
    BY Zenon, <1>6 DEF TracesRefetched, Set
  <2>2. /\ DOMAIN ui' = TraceListFields /\ ui'.newest = ui.newest + 1 /\ ui'.filters = ui.filters
        /\ ui'.selected = ui.selected /\ ui'.clicked = ui.clicked
    BY Zenon, <1>2, <2>1 DEF TraceListFields
  <2>3. Len(EventLog) = 4
    BY SMT DEF EventLog
  <2>4. ui'.newest \in Fetched .. Len(EventLog)
    BY SMT, <1>2, <2>1, <2>2, <2>3 DEF Fetched
  <2> QED BY Zenon, <1>1, <1>2, <2>2, <2>4 DEF TraceListInv
<1> QED BY Zenon, <1>3, <1>4, <1>5, <1>6 DEF TraceListUser

\* The list opens without filters and with no trace chosen.
LEMMA TraceListOpens ==
  ASSUME OpenTraceList PROVE page' = "traceList" /\ Owned' /\ TraceListInv'
<1>1. page' = "traceList" /\ ui' = TraceListInit /\ Owned'
  BY SMT, OpensClean DEF OpenTraceList, Elsewhere
<1>2. /\ DOMAIN TraceListInit = TraceListFields /\ TraceListInit.filters = NoTraceFilters
      /\ TraceListInit.selected = 0 /\ TraceListInit.newest = Fetched
  BY SMT DEF TraceListInit, TraceListFields
<1>3. DOMAIN NoTraceFilters = TraceFilterFields /\ Fetched \in Fetched .. Len(EventLog)
  BY SMT DEF NoTraceFilters, TraceFilterFields, Fetched, EventLog
<1> QED BY Zenon, <1>1, <1>2, <1>3 DEF TraceListInv

\* So the filters find what they say, and the trace in detail is the one that was clicked.
LEMMA TraceListShows == ASSUME page = "traceList" => TraceListInv PROVE TracesAreFound
<1> SUFFICES ASSUME page = "traceList" PROVE TracesAreFound
  BY Zenon DEF TracesAreFound, OnTraceList
<1>1. /\ DOMAIN ui = TraceListFields /\ ui.newest \in Fetched .. Len(EventLog)
      /\ DOMAIN ui.filters = TraceFilterFields /\ ui.selected \in {0, ui.clicked}
  BY Zenon DEF TraceListInv
<1>2. \A e \in Traces(ui) : EventLog[e] \in TraceLogs
  <2>1. Len(EventLog) = 4
    BY SMT DEF EventLog
  <2>2. \A e \in Traces(ui) : e \in {1, 2, 3, 4}
    BY SMT, <1>1, <2>1 DEF Traces, Fetched
  <2>3. /\ EventLog[1] \in TraceLogs /\ EventLog[2] \in TraceLogs
        /\ EventLog[3] \in TraceLogs /\ EventLog[4] \in TraceLogs
    BY SMT DEF EventLog, TraceLogs
  <2> QED BY Zenon, <2>2, <2>3
<1>3. ASSUME NEW e \in TracesFiltered(ui), ui.filters.outcome # ""
      PROVE  (ui.filters.outcome = "error")
               = \E i \in DOMAIN Spans(EventLog[e]) : Spans(EventLog[e])[i].status = "error"
  <2>1. e \in Traces(ui) /\ ui.filters.outcome = TraceOutcome(e)
    BY Zenon, <1>3 DEF TracesFiltered
  <2>2. TraceIsError(EventLog[e])
          <=> {i \in DOMAIN Spans(EventLog[e]) : Spans(EventLog[e])[i].status = "error"} # {}
    BY Zenon, <1>2, <2>1, FailedSpans
  <2>3. ui.filters.outcome = "error" <=> TraceIsError(EventLog[e])
    BY Zenon, <2>1 DEF TraceOutcome
  <2> QED BY Zenon, <2>2, <2>3
<1>4. PICK found : found = {e \in Traces(ui) \cap ui.search \cap ui.filters.tool :
                              TotalDuration(EventLog[e]) >= ui.filters.minDuration}
  OBVIOUS
<1>5. ASSUME NEW o
      PROVE  TracesFiltered([ui EXCEPT !.filters.outcome = o])
               = {e \in found : o \in {"", TraceOutcome(e)}}
  <2>1. PICK v : v = [ui EXCEPT !.filters.outcome = o]
    OBVIOUS
  <2>2. /\ v.newest = ui.newest /\ v.search = ui.search /\ v.filters.tool = ui.filters.tool
        /\ v.filters.minDuration = ui.filters.minDuration /\ v.filters.outcome = o
    BY Zenon, <1>1, <2>1 DEF TraceListFields, TraceFilterFields
  <2>3. Traces(v) = Traces(ui)
    BY Zenon, <2>2 DEF Traces
  <2>4. TracesFiltered(v) = {e \in found : o \in {"", TraceOutcome(e)}}
    BY Zenon, <1>4, <2>2, <2>3 DEF TracesFiltered
  <2> QED BY Zenon, <2>1, <2>4
<1>6. /\ TracesFiltered([ui EXCEPT !.filters.outcome = "error"])
           = {e \in found : TraceOutcome(e) = "error"}
      /\ TracesFiltered([ui EXCEPT !.filters.outcome = "success"])
           = {e \in found : TraceOutcome(e) = "success"}
      /\ TracesFiltered([ui EXCEPT !.filters.outcome = ""]) = found
  BY Zenon, <1>5
<1>7. \A e \in found : TraceOutcome(e) \in {"error", "success"}
  BY Zenon DEF TraceOutcome
<1>8. /\ {e \in found : TraceOutcome(e) = "error"} \cup {e \in found : TraceOutcome(e) = "success"} = found
      /\ {e \in found : TraceOutcome(e) = "error"} \cap {e \in found : TraceOutcome(e) = "success"} = {}
  BY Zenon, <1>7
<1> QED BY Zenon, <1>1, <1>3, <1>6, <1>8 DEF TracesAreFound

-----------------------------------------------------------------------------
\* The invariant of the page that is mounted holds, if it is one of these.
BoardsInv ==
  /\ page = "errors" => ErrorsInv
  /\ page = "catalogue" => CatalogueInv
  /\ page = "explorer" => ExplorerInv
  /\ page = "alerts" => AlertsInv
  /\ page = "newPolicy" => WizardInv
  /\ page = "policy" => RulesInv
  /\ page = "playground" => PlaygroundInv
  /\ page = "developerPlayground" => DeveloperInv
  /\ page = "onboarding" => OnboardingInv
  /\ page = "limits" => LimitsInv
  /\ page = "signUp" => SignUpInv
  /\ page = "reset" => ResetInv
  /\ page = "mfa" => MfaInv
  /\ page = "incident" => IncidentInv
  /\ page = "request" => RequestInv
  /\ page = "traces" => TracesInv
  /\ page = "traceList" => TraceListInv

\* The pages of this module.
BoardPages ==
  {"errors", "catalogue", "explorer", "alerts", "newPolicy", "policy", "playground"
   , "developerPlayground", "onboarding", "limits", "signUp", "reset", "mfa", "incident"
   , "request", "traces", "traceList"}

\* What their users do and the answers that come to them.
BoardStep ==
  \/ ErrorsUser \/ ErrorsRefetched \/ CatalogueStep \/ ExplorerUser \/ ExplorerStep
  \/ AlertsUser \/ WizardUser \/ WizardStep \/ RulesUser \/ RulesStep \/ PlaygroundUser
  \/ PlaygroundStep \/ DeveloperUser \/ DeveloperStep \/ OnboardingUser \/ OnboardingStep
  \/ LimitsUser \/ SignUpUser \/ SignUpFails \/ ResetUser \/ MfaUser \/ MfaStep \/ IncidentUser
  \/ RequestUser \/ RequestTimer \/ TraceListUser \/ TracesRefetched

\* How they are opened.
OpenBoard ==
  \/ OpenErrors \/ OpenCatalogue \/ OpenExplorer \/ OpenAlerts \/ OpenNewPolicy \/ OpenPolicy
  \/ OpenPlayground \/ OpenDeveloper \/ OpenOnboarding \/ OpenLimits \/ OpenSignUp \/ OpenReset
  \/ OpenMfa \/ OpenIncident \/ OpenRequestPage \/ OpenTraces \/ OpenTraceList

\* None of these pages is away.
LEMMA BoardsApart == BoardPages \cap Away = {}
  BY SMT DEF BoardPages, Away, Elsewhere

\* The invariant of the page that is mounted next is all that BoardsInv asks for then.
LEMMA OneBoard ==
  /\ page' \notin BoardPages => BoardsInv'
  /\ page' \in Away => BoardsInv'
  /\ page' = "errors" /\ ErrorsInv' => BoardsInv'
  /\ page' = "catalogue" /\ CatalogueInv' => BoardsInv'
  /\ page' = "explorer" /\ ExplorerInv' => BoardsInv'
  /\ page' = "alerts" /\ AlertsInv' => BoardsInv'
  /\ page' = "newPolicy" /\ WizardInv' => BoardsInv'
  /\ page' = "policy" /\ RulesInv' => BoardsInv'
  /\ page' = "playground" /\ PlaygroundInv' => BoardsInv'
  /\ page' = "developerPlayground" /\ DeveloperInv' => BoardsInv'
  /\ page' = "onboarding" /\ OnboardingInv' => BoardsInv'
  /\ page' = "limits" /\ LimitsInv' => BoardsInv'
  /\ page' = "signUp" /\ SignUpInv' => BoardsInv'
  /\ page' = "reset" /\ ResetInv' => BoardsInv'
  /\ page' = "mfa" /\ MfaInv' => BoardsInv'
  /\ page' = "incident" /\ IncidentInv' => BoardsInv'
  /\ page' = "request" /\ RequestInv' => BoardsInv'
  /\ page' = "traces" /\ TracesInv' => BoardsInv'
  /\ page' = "traceList" /\ TraceListInv' => BoardsInv'
<1>1. page' \notin BoardPages => BoardsInv'
  BY SMT DEF BoardsInv, BoardPages
<1>2. page' \in Away => BoardsInv'
  BY Zenon, <1>1, BoardsApart
<1>3. page' = "errors" /\ ErrorsInv' => BoardsInv'
  BY SMT DEF BoardsInv
<1>4. page' = "catalogue" /\ CatalogueInv' => BoardsInv'
  BY SMT DEF BoardsInv
<1>5. page' = "explorer" /\ ExplorerInv' => BoardsInv'
  BY SMT DEF BoardsInv
<1>6. page' = "alerts" /\ AlertsInv' => BoardsInv'
  BY SMT DEF BoardsInv
<1>7. page' = "newPolicy" /\ WizardInv' => BoardsInv'
  BY SMT DEF BoardsInv
<1>8. page' = "policy" /\ RulesInv' => BoardsInv'
  BY SMT DEF BoardsInv
<1>9. page' = "playground" /\ PlaygroundInv' => BoardsInv'
  BY SMT DEF BoardsInv
<1>10. page' = "developerPlayground" /\ DeveloperInv' => BoardsInv'
  BY SMT DEF BoardsInv
<1>11. page' = "onboarding" /\ OnboardingInv' => BoardsInv'
  BY SMT DEF BoardsInv
<1>12. page' = "limits" /\ LimitsInv' => BoardsInv'
  BY SMT DEF BoardsInv
<1>13. page' = "signUp" /\ SignUpInv' => BoardsInv'
  BY SMT DEF BoardsInv
<1>14. page' = "reset" /\ ResetInv' => BoardsInv'
  BY SMT DEF BoardsInv
<1>15. page' = "mfa" /\ MfaInv' => BoardsInv'
  BY SMT DEF BoardsInv
<1>16. page' = "incident" /\ IncidentInv' => BoardsInv'
  BY SMT DEF BoardsInv
<1>17. page' = "request" /\ RequestInv' => BoardsInv'
  BY SMT DEF BoardsInv
<1>18. page' = "traces" /\ TracesInv' => BoardsInv'
  BY SMT DEF BoardsInv
<1>19. page' = "traceList" /\ TraceListInv' => BoardsInv'
  BY SMT DEF BoardsInv
<1> QED BY Zenon, <1>1, <1>2, <1>3, <1>4, <1>5, <1>6, <1>7, <1>8, <1>9, <1>10, <1>11, <1>12, <1>13, <1>14
   , <1>15, <1>16, <1>17, <1>18, <1>19

\* Every step of these pages keeps the invariant, and leads to the page of a server only if
\* that server exists.
LEMMA BoardsKeep ==
  ASSUME Owned, BoardsInv, page = "landing" => Landed, BoardStep
  PROVE  Owned' /\ BoardsInv' /\ page' \in BoardPages \cup Away /\ (page' = "landing" => Landed')
<1> DEFINE Goal == Owned' /\ BoardsInv' /\ page' \in BoardPages \cup Away /\ (page' = "landing" => Landed')
<1>1. "landing" \in Away /\ BoardPages \cap Away = {}
  BY Zenon, BoardsApart DEF Away
<1>2. ASSUME ErrorsUser \/ ErrorsRefetched PROVE Goal
  <2>1. Owned' /\ page' = "errors" /\ ErrorsInv'
    BY Zenon, <1>2, ErrorsKeep DEF BoardsInv
  <2>2. page' \in BoardPages /\ BoardsInv'
    BY Zenon, <2>1, OneBoard DEF BoardPages
  <2> QED BY Zenon, <1>1, <2>1, <2>2
<1>3. ASSUME CatalogueStep PROVE Goal
  <2>1. Owned' /\ page' = "catalogue" /\ CatalogueInv'
    BY Zenon, <1>3, CatalogueKeeps DEF BoardsInv
  <2>2. page' \in BoardPages /\ BoardsInv'
    BY Zenon, <2>1, OneBoard DEF BoardPages
  <2> QED BY Zenon, <1>1, <2>1, <2>2
<1>4. ASSUME ExplorerUser \/ ExplorerStep PROVE Goal
  <2>1. Owned' /\ page' = "explorer" /\ ExplorerInv'
    BY Zenon, <1>4, ExplorerKeeps DEF BoardsInv
  <2>2. page' \in BoardPages /\ BoardsInv'
    BY Zenon, <2>1, OneBoard DEF BoardPages
  <2> QED BY Zenon, <1>1, <2>1, <2>2
<1>5. ASSUME AlertsUser PROVE Goal
  <2>1. Owned' /\ page' = "alerts" /\ AlertsInv'
    BY Zenon, <1>5, AlertsKeep DEF BoardsInv
  <2>2. page' \in BoardPages /\ BoardsInv'
    BY Zenon, <2>1, OneBoard DEF BoardPages
  <2> QED BY Zenon, <1>1, <2>1, <2>2
<1>6. ASSUME WizardUser \/ WizardStep PROVE Goal
  <2>1. page' \in {"newPolicy", Elsewhere} /\ Owned' /\ (page' = "newPolicy" => WizardInv')
    BY Zenon, <1>6, WizardKeeps DEF BoardsInv
  <2>2. page' \in BoardPages \cup Away
    BY SMT, <2>1 DEF BoardPages, Away
  <2> QED BY Zenon, <1>1, <2>1, <2>2, OneBoard DEF Away, Elsewhere
<1>7. ASSUME RulesUser \/ RulesStep PROVE Goal
  <2>1. /\ page' \in {"policy"} \cup Away /\ Owned'
        /\ page' = "policy" => RulesInv'
        /\ page' = "landing" => Landed'
    BY Zenon, <1>7, RulesKeep DEF BoardsInv
  <2>2. page' \in BoardPages \cup Away
    BY SMT, <2>1 DEF BoardPages, Away
  <2> QED BY Zenon, <1>1, <2>1, <2>2, OneBoard DEF Away, Elsewhere
<1>8. ASSUME PlaygroundUser \/ PlaygroundStep PROVE Goal
  <2>1. Owned' /\ page' = "playground" /\ PlaygroundInv'
    BY Zenon, <1>8, PlaygroundKeeps DEF BoardsInv
  <2>2. page' \in BoardPages /\ BoardsInv'
    BY Zenon, <2>1, OneBoard DEF BoardPages
  <2> QED BY Zenon, <1>1, <2>1, <2>2
<1>9. ASSUME DeveloperUser \/ DeveloperStep PROVE Goal
  <2>1. Owned' /\ page' = "developerPlayground" /\ DeveloperInv'
    BY Zenon, <1>9, DeveloperKeeps DEF BoardsInv
  <2>2. page' \in BoardPages /\ BoardsInv'
    BY Zenon, <2>1, OneBoard DEF BoardPages
  <2> QED BY Zenon, <1>1, <2>1, <2>2
<1>10. ASSUME OnboardingUser \/ OnboardingStep PROVE Goal
  <2>1. page' \in {"onboarding", Elsewhere} /\ Owned' /\ (page' = "onboarding" => OnboardingInv')
    BY Zenon, <1>10, OnboardingKeeps DEF BoardsInv
  <2>2. page' \in BoardPages \cup Away
    BY SMT, <2>1 DEF BoardPages, Away
  <2> QED BY Zenon, <1>1, <2>1, <2>2, OneBoard DEF Away, Elsewhere
<1>11. ASSUME LimitsUser PROVE Goal
  <2>1. Owned' /\ page' = "limits" /\ LimitsInv'
    BY Zenon, <1>11, LimitsKeep DEF BoardsInv
  <2>2. page' \in BoardPages /\ BoardsInv'
    BY Zenon, <2>1, OneBoard DEF BoardPages
  <2> QED BY Zenon, <1>1, <2>1, <2>2
<1>12. ASSUME SignUpUser \/ SignUpFails PROVE Goal
  <2>1. Owned' /\ page' = "signUp" /\ SignUpInv'
    BY Zenon, <1>12, SignUpKeeps DEF BoardsInv
  <2>2. page' \in BoardPages /\ BoardsInv'
    BY Zenon, <2>1, OneBoard DEF BoardPages
  <2> QED BY Zenon, <1>1, <2>1, <2>2
<1>13. ASSUME ResetUser PROVE Goal
  <2>1. Owned' /\ page' = "reset" /\ ResetInv'
    BY Zenon, <1>13, ResetKeeps DEF BoardsInv
  <2>2. page' \in BoardPages /\ BoardsInv'
    BY Zenon, <2>1, OneBoard DEF BoardPages
  <2> QED BY Zenon, <1>1, <2>1, <2>2
<1>14. ASSUME MfaUser \/ MfaStep PROVE Goal
  <2>1. Owned' /\ page' = "mfa" /\ MfaInv'
    BY Zenon, <1>14, MfaKeeps DEF BoardsInv
  <2>2. page' \in BoardPages /\ BoardsInv'
    BY Zenon, <2>1, OneBoard DEF BoardPages
  <2> QED BY Zenon, <1>1, <2>1, <2>2
<1>15. ASSUME IncidentUser PROVE Goal
  <2>1. Owned' /\ page' = "incident" /\ IncidentInv'
    BY Zenon, <1>15, IncidentKeeps DEF BoardsInv
  <2>2. page' \in BoardPages /\ BoardsInv'
    BY Zenon, <2>1, OneBoard DEF BoardPages
  <2> QED BY Zenon, <1>1, <2>1, <2>2
<1>16. ASSUME RequestUser \/ RequestTimer PROVE Goal
  <2>1. Owned' /\ page' = "request" /\ RequestInv'
    BY Zenon, <1>16, RequestKeeps DEF BoardsInv
  <2>2. page' \in BoardPages /\ BoardsInv'
    BY Zenon, <2>1, OneBoard DEF BoardPages
  <2> QED BY Zenon, <1>1, <2>1, <2>2
<1>17. ASSUME TraceListUser \/ TracesRefetched PROVE Goal
  <2>1. Owned' /\ page' = "traceList" /\ TraceListInv'
    BY Zenon, <1>17, TraceListKeeps DEF BoardsInv
  <2>2. page' \in BoardPages /\ BoardsInv'
    BY Zenon, <2>1, OneBoard DEF BoardPages
  <2> QED BY Zenon, <1>1, <2>1, <2>2
<1> QED BY Zenon, <1>2, <1>3, <1>4, <1>5, <1>6, <1>7, <1>8, <1>9, <1>10, <1>11, <1>12, <1>13, <1>14, <1>15
   , <1>16, <1>17 DEF BoardStep

\* Opening one of them establishes it.
LEMMA BoardsOpen ==
  ASSUME OpenBoard PROVE Owned' /\ BoardsInv' /\ page' \in BoardPages
<1> DEFINE Goal == Owned' /\ BoardsInv' /\ page' \in BoardPages
<1>1. ASSUME OpenErrors PROVE Goal
  BY Zenon, <1>1, ErrorsOpen, OneBoard DEF BoardPages
<1>2. ASSUME OpenCatalogue PROVE Goal
  BY Zenon, <1>2, CatalogueOpens, OneBoard DEF BoardPages
<1>3. ASSUME OpenExplorer PROVE Goal
  BY Zenon, <1>3, ExplorerOpens, OneBoard DEF BoardPages
<1>4. ASSUME OpenAlerts PROVE Goal
  BY Zenon, <1>4, AlertsOpen, OneBoard DEF BoardPages
<1>5. ASSUME OpenNewPolicy PROVE Goal
  BY Zenon, <1>5, WizardOpens, OneBoard DEF BoardPages
<1>6. ASSUME OpenPolicy PROVE Goal
  BY Zenon, <1>6, RulesOpen, OneBoard DEF BoardPages
<1>7. ASSUME OpenPlayground PROVE Goal
  BY Zenon, <1>7, PlaygroundOpens, OneBoard DEF BoardPages
<1>8. ASSUME OpenDeveloper PROVE Goal
  BY Zenon, <1>8, DeveloperOpens, OneBoard DEF BoardPages
<1>9. ASSUME OpenOnboarding PROVE Goal
  BY Zenon, <1>9, OnboardingOpens, OneBoard DEF BoardPages
<1>10. ASSUME OpenLimits PROVE Goal
  BY Zenon, <1>10, LimitsOpen, OneBoard DEF BoardPages
<1>11. ASSUME OpenSignUp PROVE Goal
  BY Zenon, <1>11, SignUpOpens, OneBoard DEF BoardPages
<1>12. ASSUME OpenReset PROVE Goal
  BY Zenon, <1>12, ResetOpens, OneBoard DEF BoardPages
<1>13. ASSUME OpenMfa PROVE Goal
  BY Zenon, <1>13, MfaOpens, OneBoard DEF BoardPages
<1>14. ASSUME OpenIncident PROVE Goal
  BY Zenon, <1>14, IncidentOpens, OneBoard DEF BoardPages
<1>15. ASSUME OpenRequestPage PROVE Goal
  BY Zenon, <1>15, RequestOpens, OneBoard DEF BoardPages
<1>16. ASSUME OpenTraces PROVE Goal
  BY Zenon, <1>16, TracesOpens, OneBoard DEF BoardPages
<1>17. ASSUME OpenTraceList PROVE Goal
  BY Zenon, <1>17, TraceListOpens, OneBoard DEF BoardPages
<1> QED BY Zenon, <1>1, <1>2, <1>3, <1>4, <1>5, <1>6, <1>7, <1>8, <1>9, <1>10, <1>11, <1>12, <1>13, <1>14
   , <1>15, <1>16, <1>17 DEF OpenBoard

\* A step that changes nothing keeps it.
LEMMA BoardsStay ==
  ASSUME BoardsInv, page' = page, ui' = ui, flight' = flight PROVE BoardsInv'
<1>1. ErrorsInv => ErrorsInv'
  BY Zenon DEF ErrorsInv
<1>2. CatalogueInv => CatalogueInv'
  BY Zenon DEF CatalogueInv
<1>3. ExplorerInv => ExplorerInv'
  BY Zenon DEF ExplorerInv
<1>4. AlertsInv => AlertsInv'
  BY Zenon DEF AlertsInv
<1>5. WizardInv => WizardInv'
  BY Zenon DEF WizardInv
<1>6. RulesInv => RulesInv'
  BY Zenon DEF RulesInv
<1>7. PlaygroundInv => PlaygroundInv'
  BY Zenon DEF PlaygroundInv
<1>8. DeveloperInv => DeveloperInv'
  BY Zenon DEF DeveloperInv
<1>9. OnboardingInv => OnboardingInv'
  BY Zenon DEF OnboardingInv
<1>10. LimitsInv => LimitsInv'
  BY Zenon DEF LimitsInv
<1>11. SignUpInv => SignUpInv'
  BY Zenon DEF SignUpInv
<1>12. ResetInv => ResetInv'
  BY Zenon DEF ResetInv
<1>13. MfaInv => MfaInv'
  BY Zenon DEF MfaInv
<1>14. IncidentInv => IncidentInv'
  BY Zenon DEF IncidentInv
<1>15. RequestInv => RequestInv'
  BY Zenon DEF RequestInv
<1>16. TracesInv => TracesInv'
  BY Zenon DEF TracesInv
<1>17. TraceListInv => TraceListInv'
  BY Zenon DEF TraceListInv
<1> QED BY SMT, <1>1, <1>2, <1>3, <1>4, <1>5, <1>6, <1>7, <1>8, <1>9, <1>10, <1>11, <1>12, <1>13, <1>14
   , <1>15, <1>16, <1>17 DEF BoardsInv

\* The invariant implies what these pages promise.
LEMMA BoardsShow ==
  ASSUME Owned, BoardsInv
  PROVE  /\ StatesFollowGroups /\ CatalogueIsCurrent /\ RulesAreAsWanted /\ StarsArePerServer
         /\ ToolsAreOfServer /\ PublishedAsExplained /\ StepsAreComplete
         /\ SavesWhatWasEdited /\ DestructiveIsConfirmed /\ ExamplesComeBack
         /\ RunsSelectedTool /\ KeyIsKept /\ RefreshResumes /\ RegistrationFitsFlow
         /\ ResetIsAgreed /\ MfaSettles /\ LimitsAreAsSaved /\ TimelineTellsStatus
         /\ FieldsHoldTheirText /\ RemovedAreGone /\ ConfirmationEnds
         /\ TraceEndsWhereItFailed /\ TracesAreFound
<1>1. StatesFollowGroups /\ CatalogueIsCurrent /\ RulesAreAsWanted /\ StarsArePerServer /\ ToolsAreOfServer
  BY Zenon, ErrorsShow, CatalogueShows, AlertsShow, ExplorerShows DEF BoardsInv
<1>2. PublishedAsExplained /\ StepsAreComplete /\ SavesWhatWasEdited
  BY Zenon, WizardShows, RulesShow DEF BoardsInv
<1>3. DestructiveIsConfirmed /\ ExamplesComeBack /\ RunsSelectedTool
  BY Zenon, PlaygroundShows, DeveloperShows DEF BoardsInv
<1>4. KeyIsKept /\ RefreshResumes
  BY Zenon, OnboardingShows DEF BoardsInv
<1>5. RegistrationFitsFlow /\ ResetIsAgreed /\ MfaSettles /\ LimitsAreAsSaved
  BY Zenon, SignUpShows, ResetShows, MfaShows, LimitsShow DEF BoardsInv
<1>6. TimelineTellsStatus /\ FieldsHoldTheirText /\ RemovedAreGone /\ ConfirmationEnds
  BY Zenon, IncidentShows, RequestShows DEF BoardsInv
<1>7. TraceEndsWhereItFailed /\ TracesAreFound
  BY Zenon, TracesShows, TraceListShows DEF BoardsInv
<1> QED BY <1>1, <1>2, <1>3, <1>4, <1>5, <1>6, <1>7
=============================================================================
