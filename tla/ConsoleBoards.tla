--------------------------- MODULE ConsoleBoards ---------------------------
(***************************************************************************)
(* Three pages that keep lists of their own: the errors page               *)
(* (dashboard/observability/errors), with a status for each group of the   *)
(* errors that are fetched again and again; the tool catalogue             *)
(* (dashboard/tools), which collects the tools of all servers; and the     *)
(* alert rules (dashboard/alerts), which live in the browser only.         *)
(***************************************************************************)
EXTENDS Console, Integers

CONSTANTS
  ErrorKeys,     \* event type, server and tool of an error, which make a group
  BoardServers,  \* servers of the catalogue
  MaxRules,      \* bound: alert rules that are created
  MaxSeen        \* bound: errors of one group, and versions of a server's tools

ASSUME BoardsAssumption == IsFiniteSet(ErrorKeys) /\ ErrorKeys \subseteq Nat /\ MaxRules \in Nat /\ MaxSeen \in Nat

-----------------------------------------------------------------------------
(* Errors. logs[k] is the number of errors with key k among the rows that  *)
(* the query returned. local is what the user set, by group. said is a     *)
(* history: what the user set last while they looked at each group.        *)

OpenState == [status |-> "open", owner |-> 0, muted |-> FALSE]

ErrorsInit ==
  [logs |-> [k \in ErrorKeys |-> 0], local |-> [k \in ErrorKeys |-> OpenState], showMuted |-> FALSE,
   only |-> "", said |-> [k \in ErrorKeys |-> OpenState]]

OnErrors == page = "errors"

OpenErrors == Open("errors", ErrorsInit)

\* groupErrors: the groups that there are. The page lists the most frequent first; an order
\* that only the layout depends on, for what is kept of a group is kept under its key.
GroupErrors(u) == {k \in ErrorKeys : u.logs[k] > 0}

\* The key under which the state of a group is kept.
StateKey(u, k) == k

GetState(u, k) == u.local[StateKey(u, k)]

\* filtered, with the filters on the state; a muted group's status is not "muted".
ShownGroups(u) ==
  {k \in GroupErrors(u) : /\ u.only # "" => GetState(u, k).status = u.only
                          /\ u.showMuted \/ ~GetState(u, k).muted}

\* updateState, from the buttons of a card that is shown.
UpdateState(k, s) ==
  /\ OnErrors /\ k \in ShownGroups(ui)
  /\ Set([ui EXCEPT !.local[StateKey(ui, k)] = s, !.said[k] = s])

ResolveOrReopen(k) ==
  UpdateState(k, [GetState(ui, k) EXCEPT !.status = IF @ = "resolved" THEN "open" ELSE "resolved"])
MuteOrUnmute(k) == UpdateState(k, [GetState(ui, k) EXCEPT !.muted = ~@])
AssignOwner(k) == \E o \in 0 .. 1 : UpdateState(k, [GetState(ui, k) EXCEPT !.owner = o])

SetErrorFilters ==
  /\ OnErrors
  /\ \/ Set([ui EXCEPT !.showMuted = ~@])
     \/ \E f \in {"", "open", "resolved", "muted"} : f # ui.only /\ Set([ui EXCEPT !.only = f])

ErrorsRefetched ==
  /\ OnErrors
  /\ \E k \in ErrorKeys, n \in 0 .. MaxSeen : n # ui.logs[k] /\ Set([ui EXCEPT !.logs[k] = n])

ErrorsUser ==
  SetErrorFilters \/ \E k \in ErrorKeys : OnErrors /\ (ResolveOrReopen(k) \/ MuteOrUnmute(k) \/ AssignOwner(k))

\* A group shows the state that the user gave to it, although groups come, go and change places
\* whenever the log is fetched; and each group is open or resolved, so that the counts on the
\* page add up to the groups.
StatesFollowGroups ==
  OnErrors => \A k \in GroupErrors(ui) :
                /\ GetState(ui, k) = ui.said[k]
                /\ GetState(ui, k).status \in {"open", "resolved"}

-----------------------------------------------------------------------------
(* The catalogue. listed is the servers query's copy; each listed server   *)
(* has a fetcher, a component that reports what its query has: query[s] is *)
(* loading, error, or the version of the tools, and got the servers whose  *)
(* query ever had tools. results is what was reported. gone is a history:  *)
(* servers that left the list meanwhile.                                   *)

Loading == -1
Failed == -2
Unreported == -3

CatalogueInit ==
  [listed |-> {}, query |-> [s \in BoardServers |-> Loading], got |-> {},
   results |-> [s \in BoardServers |-> Unreported], gone |-> {}]

OnCatalogue == page = "catalogue"

OpenCatalogue == Open("catalogue", CatalogueInit)

StatusOf(r) == IF r >= 0 THEN "success" ELSE IF r = Loading THEN "loading" ELSE "error"

\* mutant: a report with the same status is taken for the same report
HandleServerResultByStatus(old, new) ==
  IF old # Unreported /\ StatusOf(old) = StatusOf(new) THEN old ELSE new

\* handleServerResult: the old entry is kept if nothing changed, or the page would be rendered
\* for ever; two errors are the same, two lists of tools only if they are one.
HandleServerResult(old, new) ==
  IF old # Unreported /\ StatusOf(old) = StatusOf(new) /\ (StatusOf(new) = "success" => old = new)
  THEN old ELSE new

\* The fetchers' effects after the page was rendered with u.
Reported(u) ==
  [u EXCEPT !.results = [s \in BoardServers |->
     IF s \in u.listed THEN HandleServerResult(u.results[s], u.query[s]) ELSE u.results[s]]]

CatalogueListed ==
  /\ OnCatalogue
  /\ \E L \in SUBSET BoardServers :
       /\ L # ui.listed
       /\ Set(Reported([ui EXCEPT !.listed = L, !.gone = (@ \cup ui.listed) \ L]))

\* A server's query is answered, or fails, which hides tools that it had; the answer may come
\* when the server is no longer listed.
CatalogueFetched ==
  /\ OnCatalogue
  /\ \E s \in ui.listed \cup ui.gone, r \in {Failed} \cup 0 .. MaxSeen :
       /\ r # ui.query[s]
       /\ Set(Reported([ui EXCEPT !.query[s] = r, !.got = IF r = Failed THEN @ ELSE @ \cup {s}]))

\* A fetch after a failed one counts as loading only if the query never had tools.
CatalogueRetried ==
  /\ OnCatalogue
  /\ \E s \in ui.listed : /\ ui.query[s] = Failed /\ s \notin ui.got
                          /\ Set(Reported([ui EXCEPT !.query[s] = Loading]))

CatalogueStep == CatalogueListed \/ CatalogueFetched \/ CatalogueRetried

\* allTools, by server and version of its tools.
AllTools(u) == {<<s, u.results[s]>> : s \in {t \in BoardServers : u.results[t] >= 0}}
LoadingServers(u) == {s \in u.listed : u.results[s] \in {Unreported, Loading}}
ErrorServers(u) == {s \in u.listed : u.results[s] = Failed}

\* The catalogue has the tools that each server's query has now, says so of each server whose
\* tools it does not have, and has no others than those of servers that have left the list
\* since: their reports are never removed.
CatalogueIsCurrent ==
  OnCatalogue =>
    /\ \A s \in ui.listed \ (LoadingServers(ui) \cup ErrorServers(ui)) : <<s, ui.query[s]>> \in AllTools(ui)
    /\ \A tool \in AllTools(ui) : tool[1] \in ui.listed \cup ui.gone
    /\ \A s \in ui.listed : s \in ErrorServers(ui) <=> ui.query[s] = Failed

-----------------------------------------------------------------------------
(* Alert rules, whose order on the page is left out. A form is the value   *)
(* that it gives to the rule, 0 while the name is blank. The dialogs cover *)
(* the page for the pointer but do not trap the focus, so the cards behind *)
(* them still act. The edit dialog has no key: asked to edit another rule  *)
(* while it is open, it keeps its form. wanted is a history: for each rule *)
(* the value saved for it and whether the user wants it enabled; deleted   *)
(* the rules that they removed.                                            *)

NoRule == 0
NoForm == -1

AlertsInit ==
  [rules |-> {}, made |-> 0, create |-> NoForm, editRule |-> NoRule, form |-> NoForm, only |-> "",
   wanted |-> [r \in 1 .. MaxRules |-> [value |-> NoForm, enabled |-> FALSE]], deleted |-> {}]

OnAlerts == page = "alerts"

OpenAlerts == Open("alerts", AlertsInit)

\* The rules on the page: status is "ok" or "silenced", for nothing here makes a rule fire.
RuleIds(u) == {r.id : r \in u.rules}
RuleShown(u, r) == u.only = "" \/ r.status = u.only
FilteredRules(u) == {r \in u.rules : RuleShown(u, r)}

EditForms ==
  /\ OnAlerts
  /\ \E v \in 0 .. MaxSeen :
       \/ ui.create # NoForm /\ v # ui.create /\ Set([ui EXCEPT !.create = v])
       \/ ui.editRule # NoRule /\ v # ui.form /\ Set([ui EXCEPT !.form = v])

ShowCreate == OnAlerts /\ ui.create = NoForm /\ Set([ui EXCEPT !.create = 0])

\* addRule and the dialog's onClose.
AddRule ==
  /\ OnAlerts /\ ui.create > 0 /\ ui.made < MaxRules
  /\ LET id == ui.made + 1
     IN  Set([ui EXCEPT !.made = id, !.create = NoForm, !.wanted[id] = [value |-> ui.create, enabled |-> TRUE],
                        !.rules = @ \cup {[id |-> id, value |-> ui.create, enabled |-> TRUE, status |-> "ok"]}])

\* setEditRule(rule): the form is taken from the rule only when the dialog is mounted.
EditRule ==
  /\ OnAlerts
  /\ \E r \in FilteredRules(ui) :
       Set([ui EXCEPT !.editRule = r.id, !.form = IF ui.editRule = NoRule THEN r.value ELSE @])

\* What saveRule makes of the rule r: the form's values, the rest as it is now.
RuleSaved(r, u) == [r EXCEPT !.value = u.form]

CloseEdit(u) == [u EXCEPT !.editRule = NoRule, !.form = NoForm]

SaveRule ==
  /\ OnAlerts /\ ui.editRule # NoRule /\ ui.form > 0
  /\ Set(CloseEdit([ui EXCEPT
       !.rules = {IF r.id = ui.editRule THEN RuleSaved(r, ui) ELSE r : r \in @},
       !.wanted[ui.editRule].value = ui.form]))

CancelRule ==
  /\ OnAlerts
  /\ \/ ui.create # NoForm /\ Set([ui EXCEPT !.create = NoForm])
     \/ ui.editRule # NoRule /\ Set(CloseEdit(ui))

DeleteRule ==
  /\ OnAlerts
  /\ \E r \in FilteredRules(ui) :
       Set([ui EXCEPT !.rules = {x \in @ : x.id # r.id}, !.deleted = @ \cup {r.id}])

\* What toggleRule makes of the rule r.
RuleToggled(r) == [r EXCEPT !.enabled = ~r.enabled, !.status = IF ~r.enabled THEN "ok" ELSE "silenced"]

ToggleRule ==
  /\ OnAlerts
  /\ \E r \in FilteredRules(ui) :
       Set([ui EXCEPT !.wanted[r.id].enabled = ~@,
                      !.rules = {IF x.id = r.id THEN RuleToggled(x) ELSE x : x \in @}])

FilterRules ==
  OnAlerts /\ \E f \in {"", "ok", "silenced"} : f # ui.only /\ Set([ui EXCEPT !.only = f])

AlertsUser ==
  \/ EditForms \/ ShowCreate \/ AddRule \/ EditRule \/ SaveRule \/ CancelRule
  \/ DeleteRule \/ ToggleRule \/ FilterRules

\* A rule that is switched off or deleted while it is being edited stays so when the form is
\* saved: the page has each rule that was created and not deleted, once, with the values last
\* saved for it, and silenced exactly if it was last switched off.
RulesAreAsWanted ==
  OnAlerts =>
    /\ RuleIds(ui) = (1 .. ui.made) \ ui.deleted
    /\ \A r, s \in ui.rules : r.id = s.id => r = s
    /\ \A r \in ui.rules : /\ r.value = ui.wanted[r.id].value /\ r.enabled = ui.wanted[r.id].enabled
                           /\ r.status = "silenced" <=> ~r.enabled

-----------------------------------------------------------------------------
(* The tool explorer (developer/tools). got has what the query of each     *)
(* server's tools has: nothing yet, an error or a list; slug is 0 if no    *)
(* server is selected. starred is a history: the user's favourites.        *)

ExplorerTools == 1 .. 3
DemoTools == {3}
NoList == {0}
ListError == {-1}
\* inferCategory
CategoryOf(t) == IF t = 1 THEN "Memory" ELSE "General"

ExplorerInit ==
  [slug |-> 0, got |-> [s \in BoardServers |-> NoList], favorites |-> {<<1, 1>>}, starred |-> {<<1, 1>>},
   category |-> "All", onlyFavorites |-> FALSE, detail |-> 0]

OnExplorer == page = "explorer"

OpenExplorer == Open("explorer", ExplorerInit)

FetchedTools(u) == u.got[u.slug]

\* tools: the demo ones if the server has none.
ExplorerList(u) ==
  IF u.slug = 0 \/ FetchedTools(u) \in {NoList, ListError} THEN {}
  ELSE IF FetchedTools(u) = {} THEN DemoTools ELSE FetchedTools(u)

IsFavorite(u, t) == <<u.slug, t>> \in u.favorites

\* filtered: a category stays chosen when a server without it is selected.
ExplorerShown(u) ==
  {t \in ExplorerList(u) : u.category \in {"All", CategoryOf(t)} /\ (u.onlyFavorites => IsFavorite(u, t))}

\* A click on the selected server deselects it. The drawer covers the page for the pointer but
\* does not trap the focus; it is hidden, not closed, while no server is selected.
PickServer ==
  OnExplorer /\ \E s \in BoardServers : Set([ui EXCEPT !.slug = IF @ = s THEN 0 ELSE s])

\* toggleFavorite
ToggledFavorite(u, t) ==
  IF IsFavorite(u, t) THEN u.favorites \ {<<u.slug, t>>} ELSE u.favorites \cup {<<u.slug, t>>}

\* The star, of a card or of the open drawer.
ToggleFavorite ==
  /\ OnExplorer /\ ui.slug # 0
  /\ \E t \in (ExplorerShown(ui) \cup {ui.detail}) \ {0} :
       Set([ui EXCEPT !.favorites = ToggledFavorite(ui, t),
                      !.starred = IF <<ui.slug, t>> \in @ THEN @ \ {<<ui.slug, t>>} ELSE @ \cup {<<ui.slug, t>>}])

SetCategory ==
  /\ OnExplorer /\ ExplorerList(ui) # {}
  /\ \E c \in {"All"} \cup {CategoryOf(t) : t \in ExplorerList(ui)} : Set([ui EXCEPT !.category = c])
ShowFavoritesOnly ==
  OnExplorer /\ ui.slug # 0 /\ Set([ui EXCEPT !.onlyFavorites = ~@])
OpenDetail == OnExplorer /\ \E t \in ExplorerShown(ui) : Set([ui EXCEPT !.detail = t])
CloseDetail == OnExplorer /\ ui.slug # 0 /\ ui.detail # 0 /\ Set([ui EXCEPT !.detail = 0])

ExplorerUser ==
  PickServer \/ ToggleFavorite \/ SetCategory \/ ShowFavoritesOnly \/ OpenDetail \/ CloseDetail

\* The query of the selected server is answered, or fails twice; also a query that was started
\* for a server that is no longer selected.
ToolsFetched ==
  /\ OnExplorer
  /\ \E s \in BoardServers, tools \in {{}, {1, 2}, {2}} :
       (ui.slug = s \/ ui.got[s] # NoList) /\ Set([ui EXCEPT !.got[s] = tools])
ToolsFail ==
  /\ OnExplorer /\ ui.slug # 0 /\ ui.got[ui.slug] \in {NoList, {}}
  /\ Set([ui EXCEPT !.got[ui.slug] = ListError])

ExplorerStep == ToolsFetched \/ ToolsFail

\* The tools on screen are tools of the selected server, whichever server was looked at before
\* and whichever answer came last; if it has none, they are the demo tools.
ToolsAreOfServer ==
  OnExplorer /\ ExplorerShown(ui) # {} =>
    /\ ui.got[ui.slug] \notin {NoList, ListError}
    /\ ExplorerShown(ui) \subseteq (IF ui.got[ui.slug] = {} THEN DemoTools ELSE ui.got[ui.slug])

\* A star belongs to a tool of one server: the tool of the same name on another server keeps
\* its own, also when the list was filtered by it or the drawer was open.
StarsArePerServer == OnExplorer => ui.favorites = ui.starred

=============================================================================
