---------------------------- MODULE ConsoleCache ----------------------------
(***************************************************************************)
(* The console's copy of what the backend holds: one query of the          *)
(* QueryClient of providers/query-provider.tsx, the pages that show it and *)
(* the handlers that write what it reads. Versions number the states of    *)
(* the tables behind the query; version 0 is the empty table. react-query  *)
(* itself is modelled from how the console uses it.                        *)
(***************************************************************************)
EXTENDS Endpoints, FiniteSets

CONSTANTS
  Watched,     \* the queries of this instance; a behaviour is about one of them
  NoData,      \* no version: nothing was fetched or read yet
  MaxVersion,  \* bound: writes to the tables behind the query
  MaxJobs      \* bound: handlers in flight

ASSUME CacheAssumption ==
  /\ Watched \subseteq Queries
  /\ NoData \notin Nat
  /\ MaxVersion \in Nat \ {0}
  /\ MaxJobs \in Nat

VARIABLES
  query,     \* the query that is watched
  db,        \* the version that the backend holds
  entry,     \* the cached query: its data, whether it is stale and whether its last fetch failed
  fetch,     \* its fetch: running, the version that the backend read for it, attempts
  late,      \* the version in an answer to a cancelled fetch that is still on its way
  route,     \* the page that is open
  jobs,      \* the handlers that await an answer
  own,       \* history: the newest version that a handler wrote and saw refreshed
  missed     \* history: a refresh may have come to nothing, and no fetch was started since

cacheVars == <<query, db, entry, fetch, late, route, jobs, own, missed>>

Versions == 0 .. MaxVersion

-----------------------------------------------------------------------------
(* The pages: the queries that they mount, those that they wait for before *)
(* they show anything else than a placeholder, those for which they say    *)
(* that there is nothing, and those whose failure they report. A page      *)
(* inside a shell also mounts the queries of NavShell and CommandPalette.  *)
(* polls: the queries that it fetches at intervals while its automatic     *)
(* refresh is on.                                                          *)

Shell == {ListServers, ListApiKeys, ListRoles}

PageOf(mounts, waits, nothing, reports) ==
  [mounts |-> mounts \cup Shell, waits |-> waits, nothing |-> nothing, reports |-> reports,
   polls |-> {}]

\* The usual page: it shows one list.
ListOf(q, others) == PageOf({q} \cup others, {q}, {q}, {})

HomePage ==
  LET all == {ListServers, ListApiKeys, ListAuditLogs("50"), ListPolicies}
  IN  PageOf(all, all, {ListServers, ListAuditLogs("50")}, {})
\* mutant: the page does not wait for its list
ServersPageHasty == PageOf({ListServers}, {}, {ListServers}, {})

ServersPage == ListOf(ListServers, {})
\* A server's page, on its first tab or the one with the settings, and its other tabs.
ServerPage == PageOf({GetServer}, {GetServer}, {}, {GetServer})
ServerTab(q, reports) == PageOf({GetServer, q}, {GetServer, q}, {q}, {GetServer} \cup reports)
ToolsTab == ServerTab(McpTools, {McpTools})
LogsTab == ServerTab(ListAuditLogs("server50"), {})
TrafficTab == ServerTab(ListAuditLogs("server200"), {})
NewServerPage == PageOf({}, {}, {}, {})
KeysPage == ListOf(ListApiKeys, {ListServers})
PoliciesPage ==
  PageOf({ListPolicies, ListRoles}, {ListPolicies, ListRoles}, {ListPolicies, ListRoles}, {})
PolicyPage ==
  PageOf({ListPolicies, ListServers, ListAuditLogs("policy")}, {ListPolicies},
         {ListServers, ListAuditLogs("policy")}, {ListPolicies})
NewPolicyPage == PageOf({ListRoles, ListServers}, {}, {}, {})
RateLimitsPage == ListOf(ListPolicies, {})
RolesPage ==
  PageOf({ListRoles, ListApiKeys, ListAuditLogs("200")}, {ListRoles}, {ListRoles, ListApiKeys}, {})
AccessPage == ListOf(ListRoles, {})
MembersPage == ListOf(Members, {Me, License})
TeamsPage == PageOf({Teams, ListServers}, {Teams}, {Teams, ListServers}, {})
LogsPage ==
  [ListOf(ListAuditLogs("logs"), {ListServers}) EXCEPT !.polls = {ListAuditLogs("logs")}]
TrafficPage ==
  [ListOf(ListAuditLogs("200"), {ListServers}) EXCEPT !.polls = {ListAuditLogs("200")}]
ObservabilityPage ==
  [PageOf({ListAuditLogs("200"), ListServers}, {ListAuditLogs("200"), ListServers},
          {ListAuditLogs("200"), ListServers}, {}) EXCEPT !.polls = {ListAuditLogs("200")}]
TracesPage == ListOf(ListAuditLogs("200"), {ListServers})
ErrorsPage == ListOf(ListAuditLogs("200"), {})
AlertsPage == PageOf({ListServers, ListAuditLogs("200")}, {}, {}, {})
AuditPage == ListOf(ListAuditLogs("search"), {})
UsagePage == PageOf({ListAuditLogs("200"), ListServers, OrgUsage}, {}, {}, {})
SubscriptionPage == PageOf({OrgGetLicense}, {OrgGetLicense}, {}, {})
ToolsPage ==
  PageOf({ListServers, McpTools, ListAuditLogs("200")}, {ListServers, McpTools},
         {ListServers, McpTools}, {McpTools})
ToolPage ==
  PageOf({GetServer, McpTools, ListRoles, ListPolicies, ListAuditLogs("tool")},
         {GetServer, McpTools}, {ListRoles, ListPolicies}, {GetServer, McpTools})
PlaygroundPage == PageOf({ListServers, McpTools}, {McpTools}, {McpTools}, {})
SearchPage ==
  LET all == {ListServers, ListApiKeys, ListRoles, ListPolicies, ListAuditLogs("200")}
  IN  PageOf(all, all, all, {})
AdminHomePage ==
  LET all == {ListServers, ListApiKeys, ListRoles, ListPolicies, ListAuditLogs("5")}
  IN  PageOf(all, all, {ListAuditLogs("5")}, {})
AdminAuditPage == ListOf(ListAuditLogs("admin"), {})
AdminBillingPage ==
  PageOf({ListServers, ListApiKeys, ListAuditLogs("200"), ListPolicies, ListRoles},
         {ListServers, ListApiKeys, ListAuditLogs("200")}, {}, {})
AdminInfrastructurePage ==
  PageOf({ListServers, Healthz}, {ListServers, Healthz}, {ListServers}, {Healthz})
AdminOrganizationsPage == ListOf(ListTenants, {})
AdminPoliciesPage ==
  PageOf({ListPolicies, ListRoles}, {ListPolicies, ListRoles}, {ListPolicies, ListRoles}, {})
AdminSecurityPage ==
  LET all == {ListAuditLogs("200"), ListAuditLogs("auth"), ListAuditLogs("rbac"), ListApiKeys}
  IN  PageOf(all, all, all, {})
AdminServersPage == ListOf(ListServers, {})
AdminTelemetryPage ==
  PageOf({AdminTelemetrySummary, AdminTelemetryInstances},
         {AdminTelemetrySummary, AdminTelemetryInstances}, {AdminTelemetryInstances}, {})
AdminToolsPage == ListOf(ListServers, {})
AdminTrafficPage ==
  [ListOf(ListAuditLogs("200"), {ListAuditLogs("auth200"), ListServers})
     EXCEPT !.polls = {ListAuditLogs("200"), ListAuditLogs("auth200")}]
AdminUsersPage ==
  PageOf({ListApiKeys, ListRoles, ListAuditLogs("200")}, {ListApiKeys, ListRoles, ListAuditLogs("200")},
         {ListApiKeys, ListRoles, ListAuditLogs("200")}, {})
DeveloperHomePage ==
  LET all == {ListServers, ListApiKeys, ListAuditLogs("100")} IN PageOf(all, all, {}, {})
DeveloperKeysPage == ListOf(ListApiKeys, {})
DeveloperLogsPage == ListOf(ListAuditLogs("developer"), {})
DeveloperServersPage == ListOf(ListServers, {})
DeveloperToolsPage ==
  PageOf({ListServers, McpTools}, {ListServers, McpTools}, {ListServers}, {McpTools})
DeveloperUsagePage ==
  PageOf({ListAuditLogs("100"), ListPolicies}, {ListAuditLogs("100"), ListPolicies},
         {ListAuditLogs("100"), ListPolicies}, {})
DeveloperPlaygroundPage == PageOf({ListServers, McpTools}, {ListServers, McpTools}, {}, {})
OnboardingPage ==
  [PageOf({ListServers, ListRoles, ListApiKeys}, {}, {}, {}) EXCEPT !.mounts = {ListServers, ListRoles, ListApiKeys}]

\* A page of the shell that shows none of this, and the pages outside of any shell.
OtherPage == PageOf({}, {}, {}, {})
Outside == [OtherPage EXCEPT !.mounts = {}]

Pages ==
  [home |-> HomePage, servers |-> ServersPage, server |-> ServerPage,
   serverTools |-> ToolsTab, serverLogs |-> LogsTab, serverTraffic |-> TrafficTab,
   newServer |-> NewServerPage,
   keys |-> KeysPage, policies |-> PoliciesPage, policy |-> PolicyPage,
   newPolicy |-> NewPolicyPage, rateLimits |-> RateLimitsPage, roles |-> RolesPage,
   access |-> AccessPage, members |-> MembersPage, teams |-> TeamsPage, logs |-> LogsPage,
   traffic |-> TrafficPage, observability |-> ObservabilityPage, traces |-> TracesPage,
   errors |-> ErrorsPage, alerts |-> AlertsPage, audit |-> AuditPage, usage |-> UsagePage,
   subscription |-> SubscriptionPage, tools |-> ToolsPage, tool |-> ToolPage,
   playground |-> PlaygroundPage, search |-> SearchPage, adminHome |-> AdminHomePage,
   adminAudit |-> AdminAuditPage, adminBilling |-> AdminBillingPage,
   adminInfrastructure |-> AdminInfrastructurePage,
   adminOrganizations |-> AdminOrganizationsPage, adminPolicies |-> AdminPoliciesPage,
   adminSecurity |-> AdminSecurityPage, adminServers |-> AdminServersPage,
   adminTelemetry |-> AdminTelemetryPage, adminTools |-> AdminToolsPage,
   adminTraffic |-> AdminTrafficPage, adminUsers |-> AdminUsersPage,
   developerHome |-> DeveloperHomePage, developerKeys |-> DeveloperKeysPage,
   developerLogs |-> DeveloperLogsPage, developerServers |-> DeveloperServersPage,
   developerTools |-> DeveloperToolsPage, developerUsage |-> DeveloperUsagePage,
   developerPlayground |-> DeveloperPlaygroundPage, onboarding |-> OnboardingPage,
   other |-> OtherPage, outside |-> Outside]

Writes(h, q) == \E i \in DOMAIN h.calls : h.calls[i] \in q.of

\* The pages on which something can happen to q; for q, the rest are like other.
Near ==
  [q \in Watched |->
    {p \in DOMAIN Pages :
       \/ q \in (Pages[p].mounts \ Shell) \cup Pages[p].nothing
       \/ \E h \in Handlers : Writes(h, q) /\ p \in {h.on, h.goes}}
    \cup {"other", "outside"}]

-----------------------------------------------------------------------------
(* react-query: one entry of the cache.                                    *)

Idle == [on |-> FALSE, read |-> NoData, tries |-> 0]
Started == [on |-> TRUE, read |-> NoData, tries |-> 0]

Observed(p) == query \in Pages[p].mounts

\* A request that is cancelled may still be answered.
Cancelled == IF fetch.on /\ fetch.read # NoData THEN fetch.read ELSE late

\* A key is matched by every key that it begins.
Matches(filter) == Len(filter) <= Len(query.key) /\ filter = SubSeq(query.key, 1, Len(filter))

\* mutant: a running fetch is kept (cancelRefetch: false)
RestartKeepsFetch ==
  /\ fetch' = IF fetch.on THEN fetch ELSE Started
  /\ missed' = (fetch.on /\ missed)
  /\ UNCHANGED late

\* A fetch that is running is left alone while there is no data, and restarted otherwise.
Restart ==
  IF fetch.on /\ entry.data = NoData
  THEN /\ missed' = (missed \/ fetch.read # NoData)
       /\ UNCHANGED <<fetch, late>>
  ELSE /\ late' = Cancelled
       /\ fetch' = Started
       /\ missed' = FALSE

Refreshes(h) == query \in h.refetches \/ \E f \in h.refreshes : Matches(f)

\* mutant: invalidation marks the entry and fetches nothing (refetchType: "none")
RefreshMarksOnly(h) ==
  /\ entry' = [entry EXCEPT !.stale = @ \/ Refreshes(h)]
  /\ missed' = (missed \/ (fetch.on /\ fetch.read # NoData))
  /\ UNCHANGED <<fetch, late>>

\* invalidateQueries and refetch at the end of handler h.
Refresh(h) ==
  IF \E f \in h.refreshes : Matches(f)
  THEN /\ entry' = [entry EXCEPT !.stale = TRUE]
       /\ IF Observed(route) \/ query \in h.refetches
          THEN Restart
          ELSE /\ missed' = (missed \/ (fetch.on /\ fetch.read # NoData))
               /\ UNCHANGED <<fetch, late>>
  ELSE /\ UNCHANGED entry
       /\ IF query \in h.refetches THEN Restart ELSE UNCHANGED <<fetch, late, missed>>

CacheInit ==
  /\ query \in Watched
  /\ db \in {0, 1}
  /\ entry = [data |-> NoData, stale |-> FALSE, failed |-> FALSE]
  /\ fetch = Idle
  /\ late = NoData
  /\ route = "outside"
  /\ jobs = {}
  /\ own = 0
  /\ missed = FALSE

ServerTabs == {"server", "serverTools", "serverLogs", "serverTraffic"}

\* The component that observes the query stays when the user goes to p: the shell does, and
\* a server's page when only the tab changes.
Stays(p) ==
  \/ query \in Shell /\ {route, p} \cap {"outside", "onboarding"} = {}
  \/ query = GetServer /\ {route, p} \subseteq ServerTabs

\* The user opens page p: the observers of the old page go, a request without observers is
\* cancelled if it listens, then the new page's observers fetch what is missing or stale.
Go(p) ==
  LET gone == Observed(route) /\ ~Stays(p)
      cancels == gone /\ fetch.on /\ query.signal
      running == fetch.on /\ ~cancels
      needed == Observed(p) /\ ~running /\ (entry.data = NoData \/ entry.stale)
  IN  /\ route' = p
      /\ late' = IF cancels THEN Cancelled ELSE late
      /\ fetch' = IF needed THEN Started ELSE IF running THEN fetch ELSE Idle
      /\ missed' = (~needed /\ (missed \/ cancels))

Visit(p) == p # route /\ Go(p) /\ UNCHANGED <<query, db, entry, jobs, own>>

FetchReads ==
  /\ fetch.on /\ fetch.read = NoData
  /\ fetch' = [fetch EXCEPT !.read = db]
  /\ UNCHANGED <<query, db, entry, late, route, jobs, own, missed>>

FetchAnswers ==
  /\ fetch.on /\ fetch.read # NoData
  /\ entry' = [data |-> fetch.read, stale |-> FALSE, failed |-> FALSE]
  /\ fetch' = Idle
  /\ UNCHANGED <<query, db, late, route, jobs, own, missed>>

\* A request is repeated query.retry times, while someone observes the query.
FetchFails ==
  /\ fetch.on
  /\ IF fetch.tries < query.retry /\ Observed(route)
     THEN /\ fetch' = [on |-> TRUE, read |-> NoData, tries |-> fetch.tries + 1]
          /\ UNCHANGED entry
     ELSE /\ fetch' = Idle
          /\ entry' = [entry EXCEPT !.stale = TRUE, !.failed = TRUE]
  /\ UNCHANGED <<query, db, late, route, jobs, own, missed>>

\* mutant: a cancelled request still delivers
LateAnswerApplied ==
  /\ late # NoData
  /\ late' = NoData
  /\ entry' = [entry EXCEPT !.data = late]
  /\ UNCHANGED <<query, db, fetch, route, jobs, own, missed>>

\* The answer to a request that was cancelled is dropped.
LateAnswer ==
  /\ late # NoData
  /\ late' = NoData
  /\ UNCHANGED <<query, db, entry, fetch, route, jobs, own, missed>>

\* Half a minute has passed since the data came (staleTime).
StaleTime ==
  /\ entry.data # NoData /\ ~entry.stale
  /\ entry' = [entry EXCEPT !.stale = TRUE]
  /\ UNCHANGED <<query, db, fetch, late, route, jobs, own, missed>>

Begin ==
  /\ fetch' = Started
  /\ missed' = FALSE
  /\ UNCHANGED <<query, db, entry, late, route, jobs, own>>

\* The window gets the focus back: stale data is fetched again.
Focus ==
  /\ Observed(route) /\ ~fetch.on /\ (entry.stale \/ entry.data = NoData)
  /\ Begin

\* refetchInterval, and the interval of the admin's traffic page, which would also restart a
\* fetch that takes longer than ten seconds; requests are answered within the interval.
Poll ==
  /\ query \in Pages[route].polls /\ ~fetch.on
  /\ Begin

\* An entry without observers and fetches is dropped in time.
Collect ==
  /\ ~Observed(route) /\ ~fetch.on /\ entry.data # NoData
  /\ entry' = [data |-> NoData, stale |-> FALSE, failed |-> FALSE]
  /\ UNCHANGED <<query, db, fetch, late, route, jobs, own, missed>>

-----------------------------------------------------------------------------
(* The handlers, and everyone else who writes.                             *)

\* A handler that awaits call number at: done says whether the backend has served it, wrote
\* is the version that its calls have made so far.
Job(h, at, done, wrote) == [h |-> h, at |-> at, done |-> done, wrote |-> wrote]

StartHandler(h) ==
  /\ Cardinality(jobs) < MaxJobs /\ h.on = route /\ Writes(h, query)
  /\ jobs' = jobs \cup {Job(h, 1, FALSE, 0)}
  /\ UNCHANGED <<query, db, entry, fetch, late, route, own, missed>>

Serve(j) ==
  /\ j.at <= Len(j.h.calls) /\ ~j.done
  /\ LET writes == j.h.calls[j.at] \in query.of
     IN  /\ writes => db < MaxVersion
         /\ db' = IF writes THEN db + 1 ELSE db
         /\ jobs' = (jobs \ {j}) \cup {Job(j.h, j.at, TRUE, IF writes THEN db + 1 ELSE j.wrote)}
  /\ UNCHANGED <<query, entry, fetch, late, route, own, missed>>

Last(j) == j.at = Len(j.h.calls)

\* The handler goes on after a call. A handler that redirects pushes its page once it has
\* refreshed; the router gets there later.
Proceed(j) ==
  /\ IF Last(j) \/ j.h.eager
     THEN /\ Refresh(j.h)
          /\ own' = IF Refreshes(j.h) /\ j.wrote > own THEN j.wrote ELSE own
     ELSE UNCHANGED <<entry, fetch, late, own, missed>>
  /\ jobs' = (jobs \ {j}) \cup
             IF Last(j) /\ j.h.goes = j.h.on THEN {} ELSE {Job(j.h, j.at + 1, FALSE, j.wrote)}
  /\ UNCHANGED <<query, db, route>>

Pushed(j) == j.at > Len(j.h.calls)

CallAnswered(j) == ~Pushed(j) /\ j.done /\ Proceed(j)

\* The call fails, or its answer is lost.
CallFails(j) ==
  /\ ~Pushed(j)
  /\ IF j.h.lenient
     THEN Proceed(j)
     ELSE /\ jobs' = jobs \ {j}
          /\ UNCHANGED <<query, db, entry, fetch, late, route, own, missed>>

Redirect(j) ==
  /\ Pushed(j)
  /\ Go(j.h.goes)
  /\ jobs' = jobs \ {j}
  /\ UNCHANGED <<query, db, entry, own>>

OthersWrite ==
  /\ db < MaxVersion
  /\ db' = db + 1
  /\ UNCHANGED <<query, entry, fetch, late, route, jobs, own, missed>>

CacheNext ==
  \/ \E p \in Near[query] : Visit(p)
  \/ FetchReads \/ FetchAnswers \/ FetchFails \/ LateAnswer
  \/ StaleTime \/ Focus \/ Poll \/ Collect
  \/ \E h \in Handlers : StartHandler(h)
  \/ \E j \in jobs : Serve(j) \/ CallAnswered(j) \/ CallFails(j) \/ Redirect(j)
  \/ OthersWrite

CacheSpec == CacheInit /\ [][CacheNext]_cacheVars

\* The backend and the network serve every request; intervals fire.
CacheFairness ==
  WF_cacheVars(FetchReads) /\ WF_cacheVars(FetchAnswers) /\ WF_cacheVars(Poll)

FairCacheSpec == CacheSpec /\ CacheFairness

-----------------------------------------------------------------------------

\* The state is well typed; a request is repeated at most once (retry: 1).
CacheTypeOK ==
  /\ query \in Watched
  /\ db \in Versions
  /\ entry \in [data: Versions \cup {NoData}, stale: BOOLEAN, failed: BOOLEAN]
  /\ fetch \in [on: BOOLEAN, read: Versions \cup {NoData}, tries: 0 .. 1]
  /\ late \in Versions \cup {NoData}
  /\ route \in Near[query]
  /\ own \in Versions
  /\ missed \in BOOLEAN

\* Read your own writes. Data that the console treats as current (it is not stale and not
\* being fetched) has every write of a handler that refreshed the query when it was done.
\* There are two exceptions. A first load that is running when the refresh comes is left alone
\* by react-query; a refetch is cancelled, and not repeated, if its page goes.
ReadYourWrites ==
  (entry.data # NoData /\ ~entry.stale /\ ~fetch.on) => (entry.data >= own \/ missed)

\* Handlers that write what a query reads and leave the query as it is: it catches up when
\* the half minute of staleTime is over. The keys of the detail page and of the list do not
\* match each other, the tabs for teams and for members refetch their own query only, and
\* three handlers name keys that no query has.
Blind ==
  ({SaveServer, ToggleStatus, Register, OnboardServer} \X {ListServers})
  \cup ({DeleteRow, HealthCheck, DeleteHere, AdminDisable, AdminDelete, Register, OnboardServer}
         \X {GetServer})
  \cup ({SecurityRevoke, OnboardKey} \X {ListApiKeys}) \cup {<<OnboardPolicy, ListPolicies>>}
  \cup ({CreateTeam, ToggleTeamServer, DeleteTeam} \X {Members})
  \cup ({InviteMember, EditMember, DeleteMember} \X {Teams})

\* Every other handler refreshes the queries that it writes to, so that ReadYourWrites holds
\* for it.
WritersRefresh ==
  \A h \in Handlers : Writes(h, query) /\ <<h, query>> \notin Blind => Refreshes(h)

\* What the open page says about the query.
Shows ==
  LET p == Pages[route]
  IN  IF query \notin p.mounts THEN "nothing to show"
      ELSE IF entry.data # NoData THEN IF entry.data = 0 THEN "none" ELSE "rows"
      ELSE IF fetch.on /\ query \in p.waits THEN "placeholder"
      ELSE IF ~fetch.on /\ query \in p.reports THEN "error"
      ELSE "none"

\* Pages that say "none" of a list that they do not wait for: the servers that a policy
\* covers, the keys to assign a role to, the roles and limits of a tool, a team's servers.
Hasty == {<<"policy", ListServers>>, <<"policy", ListAuditLogs("policy")>>,
          <<"roles", ListApiKeys>>, <<"tool", ListRoles>>, <<"tool", ListPolicies>>,
          <<"teams", ListServers>>}

\* A page says that there is nothing only when the backend said so, or when the fetch failed,
\* which most pages do not tell apart.
NoneIsKnown ==
  (Shows = "none" /\ query \in Pages[route].nothing /\ <<route, query>> \notin Hasty)
    => (entry.data = 0 \/ entry.failed)

\* Pages are told what they must know: the state is well typed, a handler refreshes what it
\* writes, and a page does not take an answer that is still to come for an empty one.
PagesAreTold == CacheTypeOK /\ WritersRefresh /\ NoneIsKnown

\* The writes that handlers have seen done come up on a page that observes the query and on
\* which the user rests, unless the fetch fails or the refresh came to nothing.
OwnWritesComeUp ==
  (<>[](jobs = {}) /\ <>[][route' = route]_cacheVars) =>
    []<>(\/ ~Observed(route) \/ entry.failed \/ missed
         \/ entry.data # NoData /\ entry.data >= own)

\* A page that polls and on which the user stays catches up with the backend once its
\* fetches succeed, even if earlier ones failed.
PollingCatchesUp ==
  (/\ <>[](query \in Pages[route].polls /\ ~entry.failed /\ fetch.tries = 0)
   /\ <>[][route' = route]_cacheVars)
    => <>[](entry.data = db)

\* A page on which the user rests catches up: with the user's own writes where it was told
\* of them, with everybody's where it polls.
PagesCatchUp == OwnWritesComeUp /\ PollingCatchesUp

\* The copy moves forward only, is never ahead of the backend, and is not lost under a page
\* that shows it.
View == INSTANCE ConsoleView
          WITH None <- NoData, held <- db, shown <- entry.data, watched <- Observed(route)

\* The cache implements the view of its data, for the query that is watched.
ViewSpec == View!Spec

=============================================================================
