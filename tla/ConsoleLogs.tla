---------------------------- MODULE ConsoleLogs ----------------------------
(***************************************************************************)
(* The pages that show the audit log: the request log with its pager       *)
(* (app/dashboard/logs/page.tsx), the audit log that is paged by the       *)
(* backend (dashboard/audit/page.tsx), the charts of the overview and of   *)
(* the admin's traffic page, and how each page reads an event's outcome.   *)
(* The log grows at its new end, which is the first row of every list.     *)
(***************************************************************************)
EXTENDS Console, Integers, FiniteSetsExt, SequencesExt

CONSTANTS
  PageSize,   \* rows of a page (50)
  LogLimit,   \* rows that the request log asks for (200)
  MaxRows,    \* bound: rows in the log
  Buckets,    \* bars of a chart (24)
  BucketSize  \* ticks of the clock that a bar stands for (an hour)

ASSUME LogsAssumption ==
  /\ {PageSize, LogLimit, Buckets, BucketSize} \subseteq Nat \ {0}
  /\ MaxRows \in Nat

\* Rows are numbered as they are written; every other one matches a filter.
Matches(r) == r % 2 = 0
NewestFirst(n) == [i \in 1 .. n |-> n - i + 1]
Limited(s, n) == SubSeq(s, 1, Min({n, Len(s)}))

\* paged: the slice of the list that page p shows.
Slice(s, p) == SubSeq(s, p * PageSize + 1, Min({(p + 1) * PageSize, Len(s)}))

TotalPages(s) == (Len(s) + PageSize - 1) \div PageSize

-----------------------------------------------------------------------------
(* The request log. A filter is applied by the backend (event type,        *)
(* server) or to the rows that it returned (outcome, text), or it is an    *)
(* age: expired is the newest row that was too old at the last fetch.      *)
(* Histories: reading (the user has only gone forward since page 0), top   *)
(* (the newest row at that time) and seen (the rows shown since).          *)

LogFilters == {"none", "client", "server", "recent"}

LogsInit ==
  [rows |-> 0, fetched |-> 0, filter |-> "none", expired |-> 0, at |-> 0, reading |-> TRUE,
   top |-> 0, seen |-> {}]

OnLogs == page = "logs"

OpenLogs == Open("logs", LogsInit)

AllLogs(u) ==
  Limited(IF u.filter = "server" THEN SelectSeq(NewestFirst(u.fetched), Matches)
                                 ELSE NewestFirst(u.fetched), LogLimit)

\* filtered
FilteredLogs(u) ==
  CASE u.filter = "client" -> SelectSeq(AllLogs(u), Matches)
    [] u.filter = "recent" -> SelectSeq(AllLogs(u), LAMBDA r : r > u.expired)
    [] OTHER -> AllLogs(u)

Paged(u) == Slice(FilteredLogs(u), u.at)

Rendered(u) == [u EXCEPT !.seen = @ \cup ToSet(Paged(u))]

StartsReading(u) ==
  Rendered([u EXCEPT !.at = 0, !.reading = TRUE, !.seen = {}, !.top = u.fetched])

\* mutant: the page number stays
SetLogFilterOnly(f) == OnLogs /\ f # ui.filter /\ Set(Rendered([ui EXCEPT !.filter = f, !.reading = FALSE]))

\* setFilter, or Clear.
SetLogFilter(f) == OnLogs /\ f # ui.filter /\ Set(StartsReading([ui EXCEPT !.filter = f]))

NextLogs ==
  /\ OnLogs /\ ui.at < TotalPages(FilteredLogs(ui)) - 1
  /\ Set(Rendered([ui EXCEPT !.at = @ + 1]))

PreviousLogs ==
  /\ OnLogs /\ ui.at > 0 /\ TotalPages(FilteredLogs(ui)) > 1
  /\ Set(IF ui.at = 1 THEN StartsReading(ui) ELSE Rendered([ui EXCEPT !.at = @ - 1, !.reading = FALSE]))

\* The numbers of the pager: up to five, around the page that is shown.
PagerNumbers(u) ==
  LET total == TotalPages(FilteredLogs(u))
      first == Max({0, Min({u.at - 2, total - 5})})
  IN  {first + i : i \in 0 .. Min({total, 5}) - 1}

JumpLogs ==
  /\ OnLogs /\ TotalPages(FilteredLogs(ui)) > 1
  /\ \E p \in PagerNumbers(ui) \ {ui.at} :
       Set(IF p = 0 THEN StartsReading(ui) ELSE Rendered([ui EXCEPT !.at = p, !.reading = FALSE]))

RowWritten == OnLogs /\ ui.rows < MaxRows /\ Set([ui EXCEPT !.rows = @ + 1])

\* The query polls every 30 s; rows have become too old meanwhile.
LogsFetched ==
  /\ OnLogs
  /\ \E old \in ui.expired .. ui.rows :
       /\ <<ui.rows, old>> # <<ui.fetched, ui.expired>>
       /\ ui.filter # "recent" => old = ui.expired
       /\ Set(LET u == [ui EXCEPT !.fetched = ui.rows, !.expired = old]
              IN  IF ui.at = 0 THEN StartsReading(u) ELSE Rendered(u))

LogsUser == NextLogs \/ PreviousLogs \/ JumpLogs \/ \E f \in LogFilters : SetLogFilter(f)
LogsStep == RowWritten \/ LogsFetched

\* Somebody who reads the log page by page sees every row between the one that was first on
\* the first page and the end of the page that they have reached, although the list is polled
\* and grows in front of them.
NothingSkipped ==
  OnLogs /\ ui.reading =>
    \A i \in DOMAIN FilteredLogs(ui) :
      i <= (ui.at + 1) * PageSize /\ FilteredLogs(ui)[i] <= ui.top => FilteredLogs(ui)[i] \in ui.seen

\* There is no blank page: if rows match, the page shows some of them and the pager has its
\* number. With the filter by age a poll can leave the page behind the last one.
PageHasRows ==
  OnLogs /\ FilteredLogs(ui) # <<>> /\ ui.filter # "recent"
    => Paged(ui) # <<>> /\ ui.at \in PagerNumbers(ui)

-----------------------------------------------------------------------------
(* The audit log. Each page is a query of its own, with limit and offset;  *)
(* fetched[p] is the number of rows that the log had when page p was       *)
(* fetched, NotFetched before. An entry is fresh for 30 s and is then      *)
(* fetched again when its page is opened. Histories as above; reused: a    *)
(* page was shown that was fetched before the one in front of it.          *)

NotFetched == -1
AuditPages == 0 .. 2

AuditInit ==
  [rows |-> 0, fetched |-> [p \in AuditPages |-> NotFetched], at |-> 0, filter |-> FALSE,
   top |-> 0, seen |-> {}, reused |-> FALSE]

OnAudit == page = "audit"

OpenAudit == \E n \in {0, PageSize} : Open("audit", [AuditInit EXCEPT !.rows = n])

\* The backend's page: newest first, from the offset on.
AuditRows(u, p) ==
  IF u.fetched[p] = NotFetched THEN <<>> ELSE Slice(NewestFirst(u.fetched[p]), p)

\* filtered: of the page that was fetched, the rows that match.
AuditFiltered(u, p) == IF u.filter THEN SelectSeq(AuditRows(u, p), Matches) ELSE AuditRows(u, p)

AuditShown(u) ==
  LET p == u.at
  IN  [u EXCEPT !.seen = @ \cup ToSet(AuditFiltered(u, p)),
                !.reused = @ \/ (p > 0 /\ u.fetched[p] # NotFetched /\ u.fetched[p] < u.fetched[p - 1])]

AuditFetched ==
  /\ OnAudit /\ ui.fetched[ui.at] # ui.rows
  /\ Set(LET u == [ui EXCEPT !.fetched[ui.at] = ui.rows]
         IN  AuditShown(IF ui.at = 0 THEN [u EXCEPT !.seen = {}, !.reused = FALSE, !.top = ui.rows] ELSE u))

\* totalPages: there may be a next page if this one is full.
AuditTotalPages(u) == u.at + 1 + (IF Len(AuditRows(u, u.at)) >= PageSize THEN 1 ELSE 0)

CanGoOn(u) == u.at < AuditTotalPages(u) - 1

NextAudit == OnAudit /\ CanGoOn(ui) /\ ui.at + 1 \in AuditPages /\ Set(AuditShown([ui EXCEPT !.at = @ + 1]))
PreviousAudit == OnAudit /\ ui.at > 0 /\ Set(AuditShown([ui EXCEPT !.at = @ - 1]))

\* setFilter goes back to the first page.
SetAuditFilter(f) ==
  /\ OnAudit /\ f # ui.filter
  /\ Set(AuditShown([ui EXCEPT !.filter = f, !.at = 0, !.seen = {}, !.reused = FALSE,
                               !.top = Max({0, ui.fetched[0]})]))

EventWritten == OnAudit /\ ui.rows < MaxRows /\ Set([ui EXCEPT !.rows = @ + 1])

\* A page's entry is removed when it has not been shown for some minutes.
AuditCollected ==
  \E p \in AuditPages : /\ OnAudit /\ p # ui.at /\ ui.fetched[p] # NotFetched
                        /\ Set([ui EXCEPT !.fetched[p] = NotFetched])

AuditUser == NextAudit \/ PreviousAudit \/ \E f \in BOOLEAN : SetAuditFilter(f)
AuditStep == AuditFetched \/ EventWritten \/ AuditCollected

\* Page by page, every event of the first page's moment that the filter lets through is seen
\* up to the last row of the page that is shown, and if older ones are left the user can go on,
\* although a page may show nothing because the filter is applied after paging. A page that
\* was cached before the one in front of it was fetched leaves a gap.
NoEventSkipped ==
  OnAudit /\ ui.fetched[ui.at] # NotFetched /\ ~ui.reused =>
    LET shown == ToSet(AuditRows(ui, ui.at))
    IN  /\ \A r \in 1 .. ui.top : (\E s \in shown : s <= r) /\ (ui.filter => Matches(r))
                                => r \in ui.seen
        /\ shown # {} /\ Min(shown) > 1 => CanGoOn(ui)

-----------------------------------------------------------------------------
(* Charts. A log entry is the time at which it was written, by the clock   *)
(* of the backend; now is the browser's when the chart is computed, and    *)
(* filtered is when the admin's page last filtered the entries by age.     *)
(* event is one entry's type and outcome, for the pages that count those.  *)

ChartRange == Buckets * BucketSize
ChartTimes == 0 .. ChartRange + BucketSize
ChartNow == ChartRange + 1

OnCharts == page = "charts"

\* The events that the backend writes (external).
Events ==
  {<<"auth_failure", "denied">>, <<"rbac_deny", "denied">>, <<"tool_call", "allowed">>,
   <<"platform_admin_granted", "allowed">>, <<"tenant_provisioned", "allowed">>}

OpenCharts == Open("charts", [logs |-> {}, filtered |-> ChartNow, event |-> <<"tool_call", "allowed">>])

\* The queries are answered; at most three entries, some of them from a clock that is ahead.
ChartsFetched ==
  /\ OnCharts
  /\ \E logs \in UNION {kSubset(k, ChartTimes) : k \in 0 .. 3}, e \in Events, lag \in {0, 1} :
       Set([logs |-> logs, filtered |-> ChartNow - lag, event |-> e])

\* filterByTimeRange
FilterByTimeRange(logs, now) == {t \in logs : t >= now - ChartRange}

\* bucketByHour of the admin's page: an entry outside of the bars is dropped.
BucketByHour(logs, now) ==
  [i \in 0 .. Buckets - 1 |-> {t \in logs : (t - (now - ChartRange)) \div BucketSize = i}]

\* trafficByHour of the overview: an entry from the future is in the last bar.
TrafficByHour(logs, now) ==
  [i \in 0 .. Buckets - 1 |->
     {t \in logs : /\ now - t <= ChartRange
                   /\ Min({Buckets - 1, (t - (now - ChartRange)) \div BucketSize}) = i}]

\* bucketByMinutes and bucket10m: a bar for each period that has an entry.
BucketByMinutes(logs) ==
  [b \in {t \div BucketSize : t \in logs} |-> {t \in logs : t \div BucketSize = b}]

Counted(chart) == FoldFunction(LAMBDA bar, sum : Cardinality(bar) + sum, 0, chart)

\* The bars add up to the entries that they are about, each counted once: on the overview all
\* of the last day and the future ones, on the traffic pages all of them, on the admin's page
\* those that were filtered, but for the ones at the edge that the clock has passed since and
\* the ones written at the chart's own moment or later.
ChartsAddUp ==
  OnCharts =>
    LET kept == FilterByTimeRange(ui.logs, ui.filtered)
    IN  /\ Counted(TrafficByHour(ui.logs, ChartNow)) = Cardinality(FilterByTimeRange(ui.logs, ChartNow))
        /\ Counted(BucketByMinutes(ui.logs)) = Cardinality(ui.logs)
        /\ Counted(BucketByHour(kept, ChartNow))
             = Cardinality({t \in kept : t >= ChartNow - ChartRange /\ t < ChartNow})
        /\ \A i \in 0 .. Buckets - 1 : \A t \in BucketByHour(kept, ChartNow)[i] :
             t - (ChartNow - ChartRange) \in i * BucketSize .. (i + 1) * BucketSize - 1

\* How each page reads an event: whether it takes it for one that was let through.
Refusals == {"auth_failure", "rbac_deny"}

OverviewBadge(e)      == e[2] = "allowed"
AdminHomeBadge(e)     == e[2] = "allowed"
AdminAuditBadge(e)    == e[2] = "allowed"
AdminTrafficPill(e)   == e[2] = "allowed"
DeveloperLogsBadge(e) == e[2] = "allowed"
DeveloperUsagePill(e) == e[2] = "allowed"
StatusBadge(e)        == e[2] \in {"allowed", "success"}
TrafficAllowed(e)     == e[2] \in {"allowed", "success"}

\* traceSteps: no step of the drawer's trace is an error.
TraceSteps(e) ==
  /\ e[1] \notin Refusals
  /\ e[1] = "tool_call" => e[2] \in {"allowed", "success"}

\* mutant: the errors page goes by the outcome only
NoErrorGroupByOutcome(e) == e[2] \notin {"error", "failure", "rate_limited"}

\* The errors page: what it leaves out.
NoErrorGroup(e) == e[1] \notin Refusals /\ e[2] \notin {"error", "failure", "rate_limited"}

MapAuditLog(e) == e[1] \notin Refusals /\ e[2] \notin {"error", "failure"}

\* These look for words that the backend does not write into that column.
EventBadge(e)    == e[1] \notin Refusals /\ (e[1] = "tool_call" => e[2] = "success")
AuditMap(e)      == e[2] \in {"allow", "success"}
DeveloperHome(e) == e[2] \notin Refusals

Succeeded(e) ==
  [overview |-> OverviewBadge(e), adminHome |-> AdminHomeBadge(e), adminAudit |-> AdminAuditBadge(e),
   adminTraffic |-> AdminTrafficPill(e), developerLogs |-> DeveloperLogsBadge(e),
   developerUsage |-> DeveloperUsagePill(e), logs |-> StatusBadge(e), traffic |-> TrafficAllowed(e),
   trace |-> TraceSteps(e), errors |-> NoErrorGroup(e), audit |-> MapAuditLog(e),
   security |-> EventBadge(e), tools |-> AuditMap(e), developerHome |-> DeveloperHome(e)]

Misreading == {"security", "tools", "developerHome"}

\* Every page says the same of an event, although each has its own reading of the two columns:
\* it was let through if the backend says so. Three pages do not: the security page takes every
\* tool call for a blocked one, the tools page never counts a success, and the developer's home
\* page counts every event as one.
OutcomesAgree ==
  OnCharts => \A p \in DOMAIN Succeeded(ui.event) \ Misreading :
                Succeeded(ui.event)[p] <=> ui.event[2] = "allowed"

=============================================================================
