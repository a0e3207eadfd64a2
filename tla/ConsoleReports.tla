--------------------------- MODULE ConsoleReports ---------------------------
(***************************************************************************)
(* The figures that pages make of the newest audit events: who calls what  *)
(* and how often (billing/usage, tools/[server]/[tool], admin/traffic,     *)
(* admin/security, observability), and the month so far (billing/usage).   *)
(*                                                                         *)
(* A report looks at one attribute of an event (its tool, server, subject  *)
(* or address), which is its key here; 0 is an attribute that is not set.  *)
(***************************************************************************)
EXTENDS Console, Integers, FiniteSetsExt, SequencesExt

CONSTANTS ReportKeys,   \* values of the attribute
          MaxEvents,    \* bound: events that a report is made of
          TopRows,      \* rows of a ranking: 5, 6, 8, 10 or 20
          MonthLength   \* days of a month

ASSUME ReportsAssumption ==
  /\ ReportKeys \subseteq Nat \ {0}
  /\ {MaxEvents, TopRows, MonthLength} \subseteq Nat \ {0}

\* The outcome of a call is allowed or denied; a failed login and a refused permission are denied.
AuditEvents ==
  [kind: {"auth_failure", "rbac_deny", "tool_call"}, allowed: BOOLEAN, key: ReportKeys \cup {0}, time: 1 .. 2 * MonthLength]

\* GET /v1/audit: newest first.
AuditAnswers ==
  {logs \in BoundedSeq({e \in AuditEvents : e.allowed => e.kind = "tool_call"}, MaxEvents) :
     \A i \in 2 .. Len(logs) : logs[i].time <= logs[i - 1].time}

OnReport == page = "report"

\* The page is loaded on a day of the second month, and events may be as new as the last one.
OpenReport ==
  \E logs \in AuditAnswers, loaded \in MonthLength + 1 .. 2 * MonthLength :
    Open("report", [logs |-> logs, loaded |-> loaded])

Where(logs, Test(_)) == {i \in DOMAIN logs : Test(logs[i])}
Sum(f) == FoldFunction(+, 0, f)

-----------------------------------------------------------------------------
(* Rankings. A map from keys to what was counted, filled event by event in *)
(* the order of the answer; rows are ranked and the first ones shown.      *)

NoRow == [total |-> 0, allowed |-> 0, kinds |-> {}, lastSeen |-> 0]

Later(a, b) == IF a > b THEN a ELSE b

\* mutant: the event at hand is taken for the last one
CountOneAsSeen(row, e) ==
  [total |-> row.total + 1, allowed |-> row.allowed + (IF e.allowed THEN 1 ELSE 0),
   kinds |-> row.kinds \cup {e.kind}, lastSeen |-> e.time]

\* One event more.
CountOne(row, e) ==
  [total |-> row.total + 1, allowed |-> row.allowed + (IF e.allowed THEN 1 ELSE 0),
   kinds |-> row.kinds \cup {e.kind}, lastSeen |-> Later(e.time, row.lastSeen)]

CountIn(rows, e) ==
  [k \in DOMAIN rows \cup {e.key} |->
     IF k = e.key THEN CountOne(IF k \in DOMAIN rows THEN rows[k] ELSE NoRow, e) ELSE rows[k]]

Tally(logs) == FoldLeft(CountIn, << >>, logs)

\* A ranking: its rows, and the events that were counted in it.
Ranking(logs) == [rows |-> Tally(logs), logs |-> logs]

\* Most rankings leave out events without the attribute; the others call it "unknown".
Named(logs) == SelectSeq(logs, LAMBDA e : e.key # 0)

\* The first characters of a subject's id, which two subjects may share.
Short(k) == (k + 1) \div 2
Shortened(logs) == [i \in DOMAIN logs |-> [logs[i] EXCEPT !.key = Short(@)]]

MakeToolUsage(logs)   == Ranking(logs)
MakeServerUsage(logs) == Ranking(logs)
MakeUserUsage(logs)   == Ranking(Shortened(logs))
ByServer(logs)        == Ranking(logs)
ByTool(logs)          == Ranking(Named(logs))
CallerCounts(logs)    == Ranking(Named(logs))
TopNByField(logs)     == Ranking(Named(logs))
ByUser(logs)          == Ranking(Named(Shortened(logs)))
TopTools(logs)        == Ranking(SelectSeq(Named(logs), LAMBDA e : e.kind = "tool_call"))

\* isDenied takes every call for a denied one, whatever its outcome.
DeniedOrFailed(logs) == logs
SuspiciousIPRows(logs) == Ranking(Named(DeniedOrFailed(logs)))

Rankings(logs) ==
  {MakeToolUsage(logs), MakeServerUsage(logs), MakeUserUsage(logs), ByServer(logs), ByTool(logs),
   CallerCounts(logs), TopNByField(logs), ByUser(logs), TopTools(logs), SuspiciousIPRows(logs)}

FirstPlace(logs, k) == Min(Where(logs, LAMBDA e : e.key = k))

\* sort, which is stable, and slice.
Top(rows, logs) ==
  LET ranked == SetToSortSeq(DOMAIN rows, LAMBDA a, b : rows[a].total > rows[b].total \/
                  (rows[a].total = rows[b].total /\ FirstPlace(logs, a) < FirstPlace(logs, b)))
  IN  SubSeq(ranked, 1, IF Len(ranked) < TopRows THEN Len(ranked) ELSE TopRows)

\* The rows of every ranking count each event under its key and no event twice, keep the kinds
\* of the events and the time of the newest one, and leave out no event that has the attribute.
RowsMatchEvents ==
  OnReport =>
    \A ranking \in Rankings(ui.logs) :
      LET logs == ranking.logs
          rows == ranking.rows
      IN  /\ Sum([k \in DOMAIN rows |-> rows[k].total]) = Len(logs)
          /\ \A k \in DOMAIN rows :
               LET own == Where(logs, LAMBDA e : e.key = k)
               IN  /\ rows[k].total = Cardinality(own)
                   /\ rows[k].allowed = Cardinality(Where(logs, LAMBDA e : e.key = k /\ e.allowed))
                   /\ rows[k].kinds = {logs[i].kind : i \in own}
                   /\ rows[k].lastSeen = Max({logs[i].time : i \in own})

\* A ranking shows the keys with the most events: no key that is cut off has more than one that
\* is shown, and none is cut off while there is room.
TopIsTop ==
  OnReport =>
    \A ranking \in Rankings(ui.logs) :
      LET rows == ranking.rows
          top == Top(rows, ranking.logs)
      IN  /\ \A k \in DOMAIN rows \ ToSet(top), j \in ToSet(top) : rows[k].total <= rows[j].total
          /\ Len(top) = TopRows \/ ToSet(top) = DOMAIN rows

-----------------------------------------------------------------------------
(* The month so far. DAY_OF_MONTH is read when the page's code is loaded   *)
(* and never again, and days are compared without their months.            *)

DayOf(time) == ((time - 1) % MonthLength) + 1
ThisMonth(time) == time > MonthLength
DayOfMonth(u) == DayOf(u.loaded)

\* makeDailyUsage
DailyUsage(u) == [d \in 1 .. DayOfMonth(u) |-> Cardinality(Where(u.logs, LAMBDA e : DayOf(e.time) = d))]

Round(n, d) == (2 * n + d) \div (2 * d)
NoFigure == -1

\* makeProjection: the daily average, one percent more each day.
Projection(u) ==
  LET day == DayOfMonth(u)
  IN  [d \in 1 .. MonthLength |->
         [actual |-> IF d <= day THEN DailyUsage(u)[d] ELSE NoFigure,
          projected |-> IF d > day THEN Round(Sum(DailyUsage(u)) * (100 + d - day), 100 * day) ELSE NoFigure]]

\* projectedTotal, of the number of events if the usage endpoint has not answered.
ProjectedTotal(u) == Round(Len(u.logs) * MonthLength, DayOfMonth(u))

\* Each day of the month has a figure of its own, counted up to the day of loading and projected
\* after it. No event of these days is missed, and none of the last month is counted unless the
\* answer reaches back to it. The projection for the month is not below what has been used.
MonthAddsUp ==
  OnReport =>
    /\ \A d \in 1 .. MonthLength :
         (Projection(ui)[d].actual = NoFigure) # (Projection(ui)[d].projected = NoFigure)
    /\ \A d \in 1 .. DayOfMonth(ui) :
         LET counted == Projection(ui)[d].actual
             ofDay == Where(ui.logs, LAMBDA e : ThisMonth(e.time) /\ DayOf(e.time) = d)
         IN  /\ counted >= Cardinality(ofDay)
             /\ (\A i \in DOMAIN ui.logs : ThisMonth(ui.logs[i].time)) => counted = Cardinality(ofDay)
    /\ ProjectedTotal(ui) >= Len(ui.logs)

-----------------------------------------------------------------------------
(* Charts by time: bucket10m, and the hours of a tool's UsageTab, which    *)
(* leaves out what is older than a day.                                    *)

Bucket(time, size) == (time \div size) * size

\* bucket10m
Volume(logs, size) ==
  [t \in {Bucket(logs[i].time, size) : i \in DOMAIN logs} |->
     [total |-> Cardinality(Where(logs, LAMBDA e : Bucket(e.time, size) = t)),
      errors |-> Cardinality(Where(logs, LAMBDA e : Bucket(e.time, size) = t /\ e.kind # "tool_call"))]]

UsageHours(logs, cutoff, size) ==
  LET recent == SelectSeq(logs, LAMBDA e : e.time >= cutoff)
  IN  [t \in {Bucket(recent[i].time, size) : i \in DOMAIN recent} |->
         [allowed |-> Cardinality(Where(recent, LAMBDA e : Bucket(e.time, size) = t /\ e.allowed)),
          denied |-> Cardinality(Where(recent, LAMBDA e : Bucket(e.time, size) = t /\ ~e.allowed))]]

\* The chart of the volume shows every event once, in a bucket that has begun by then and is
\* not over, and as many errors as the figures next to it say; the chart of a tool's hours has
\* the recent events of each hour, allowed or denied.
VolumeAddsUp ==
  OnReport =>
    LET size == 2
        volume == Volume(ui.logs, size)
        hours == UsageHours(ui.logs, ui.loaded, size)
    IN  /\ Sum([t \in DOMAIN volume |-> volume[t].total]) = Len(ui.logs)
        /\ Sum([t \in DOMAIN volume |-> volume[t].errors]) = Cardinality(Where(ui.logs, LAMBDA e : e.kind # "tool_call"))
        /\ \A i \in DOMAIN ui.logs : \E t \in DOMAIN volume : t <= ui.logs[i].time /\ ui.logs[i].time < t + size
        /\ \A t \in DOMAIN volume : \E i \in DOMAIN ui.logs : t <= ui.logs[i].time /\ ui.logs[i].time < t + size
        /\ \A t \in DOMAIN hours : hours[t].allowed + hours[t].denied =
             Cardinality(Where(ui.logs, LAMBDA e : e.time >= ui.loaded /\ t <= e.time /\ e.time < t + size))
        /\ Sum([t \in DOMAIN hours |-> hours[t].allowed + hours[t].denied])
             = Cardinality(Where(ui.logs, LAMBDA e : e.time >= ui.loaded))

=============================================================================
