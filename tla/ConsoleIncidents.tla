-------------------------- MODULE ConsoleIncidents --------------------------
(***************************************************************************)
(* The page of an incident (dashboard/alerts/incidents/[id]), the traces   *)
(* that dashboard/observability/traces makes up from audit events, and the *)
(* form with which a developer asks for access (developer/servers). All of *)
(* it lives in the browser.                                                *)
(***************************************************************************)
EXTENDS Console

CONSTANT MaxActs  \* bound: what the user does while a page is open

ASSUME IncidentsAssumption == MaxActs \in Nat

-----------------------------------------------------------------------------
(* An incident. Statuses are numbered in STATUS_ORDER; 0 is none. The      *)
(* timeline has a pair <<from, to>> for each change, and Note for any      *)
(* other entry. assignees tells how often each responder is listed, for    *)
(* nothing keeps the user from adding one twice. A text is 0 as it was at  *)
(* first, or 1 once it was changed. editor and wrote are histories: what   *)
(* the user has put into the open editor, and what they saved for each     *)
(* field; out the responders that they removed.                            *)

Resolved == 4
Note == <<0, 0>>
TextFields == {"rootCause", "resolution", "postmortemLink", "summary"}
Responders == {1, 2}

Fixture(status, assignees, timeline) ==
  [status |-> status, resolvedAt |-> status = Resolved, timeline |-> timeline,
   assignees |-> [a \in Responders |-> IF a \in assignees THEN 1 ELSE 0]]

\* INCIDENTS; the last one is shown for any other id.
Incidents ==
  {Fixture(1, {1}, << Note, <<0, 1>>, Note >>),
   Fixture(2, {1, 2}, << Note, <<0, 1>>, Note, <<1, 2>>, Note >>),
   Fixture(4, {1}, << Note, <<0, 1>>, Note, <<1, 3>>, <<3, 4>> >>),
   Fixture(4, {1}, << Note, <<0, 1>>, Note, Note, <<3, 4>> >>),
   Fixture(1, {}, << >>)}

IncidentInit(base) ==
  [base |-> base, incident |-> base, acts |-> 0, note |-> FALSE,
   texts |-> [f \in TextFields |-> 0], editing |-> "", draft |-> 0, editor |-> 0,
   wrote |-> [f \in TextFields |-> 0], out |-> {}]

OnIncident == page = "incident"

OpenIncident == \E base \in Incidents : Open("incident", IncidentInit(base))

Act(u) == OnIncident /\ ui.acts < MaxActs /\ Set([u EXCEPT !.acts = @ + 1])

Entry(u, e) == [u EXCEPT !.incident.timeline = Append(@, e)]

\* updateStatus: to any status, the present one included; resolvedAt is never cleared.
UpdateStatus(u, s) ==
  Entry([u EXCEPT !.incident.status = s, !.incident.resolvedAt = @ \/ s = Resolved],
        <<u.incident.status, s>>)

StatusStepper == \E s \in 1 .. Resolved : Act(UpdateStatus(ui, s))

AddNote == OnIncident /\ ui.note /\ Act(Entry([ui EXCEPT !.note = FALSE], Note))
SetNote == OnIncident /\ ~ui.note /\ Act([ui EXCEPT !.note = TRUE])

\* The pencil: one draft serves all the fields, and starts from the field's text.
EditIcon(u, f) == [u EXCEPT !.editing = f, !.draft = u.texts[f], !.editor = u.texts[f]]

OpenEditor == OnIncident /\ \E f \in TextFields \ {ui.editing} : Act(EditIcon(ui, f))
TypeText == OnIncident /\ ui.editing # "" /\ \E t \in 0 .. 1 :
              t # ui.draft /\ Act([ui EXCEPT !.draft = t, !.editor = t])
CancelEditor == OnIncident /\ ui.editing # "" /\ Act([ui EXCEPT !.editing = ""])
SaveField ==
  /\ OnIncident /\ ui.editing # ""
  /\ Act([ui EXCEPT !.texts[ui.editing] = ui.draft, !.wrote[ui.editing] = ui.editor, !.editing = ""])

AddAssignee ==
  OnIncident /\ \E a \in Responders : Act([ui EXCEPT !.incident.assignees[a] = @ + 1, !.out = @ \ {a}])

\* removeAssignee, which filters the list by the address, however often it is listed.
Removed(assignees, a) == [assignees EXCEPT ![a] = 0]

RemoveAssignee ==
  /\ OnIncident
  /\ \E a \in {b \in Responders : ui.incident.assignees[b] > 0} :
       Act([ui EXCEPT !.incident.assignees = Removed(@, a), !.out = @ \cup {a}])

IncidentUser ==
  \/ StatusStepper \/ SetNote \/ AddNote \/ OpenEditor \/ TypeText \/ CancelEditor \/ SaveField
  \/ AddAssignee \/ RemoveAssignee

\* The places of a timeline at which the status was changed, after the first ones.
Changes(timeline, first) == {i \in first + 1 .. Len(timeline) : timeline[i] # Note}

\* The timeline accounts for the status: what was added to it is a chain of changes from the
\* status that the incident had to the one it has, and the time of resolution is there exactly
\* if the incident was resolved at some time.
TimelineTellsStatus ==
  OnIncident =>
    LET entry == ui.incident.timeline
        changes == Changes(entry, Len(ui.base.timeline))
    IN  /\ \A j \in changes : (\A i \in changes : j <= i) => entry[j][1] = ui.base.status
        /\ \A i, j \in changes :
             i < j /\ (\A k \in changes : k <= i \/ j <= k) => entry[j][1] = entry[i][2]
        /\ changes = {} => ui.incident.status = ui.base.status
        /\ \A i \in changes : (\A j \in changes : j <= i) => ui.incident.status = entry[i][2]
        /\ ui.incident.resolvedAt <=> \E i \in DOMAIN entry : entry[i][2] = Resolved

\* A field holds what the user saved in its editor, though all editors share one draft and an
\* editor may be left without saving.
FieldsHoldTheirText == OnIncident => ui.texts = ui.wrote

\* A responder who was removed is not on the list, even if they were added twice.
RemovedAreGone == OnIncident => \A a \in ui.out : ui.incident.assignees[a] = 0

-----------------------------------------------------------------------------
(* Traces. A log is the event's type and outcome, and whether it names a   *)
(* tool. The spans are the parts of the gateway's pipeline.                *)

TraceLogs == [event: {"auth_failure", "rbac_deny", "tool_call"},
              outcome: {"allowed", "denied", "error", "failure", "rate_limited", "warn"}, tool: BOOLEAN]

Span(start, duration, status) == [start |-> start, end |-> start + duration, status |-> status]
ErrorIf(cond) == IF cond THEN "error" ELSE "ok"

\* SPAN_DEFINITIONS: client request, authentication, policy evaluation, rate limit check, tool
\* registry lookup, upstream connection, tool execution, response filtering, audit event.
SpanDefinitions(log) ==
  << Span(0, 2, "ok"), Span(3, 8, ErrorIf(log.event = "auth_failure")),
     Span(12, 6, ErrorIf(log.event = "rbac_deny")), Span(19, 4, ErrorIf(log.outcome = "rate_limited")),
     Span(24, 3, IF log.tool THEN "ok" ELSE "warn"),
     Span(28, 12, IF log.outcome = "error" THEN "warn" ELSE "ok"),
     Span(41, 35, IF log.outcome = "warn" THEN "warn" ELSE ErrorIf(log.outcome \in {"error", "failure"})),
     Span(77, 5, "ok"), Span(83, 2, "ok") >>

CutAfter(log) ==
  IF log.event = "auth_failure" THEN 2 ELSE IF log.event = "rbac_deny" THEN 3
  ELSE IF log.outcome = "rate_limited" THEN 4 ELSE 9

TraceIsError(log) == log.event \in {"auth_failure", "rbac_deny"} \/ log.outcome \in {"error", "failure", "rate_limited"}
Spans(log) == SubSeq(SpanDefinitions(log), 1, CutAfter(log))
TotalDuration(log) ==
  LET ends == {0} \cup {Spans(log)[i].end : i \in DOMAIN Spans(log)}
  IN  CHOOSE last \in ends : \A end \in ends : end <= last

OpenTraces == \E log \in TraceLogs : Open("traces", [log |-> log])

\* A trace is marked as an error exactly if one of its spans is; a call that was refused ends
\* with the span that refused it, and no span comes after one that has not ended.
TraceEndsWhereItFailed ==
  page = "traces" =>
    LET spans == Spans(ui.log)
        failed == {i \in DOMAIN spans : spans[i].status = "error"}
    IN  /\ TraceIsError(ui.log) <=> failed # {}
        /\ \A i \in failed : i = Len(spans) \/ i = 7
        /\ \A i \in 2 .. Len(spans) : spans[i].start > spans[i - 1].end
        /\ TotalDuration(ui.log) = spans[Len(spans)].end

-----------------------------------------------------------------------------
(* The list of traces and the one in detail. Events are numbered as they   *)
(* come, and the list, which is as a set here, has the last Fetched of     *)
(* them. A search is the set of events whose texts have it. clicked is a   *)
(* history: the row that was clicked.                                      *)

Fetched == 2  \* limit of the query, 200 in the code

EventLog ==
  << [event |-> "tool_call", outcome |-> "allowed", tool |-> TRUE],
     [event |-> "rbac_deny", outcome |-> "denied", tool |-> TRUE],
     [event |-> "tool_call", outcome |-> "failure", tool |-> TRUE],
     [event |-> "auth_failure", outcome |-> "denied", tool |-> FALSE] >>
AllEvents == DOMAIN EventLog

NoTraceFilters == [outcome |-> "", tool |-> AllEvents, minDuration |-> 0]
TraceFilters == [outcome: {"", "success", "error"}, tool: {AllEvents, {1, 2, 3}}, minDuration: {0, 15, 50}]

TraceListInit ==
  [newest |-> Fetched, search |-> AllEvents, filters |-> NoTraceFilters, selected |-> 0, clicked |-> 0]

OnTraceList == page = "traceList"

OpenTraceList == Open("traceList", TraceListInit)

Traces(u) == u.newest - Fetched + 1 .. u.newest

\* outcome of buildTrace
TraceOutcome(e) == IF TraceIsError(EventLog[e]) THEN "error" ELSE "success"

\* filtered
TracesFiltered(u) ==
  {e \in Traces(u) \cap u.search \cap u.filters.tool :
     /\ u.filters.outcome \in {"", TraceOutcome(e)}
     /\ TotalDuration(EventLog[e]) >= u.filters.minDuration}

SetTraceSearch ==
  OnTraceList /\ ui.selected = 0 /\ \E s \in {AllEvents, {2, 3}} \ {ui.search} : Set([ui EXCEPT !.search = s])
SetTraceFilters ==
  OnTraceList /\ ui.selected = 0 /\ \E f \in TraceFilters : Set([ui EXCEPT !.filters = f])
\* The search is no filter to this button.
ClearTraceFilters == OnTraceList /\ ui.selected = 0 /\ Set([ui EXCEPT !.filters = NoTraceFilters])
SelectTrace ==
  /\ OnTraceList /\ ui.selected = 0
  /\ \E e \in TracesFiltered(ui) : Set([ui EXCEPT !.selected = e, !.clicked = e])
BackToTraces == OnTraceList /\ ui.selected # 0 /\ Set([ui EXCEPT !.selected = 0])

\* The list is fetched again, also behind a trace in detail, which may be on it no longer.
TracesRefetched ==
  OnTraceList /\ ui.newest < Len(EventLog) /\ Set([ui EXCEPT !.newest = @ + 1])

TraceListUser == SetTraceSearch \/ SetTraceFilters \/ ClearTraceFilters \/ SelectTrace \/ BackToTraces

\* The filter for errors finds exactly the calls of which a span failed, refused ones
\* included, and the one for successes all the others, so that nothing in the log is missed by
\* both; and a trace in detail stays the one that was clicked while the log moves on.
TracesAreFound ==
  OnTraceList =>
    /\ \A e \in TracesFiltered(ui) :
         LET spans == Spans(EventLog[e])
             failed == \E i \in DOMAIN spans : spans[i].status = "error"
         IN  ui.filters.outcome # "" => (ui.filters.outcome = "error") = failed
    /\ LET With(o) == TracesFiltered([ui EXCEPT !.filters.outcome = o])
       IN  With("error") \cup With("success") = With("") /\ With("error") \cap With("success") = {}
    /\ ui.selected \in {0, ui.clicked}

-----------------------------------------------------------------------------
(* Asking for access. slug is the server whose form is open, 0 if none is; *)
(* timers are the timeouts of forms that were sent. The form is not tied   *)
(* to its timer: one that was sent and closed by hand still closes the     *)
(* form that is open 1.8 seconds later.                                    *)

RequestInit == [slug |-> 0, sent |-> FALSE, timers |-> 0]

OnRequest == page = "request"

OpenRequestPage == Open("request", RequestInit)

AskAccess == OnRequest /\ ui.slug = 0 /\ \E s \in 1 .. 2 : Set([ui EXCEPT !.slug = s])

\* submit: the form turns into a confirmation that closes by itself.
SubmitRequest(u) == [u EXCEPT !.sent = TRUE, !.timers = @ + 1]

SendRequest == OnRequest /\ ui.slug # 0 /\ ~ui.sent /\ ui.timers < MaxActs /\ Set(SubmitRequest(ui))

\* onClose, from a button, the backdrop or the timer: the form is unmounted.
CloseRequest(u) == [u EXCEPT !.slug = 0, !.sent = FALSE]
CancelRequest == OnRequest /\ ui.slug # 0 /\ Set(CloseRequest(ui))
RequestTimer == OnRequest /\ ui.timers > 0 /\ Set([CloseRequest(ui) EXCEPT !.timers = @ - 1])

RequestUser == AskAccess \/ SendRequest \/ CancelRequest

\* A confirmation is never there for good: some timer will close it, whichever form started
\* it, and it does not show up in a form that was not sent.
ConfirmationEnds == OnRequest /\ ui.sent => ui.timers > 0 /\ ui.slug # 0

=============================================================================
