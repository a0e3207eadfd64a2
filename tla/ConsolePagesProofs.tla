----------------------- MODULE ConsolePagesProofs -----------------------
(***************************************************************************)
(* What the application of MCConsolePages, all pages with a user who goes  *)
(* from one to another and calls that are answered later, keeps for every  *)
(* value of its constants: eight of the composite properties that its run  *)
(* checks on small bounds. The lemmas about the handlers of each page are  *)
(* those of ConsoleBoardsProofs and ConsoleHandlersProofs; here is that of *)
(* the charts, whose module is about lists as well.                        *)
(***************************************************************************)
EXTENDS MCConsolePages, ConsoleBoardsProofs, ConsoleHandlersProofs

-----------------------------------------------------------------------------
(* The pages that judge an event by its type and outcome. *)

ChartsInv == ui.event \in Events

\* The backend writes an event as allowed exactly if it is no refusal.
LEMMA AllowedUnlessRefused ==
  ASSUME NEW e \in Events
  PROVE  e[2] \in {"allowed", "denied"} /\ (e[2] = "allowed" <=> e[1] \notin Refusals)
  BY SMT DEF Events, Refusals

\* A fetch brings an event of the log.
LEMMA ChartsFetchedKeeps ==
  ASSUME Owned, ChartsFetched PROVE page = "charts" /\ page' = page /\ Owned' /\ ChartsInv'
<1>1. page = "charts" /\ page' = page /\ Owned'
  BY Zenon, SetKeeps DEF ChartsFetched, OnCharts
<1>2. PICK logs, e, lag : e \in Events /\ ui' = [logs |-> logs, filtered |-> ChartNow - lag, event |-> e]
  BY Zenon DEF ChartsFetched, Set
<1>3. ui'.event = e
  BY Zenon, <1>2
<1> QED BY Zenon, <1>1, <1>2, <1>3 DEF ChartsInv

\* The page opens with one.
LEMMA ChartsOpens == ASSUME OpenCharts PROVE page' = "charts" /\ Owned' /\ ChartsInv'
<1>1. PICK u : u = [logs |-> {}, filtered |-> ChartNow, event |-> <<"tool_call", "allowed">>]
  OBVIOUS
<1>2. page' = "charts" /\ ui' = u /\ Owned'
  BY SMT, <1>1, OpensClean DEF OpenCharts, Elsewhere
<1>3. u.event = <<"tool_call", "allowed">>
  BY Zenon, <1>1
<1> QED BY Zenon, <1>2, <1>3 DEF ChartsInv, Events

\* So every page but three takes an event for what the backend says it is.
LEMMA ChartsShow == ASSUME page = "charts" => ChartsInv PROVE OutcomesAgree
<1> SUFFICES ASSUME NEW e \in Events, NEW p \in DOMAIN Succeeded(e) \ Misreading
             PROVE  Succeeded(e)[p] <=> e[2] = "allowed"
  BY Zenon DEF ChartsInv, OutcomesAgree, OnCharts
<1>1. e[2] \in {"allowed", "denied"} /\ (e[2] = "allowed" <=> e[1] \notin Refusals)
  BY Zenon, AllowedUnlessRefused
<1>2. p \in {"overview", "adminHome", "adminAudit", "adminTraffic", "developerLogs", "developerUsage",
             "logs", "traffic", "trace", "errors", "audit"}
  BY Zenon DEF Succeeded, Misreading
<1>3. Succeeded(e)["overview"] = OverviewBadge(e)
  BY Zenon DEF Succeeded
<1>4. Succeeded(e)["adminHome"] = AdminHomeBadge(e)
  BY Zenon DEF Succeeded
<1>5. Succeeded(e)["adminAudit"] = AdminAuditBadge(e)
  BY Zenon DEF Succeeded
<1>6. Succeeded(e)["adminTraffic"] = AdminTrafficPill(e)
  BY Zenon DEF Succeeded
<1>7. Succeeded(e)["developerLogs"] = DeveloperLogsBadge(e)
  BY Zenon DEF Succeeded
<1>8. Succeeded(e)["developerUsage"] = DeveloperUsagePill(e)
  BY Zenon DEF Succeeded
<1>9. Succeeded(e)["logs"] = StatusBadge(e)
  BY Zenon DEF Succeeded
<1>10. Succeeded(e)["traffic"] = TrafficAllowed(e)
  BY Zenon DEF Succeeded
<1>11. Succeeded(e)["trace"] = TraceSteps(e)
  BY Zenon DEF Succeeded
<1>12. Succeeded(e)["errors"] = NoErrorGroup(e)
  BY Zenon DEF Succeeded
<1>13. Succeeded(e)["audit"] = MapAuditLog(e)
  BY Zenon DEF Succeeded
<1>14. /\ OverviewBadge(e) <=> e[2] = "allowed"
       /\ AdminHomeBadge(e) <=> e[2] = "allowed"
       /\ AdminAuditBadge(e) <=> e[2] = "allowed"
       /\ AdminTrafficPill(e) <=> e[2] = "allowed"
       /\ DeveloperLogsBadge(e) <=> e[2] = "allowed"
       /\ DeveloperUsagePill(e) <=> e[2] = "allowed"
  BY Zenon DEF OverviewBadge, AdminHomeBadge, AdminAuditBadge, AdminTrafficPill, DeveloperLogsBadge,
               DeveloperUsagePill
<1>15. /\ StatusBadge(e) <=> e[2] = "allowed"
       /\ TrafficAllowed(e) <=> e[2] = "allowed"
  BY Zenon, <1>1 DEF StatusBadge, TrafficAllowed
<1>16. TraceSteps(e) <=> e[2] = "allowed"
  BY Zenon, <1>1 DEF TraceSteps
<1>17. /\ NoErrorGroup(e) <=> e[2] = "allowed"
       /\ MapAuditLog(e) <=> e[2] = "allowed"
  BY Zenon, <1>1 DEF NoErrorGroup, MapAuditLog
<1> QED BY Zenon, <1>2, <1>3, <1>4, <1>5, <1>6, <1>7, <1>8, <1>9, <1>10, <1>11, <1>12, <1>13, <1>14, <1>15, <1>16,
              <1>17

-----------------------------------------------------------------------------
\* Pages that the invariant says nothing of, for they make no call that outlasts a step:
\* whatever happens on them, no call of another page is left in flight.
PlainPages == {"policyTest", "palette", "logs", "audit", "report", "risk"}

\* What happens on these pages.
PlainStep ==
  \/ PatternsUser \/ PaletteUser \/ LogsUser \/ AuditUser
  \/ PatternsStep \/ ServersRefetched \/ LogsStep \/ AuditStep

\* How they are opened.
OpenPlain == OpenPolicyTest \/ OpenShell \/ OpenLogs \/ OpenAudit \/ OpenReport \/ OpenRisk

\* What happens on these pages leaves every call in flight to the page that made it, and leads
\* to none of the pages that have an invariant.
LEMMA PlainKeeps ==
  ASSUME Owned, PlainStep PROVE page' \in PlainPages /\ Owned'
<1> DEFINE Goal == page' \in PlainPages /\ Owned'
<1>1. ASSUME PatternsUser \/ PatternsStep PROVE Goal
  <2>1. page = "policyTest" /\ page' = page /\ Owned'
    BY Zenon, <1>1, SetKeeps
       DEF PatternsUser, PatternsStep, SetTool, SetServer, SetAsked, RunTest, PolicyLoaded, OnTest
  <2> QED BY Zenon, <2>1 DEF PlainPages
<1>2. ASSUME PaletteUser \/ ServersRefetched PROVE Goal
  <2>1. page = "palette" /\ page' = page /\ Owned'
    BY Zenon, <1>2, SetKeeps
       DEF PaletteUser, ServersRefetched, OpenPalette, ClosePalette, PaletteKey, Hover, ClickItem,
           SwitchContext, SetPaletteQuery, Activate, OnPalette
  <2> QED BY Zenon, <2>1 DEF PlainPages
<1>3. ASSUME LogsUser \/ LogsStep PROVE Goal
  <2>1. page = "logs" /\ page' = page /\ Owned'
    BY Zenon, <1>3, SetKeeps
       DEF LogsUser, LogsStep, NextLogs, PreviousLogs, JumpLogs, SetLogFilter, RowWritten, LogsFetched,
           OnLogs
  <2> QED BY Zenon, <2>1 DEF PlainPages
<1>4. ASSUME AuditUser \/ AuditStep PROVE Goal
  <2>1. page = "audit" /\ page' = page /\ Owned'
    BY Zenon, <1>4, SetKeeps
       DEF AuditUser, AuditStep, NextAudit, PreviousAudit, SetAuditFilter, AuditFetched, EventWritten,
           AuditCollected, OnAudit
  <2> QED BY Zenon, <2>1 DEF PlainPages
<1> QED BY Zenon, <1>1, <1>2, <1>3, <1>4 DEF PlainStep

\* So does opening one of them.
LEMMA PlainOpens == ASSUME OpenPlain PROVE page' \in PlainPages /\ Owned'
  BY Zenon, OpenKeeps
     DEF OpenPlain, OpenPolicyTest, OpenShell, OpenLogs, OpenAudit, OpenReport, OpenRisk, PlainPages

\* getRiskLevel, deriveRiskLevel and the playground's risk tell the same tools destructive.
LEMMA RiskIsShared == RisksAgree
  BY SMT DEF RisksAgree, GetRiskLevel, PlaygroundRisk, DeriveRiskLevel, Severity

-----------------------------------------------------------------------------
\* The inductive invariant of the application: that of the page that is mounted, and that each
\* call in flight is a call of that page or a redirect left behind.
AppInv ==
  /\ Owned /\ BoardsInv /\ HandlersInv
  /\ page = "landing" => Landed
  /\ page = "charts" => ChartsInv

\* No page is of two kinds.
LEMMA PagesApart ==
  /\ (BoardPages \cup Away) \cap (HandlerPages \cup PlainPages \cup {"charts"}) = {}
  /\ (HandlerPages \cup Away) \cap (BoardPages \cup PlainPages \cup {"charts"}) = {}
  /\ PlainPages \cap {"landing", "charts"} = {}
  /\ {"charts"} \cap (BoardPages \cup HandlerPages \cup Away) = {}
<1>1. BoardPages \cap (HandlerPages \cup PlainPages \cup {"charts"}) = {}
  BY SMT DEF BoardPages, HandlerPages, DialogPages, PlainPages
<1>2. HandlerPages \cap (PlainPages \cup {"charts"}) = {}
  BY SMT DEF HandlerPages, DialogPages, PlainPages
<1>3. Away \cap (BoardPages \cup HandlerPages \cup PlainPages \cup {"charts"}) = {}
  BY Zenon, BoardsApart, DialogsApart DEF Away, PlainPages, Elsewhere
<1>4. PlainPages \cap {"landing", "charts"} = {}
  BY SMT DEF PlainPages
<1> QED BY Zenon, <1>1, <1>2, <1>3, <1>4

\* The invariant of the page that is mounted next is all that AppInv asks for then.
LEMMA OneHolds ==
  ASSUME Owned', page' = "landing" => Landed'
  PROVE  /\ page' \in BoardPages \cup Away /\ BoardsInv' => AppInv'
         /\ page' \in HandlerPages \cup Away /\ HandlersInv' => AppInv'
         /\ page' = "charts" /\ ChartsInv' => AppInv'
         /\ page' \in PlainPages => AppInv'
         /\ page' = Elsewhere => AppInv'
<1>1. page' \in BoardPages \cup Away /\ BoardsInv' => AppInv'
  BY Zenon, PagesApart, OneHandler DEF AppInv
<1>2. page' \in HandlerPages \cup Away /\ HandlersInv' => AppInv'
  BY Zenon, PagesApart, OneBoard DEF AppInv
<1>3. page' = "charts" /\ ChartsInv' => AppInv'
  <2>1. "charts" # "landing"
    BY SMT
  <2> QED BY Zenon, <2>1, PagesApart, OneBoard, OneHandler DEF AppInv
<1>4. page' \in PlainPages => AppInv'
  BY Zenon, PagesApart, OneBoard, OneHandler DEF AppInv
<1>5. page' = Elsewhere => AppInv'
  BY Zenon, <1>1, OneBoard DEF Away
<1> QED BY Zenon, <1>1, <1>2, <1>3, <1>4, <1>5

\* Every step of the application keeps the invariant: one step of this proof for each kind of
\* page, one for leaving a page, one for stuttering.
LEMMA AppStep == AppInv /\ [Next]_vars => AppInv'
<1> SUFFICES ASSUME AppInv, [Next]_vars PROVE AppInv'
  OBVIOUS
<1>1. ASSUME BoardStep PROVE AppInv'
  BY Zenon, <1>1, BoardsKeep, OneHolds DEF AppInv
<1>2. ASSUME HandlerStep PROVE AppInv'
  BY Zenon, <1>2, HandlersKeep, OneHolds DEF AppInv
<1>3. ASSUME ChartsFetched \/ OpenCharts PROVE AppInv'
  <2>1. Owned' /\ page' = "charts" /\ ChartsInv'
    BY Zenon, <1>3, ChartsFetchedKeeps, ChartsOpens DEF AppInv
  <2>2. page' # "landing"
    BY SMT, <2>1
  <2> QED BY Zenon, <2>1, <2>2, OneHolds
<1>4. ASSUME Leave PROVE AppInv'
  <2>1. Owned' /\ page' = Elsewhere
    BY Zenon, <1>4, OpenKeeps DEF Leave
  <2>2. page' # "landing"
    BY SMT, <2>1 DEF Elsewhere
  <2> QED BY Zenon, <2>1, <2>2, OneHolds
<1>5. ASSUME PlainStep \/ OpenPlain PROVE AppInv'
  <2>1. Owned' /\ page' \in PlainPages
    BY Zenon, <1>5, PlainKeeps, PlainOpens DEF AppInv
  <2> QED BY Zenon, <2>1, PagesApart, OneHolds
<1>6. ASSUME OpenBoard PROVE AppInv'
  <2>1. Owned' /\ BoardsInv' /\ page' \in BoardPages
    BY Zenon, <1>6, BoardsOpen
  <2>2. page' # "landing"
    BY Zenon, <2>1, BoardsApart DEF Away
  <2> QED BY Zenon, <2>1, <2>2, OneHolds
<1>7. ASSUME OpenHandler PROVE AppInv'
  <2>1. Owned' /\ HandlersInv' /\ page' \in HandlerPages
    BY Zenon, <1>7, HandlersOpen
  <2>2. page' # "landing"
    BY Zenon, <2>1, DialogsApart DEF Away
  <2> QED BY Zenon, <2>1, <2>2, OneHolds
<1>8. ASSUME UNCHANGED vars PROVE AppInv'
  <2>1. page' = page /\ ui' = ui /\ flight' = flight
    BY Zenon, <1>8 DEF vars
  <2>2. BoardsInv' /\ HandlersInv'
    BY Zenon, <2>1, BoardsStay, HandlersStay DEF AppInv
  <2> QED BY Zenon, <2>1, <2>2 DEF AppInv, Owned, Landed, ChartsInv
<1>9. ASSUME Visit PROVE AppInv'
  BY Zenon, <1>3, <1>5, <1>6, <1>7, <1>9 DEF Visit, OpenBoard, OpenHandler, OpenPlain
<1>10. ASSUME User PROVE AppInv'
  BY Zenon, <1>1, <1>2, <1>5, <1>10 DEF User, BoardStep, HandlerStep, PlainStep
<1>11. ASSUME Step PROVE AppInv'
  BY Zenon, <1>1, <1>2, <1>3, <1>5, <1>11 DEF Step, BoardStep, HandlerStep, PlainStep
<1> QED BY Zenon, <1>4, <1>8, <1>9, <1>10, <1>11 DEF Next

\* The application starts on no page, with nothing in flight.
LEMMA AppStarts == Init => AppInv
<1> SUFFICES ASSUME Init PROVE AppInv
  OBVIOUS
<1>1. Owned /\ page = Elsewhere
  BY Zenon DEF Init, Owned
<1>2. BoardsInv
  BY SMT, <1>1 DEF BoardsInv, Elsewhere
<1>3. HandlersInv
  BY SMT, <1>1 DEF HandlersInv, DialogPages, Elsewhere
<1> QED BY SMT, <1>1, <1>2, <1>3 DEF AppInv, Elsewhere

\* The invariant holds at all times.
LEMMA AppHolds == Spec => []AppInv
<1> QED BY AppStarts, AppStep, PTL DEF Spec

-----------------------------------------------------------------------------
\* Nothing is destroyed unasked, for any number of openings, runs and calls: a deletion whose
\* dialog asks for the name was typed for the opening at hand (DeleteTeamDialog,
\* DeleteMemberDialog), a destructive tool that runs in the playground was confirmed for this
\* run (handleRun, ConfirmDialog), and the two risk functions agree.
THEOREM DestructionAsked == Spec => []DestructionIsAsked
<1>1. AppInv => DestructionIsAsked
  BY Zenon, BoardsShow, HandlersShow, RiskIsShared DEF AppInv, DestructionIsAsked
<1> QED BY <1>1, AppHolds, PTL

\* A form sends what it shows, however its answers are delayed and wherever its user went: a
\* policy is published as the last step explained it, with the earlier steps complete
\* (policies/new), registering a server leads to a server that was made (servers/new), sign-up
\* sends what its flow needs, and a password is reset only if typed twice.
THEOREM FormsSubmitWhatTheyShow == Spec => []SubmitsWhatIsShown
<1>1. AppInv => SubmitsWhatIsShown
  BY Zenon, BoardsShow, HandlersShow DEF AppInv, SubmitsWhatIsShown, Landed, LandsOnServer
<1> QED BY <1>1, AppHolds, PTL

\* A secret that the backend gives out once reaches the screen, for any number of keys and
\* credentials: that of the key wizard unless the user left it (dashboard/keys), those of
\* ProvisionDialog and DeveloperKeyDialog, and the key of the onboarding in what it stores.
THEOREM SecretsReachTheScreen == Spec => []SecretsReachScreen
<1>1. AppInv => SecretsReachScreen
  BY Zenon, BoardsShow, HandlersShow DEF AppInv, SecretsReachScreen
<1> QED BY <1>1, AppHolds, PTL

\* Calls are accounted for, for any number of them: a busy button has a call behind it, a form
\* that makes one record makes one each time it is filled in or opened, plus those whose answer
\* was lost, roles are seeded once unless the button was used on a stale list, and a
\* confirmation or a "Copied" has a timer that ends it.
THEOREM CallsStayGuarded == Spec => []CallsAreGuarded
<1>1. AppInv => CallsAreGuarded
  BY Zenon, BoardsShow, HandlersShow DEF AppInv, CallsAreGuarded
<1> QED BY <1>1, AppHolds, PTL

\* What is stored is what was edited, for any number of edits, saves and refetches in any order:
\* ConfigurationTab and another person's edit of the same server, the rules of a policy,
\* ManageServersDialog, alert rules that are switched, edited and deleted at once,
\* PlanLimitsTable.
THEOREM EditsStayFaithful == Spec => []EditsAreFaithful
<1>1. AppInv => EditsAreFaithful
  BY Zenon, BoardsShow, HandlersShow DEF AppInv, EditsAreFaithful
<1> QED BY <1>1, AppHolds, PTL

\* What is shown belongs to what is chosen, although answers, refetches and effects come in any
\* order: the tool tester, both playgrounds and their examples, the explorer's tools and stars,
\* the catalogue of any set of servers, the states of any set of error groups, and on the
\* search page the address and the highlighted result.
THEOREM ShownFits == Spec => []ShownFitsChosen
<1>1. AppInv => ShownFitsChosen
  BY Zenon, BoardsShow, HandlersShow DEF AppInv, ShownFitsChosen
<1> QED BY <1>1, AppHolds, PTL

\* Two places that judge the same event agree, whatever event it is: the log and dashboard
\* pages on its outcome (but for those of Misreading), the page of a trace on where the call
\* failed, the list of traces on what its filters find, and in compliance mode the audit table,
\* its drawer and its CSV file on what they leave out.
THEOREM PagesStayAgreed == Spec => []PagesAgree
<1>1. AppInv => PagesAgree
  BY Zenon, BoardsShow, HandlersShow, ChartsShow DEF AppInv, PagesAgree
<1> QED BY <1>1, AppHolds, PTL

\* A page remembers what it was told, for any number of acts: onboarding resumes at the step
\* that it had stored, an incident's timeline leads from its first status to the one shown, its
\* fields hold the text that was saved and nobody who was removed is still assigned, and a
\* saved search brings back the filters that it was saved with, however many were saved and
\* deleted since.
THEOREM PagesKeepWhatTheyWereTold == Spec => []PageRemembers
<1>1. AppInv => PageRemembers
  BY Zenon, BoardsShow, HandlersShow DEF AppInv, PageRemembers
<1> QED BY <1>1, AppHolds, PTL

=============================================================================
