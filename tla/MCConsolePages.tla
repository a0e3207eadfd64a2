--------------------------- MODULE MCConsolePages ---------------------------
(***************************************************************************)
(* All pages of the console with state of their own, as one application: a *)
(* user who goes from page to page, and calls whose answers come later. On *)
(* its way from one page to another the user passes through Elsewhere,     *)
(* which loses nothing, for a page's state is gone once it is left.        *)
(***************************************************************************)
EXTENDS ConsoleDialogs, ConsoleServers, ConsolePolicies, ConsolePatterns, ConsoleAccess,
        ConsolePlayground, ConsoleOnboarding, ConsoleSearch, ConsoleLogs, ConsoleBoards,
        ConsoleIncidents, ConsoleReports, ConsoleForms, ConsoleAudit

NoUi == [none |-> TRUE]

Init == page = Elsewhere /\ ui = NoUi /\ flight = {}

Leave == page # Elsewhere /\ Open(Elsewhere, NoUi)

Visit ==
  /\ page = Elsewhere
  /\ \/ OpenKeys \/ OpenConfig \/ OpenTester \/ OpenRegister \/ OpenNewPolicy \/ OpenPolicy
     \/ OpenPolicyTest \/ OpenManagePage \/ OpenSeed \/ OpenPlayground \/ OpenDeveloper
     \/ OpenOnboarding \/ OpenShell \/ OpenSearch \/ OpenLogs \/ OpenAudit \/ OpenCharts
     \/ OpenErrors \/ OpenCatalogue \/ OpenAlerts \/ OpenIncident \/ OpenTraces \/ OpenRequestPage
     \/ OpenExplorer \/ OpenReport \/ OpenSignUp \/ OpenReset
     \/ OpenMfa \/ OpenSearches \/ OpenRecords \/ OpenRisk \/ OpenTraceList \/ OpenLimits
     \/ \E p \in DOMAIN Dialogs : OpenDialogPage(p)

User ==
  \/ KeysUser \/ DialogUser \/ ConfigUser \/ TesterUser \/ RegisterUser \/ WizardUser \/ RulesUser
  \/ PatternsUser \/ ManageUser \/ SeedUser \/ PlaygroundUser \/ DeveloperUser \/ OnboardingUser
  \/ PaletteUser \/ SearchUser \/ LogsUser \/ AuditUser \/ ErrorsUser \/ AlertsUser
  \/ IncidentUser \/ RequestUser \/ ExplorerUser \/ SignUpUser \/ ResetUser \/ MfaUser
  \/ SearchesUser \/ RecordsUser \/ TraceListUser \/ LimitsUser

Step ==
  \/ KeysStep \/ DialogStep \/ ConfigStep \/ TesterStep \/ RegisterStep \/ WizardStep \/ RulesStep
  \/ PatternsStep \/ ManageStep \/ SeedStep \/ PlaygroundStep \/ DeveloperStep \/ OnboardingStep
  \/ ServersRefetched \/ DebounceFires \/ SearchRefetched \/ LogsStep \/ AuditStep
  \/ ChartsFetched \/ ErrorsRefetched \/ CatalogueStep \/ RequestTimer \/ ExplorerStep \/ SignUpFails
  \/ MfaStep \/ TracesRefetched

Next == Leave \/ Visit \/ User \/ Step

Spec == Init /\ [][Next]_vars

-----------------------------------------------------------------------------
(* The properties of the pages, by what they are about. *)

\* What the backend gives out once reaches the screen: the secret of the key wizard, the
\* credentials that the provisioning and developer dialogs show, the key of the onboarding.
SecretsReachScreen == SecretsAreShown /\ CredentialsAreShown /\ KeyIsKept

\* Calls in flight and timers are accounted for: a busy button has a call behind it, a form
\* that is submitted once creates one record, roles are seeded once, and a confirmation or a
\* "Copied" ends (the dialogs, SeedRolesButton, RequestAccessModal, auth/mfa).
CallsAreGuarded == BusyHasCause /\ OneRecordEach /\ SeededOnce /\ ConfirmationEnds /\ MfaSettles

\* Nothing is destroyed unasked: a name is typed for the opening at hand, a destructive tool
\* is confirmed for the run at hand, and the pages agree on what is destructive
\* (DeleteTeamDialog, the playground's ConfirmDialog, deriveRiskLevel and getRiskLevel).
DestructionIsAsked == DeletionsAreTyped /\ DestructiveIsConfirmed /\ RisksAgree

\* What the user edited is what is stored, and what others edited meanwhile stays
\* (ConfigurationTab, RulesTab, ManageServersDialog, alert rules, PlanLimitsTable).
EditsAreFaithful ==
  /\ SavedIsStored /\ OthersEditsSurvive /\ SavesWhatWasEdited /\ AssignmentsShown /\ RulesAreAsWanted
  /\ LimitsAreAsSaved

\* A form sends what it shows, complete, and leads to what it made (the policy wizard, the
\* registration of a server, sign-up, password reset).
SubmitsWhatIsShown ==
  PublishedAsExplained /\ StepsAreComplete /\ LandsOnServer /\ RegistrationFitsFlow /\ ResetIsAgreed

\* What is shown belongs to what is chosen, although answers, refetches, timers and effects
\* come in any order (tool tester, playgrounds, explorer, catalogue, error groups, and the
\* results, the address and the highlight of the search page).
ShownFitsChosen ==
  /\ ResultFitsTool /\ RunsSelectedTool /\ ExamplesComeBack /\ ToolsAreOfServer
  /\ StarsArePerServer /\ CatalogueIsCurrent /\ StatesFollowGroups /\ SearchSettles

\* Whoever pages, filters or matches by a pattern overlooks nothing that is there: on the log
\* and audit pages, with the two matchers of patterns, and in a simulation and its example.
NothingOverlooked == NothingSkipped /\ PageHasRows /\ NoEventSkipped /\ MatchersAgree /\ ExampleApplies

\* Figures that are computed in the browser add up to the events that they are computed from
\* (the charts of admin/traffic, the usage and traffic tables, the month's projection).
FiguresAddUp == ChartsAddUp /\ RowsMatchEvents /\ TopIsTop /\ MonthAddsUp /\ VolumeAddsUp

\* Two places that judge the same event agree: its outcome on the log and dashboard pages, a
\* trace and its log, the list of traces and its filters, the audit table and its CSV file.
PagesAgree == OutcomesAgree /\ TraceEndsWhereItFailed /\ TracesAreFound /\ ComplianceHides

\* The keyboard acts on what is seen: Enter takes the highlighted row, and recent commands are
\* the recent ones that exist here (command-palette.tsx).
KeyboardActsOnSeen == RecentsAreRecent /\ RecentsAreOffered /\ HighlightIsOnRow

\* A page remembers what it was told: onboarding resumes after a reload, an incident's
\* timeline tells its status, its fields hold their text and removed entries are gone, and a
\* saved search brings back its filters.
PageRemembers ==
  RefreshResumes /\ TimelineTellsStatus /\ FieldsHoldTheirText /\ RemovedAreGone /\ SearchesRestore

=============================================================================
