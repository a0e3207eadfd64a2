SPECIFICATION Spec
CONSTANTS
  MaxKeys = 2
  MaxTurns = 2
  MaxSent = 2
  MaxEdits = 2
  MaxSaves = 2
  MaxPublishing = 1
  MaxLength = 3
  TeamServers = {1, 2}
  Archetypes = {1, 2}
  MaxToggles = 3
  MaxExamples = 1
  MaxRuns = 2
  MaxSubmits = 3
  MaxRecent = 2
  ShownRecent = 2
  GroupCap = 1
  ChosenCap = 2
  MaxUses = 4
  MaxListed = 2
  PageSize = 2
  LogLimit = 6
  MaxRows = 7
  Buckets = 3
  BucketSize = 2
  ErrorKeys = {1, 2}
  BoardServers = {1, 2}
  MaxRules = 2
  MaxSeen = 2
  MaxActs = 5
  ReportKeys = {1, 2}
  MaxEvents = 3
  TopRows = 1
  MonthLength = 2
  MaxSaved = 2
INVARIANTS
  SecretsReachScreen
  CallsAreGuarded
  
  
  
  
  
  FiguresAddUp
  PagesAgree
  KeyboardActsOnSeen
  
