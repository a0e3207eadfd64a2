SPECIFICATION AnsweredSpec
CONSTANTS
  Shells = {"dashboard"}
  ClerkKeys = {TRUE}
  AttemptLimit = 1
  MaxTasks = 0
PROPERTIES
  RedirectsSettle
