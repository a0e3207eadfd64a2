SPECIFICATION Spec
CONSTANTS
  Shells = {"dashboard"}
  ClerkKeys = {TRUE, FALSE}
  AttemptLimit = 1
  MaxTasks = 1
INVARIANTS
  ReadyIsEarned
  SignOutSticks

  
  
