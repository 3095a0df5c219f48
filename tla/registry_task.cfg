SPECIFICATION Spec
CONSTANTS
  s1 = s1
  Servers = {s1}
  Stdio = {}
  UserOnly = {}
  Mortal = {}
  NoRecord = NoRecord
  FailureThreshold = 2
  AutoUnregister = FALSE
  PersistMayFail = FALSE
  MaxRegistrations = 1
  MaxFails = 2
  MaxCrashes = 0
INVARIANT HealthCheckerSurvives
CHECK_DEADLOCK FALSE
