SPECIFICATION UiSpec
CONSTANTS
  s1 = s1
  Servers = {s1}
  Stdio = {s1}
  UserOnly = {}
  Mortal = {}
  NoRecord = NoRecord
  FailureThreshold = 2
  AutoUnregister = TRUE
  PersistMayFail = FALSE
  MaxRegistrations = 1
  MaxFails = 2
  MaxCrashes = 0
  MaxUi = 1
INVARIANTS HealthFieldsAgree
CHECK_DEADLOCK FALSE
