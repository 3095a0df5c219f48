SPECIFICATION FairSpec
CONSTANTS
  s1 = s1
  Servers = {s1}
  Stdio = {}
  UserOnly = {}
  Mortal = {s1}
  NoRecord = NoRecord
  FailureThreshold = 2
  AutoUnregister = TRUE
  PersistMayFail = TRUE
  MaxRegistrations = 1
  MaxFails = 2
  MaxCrashes = 1
INVARIANTS HealthFieldsAgree DeletedStaysDeleted
PROPERTIES MissingEndpointRemembered DownServerRemoved
CHECK_DEADLOCK FALSE
